------------------------- MODULE CommitProtocolProofs -------------------------
(***************************************************************************)
(* Proofs about CommitProtocol, for any number of processes, any tables and*)
(* states, and calls cut off at any stage: TypeOK, WriteOrder and          *)
(* NoRedundantCommit are invariants; what they lead to when no call is cut *)
(* off, and when only one process commits, comes after them.               *)
(*                                                                         *)
(* None of the three is inductive: whether the next file written has its   *)
(* references on disk depends on what the call that writes it has stored so*)
(* far.  IInv adds that, process by process (LocalOK).                     *)
(***************************************************************************)
EXTENDS CommitProtocol, SequenceTheorems, TLAPS

USE StatesAreTableSets

\* A running call holds a state its capture returned.
SnapOK(w) == stage[w] # "idle" => snap[w] \in States

\* A write in progress is the write of an object the call may store now.
WriteOK(w) ==
    /\ io[w] # "check" => obj[w] \in Pending(w)
    /\ io[w] = "write" => obj[w] \in files

\* The captured tables that are not in `todo` are on disk; the loop is over
\* once the call has left it.
TablesStored(w) ==
    /\ \A t \in snap[w] : t \in todo[w] \/ TableObj(t) \in files
    /\ todo[w] \subseteq snap[w]
    /\ stage[w] \notin {"idle", "tables"} => todo[w] = {}

TreeStored(w) ==
    stage[w] \in {"head", "compare", "commit", "ref", "refwrite"}
        => TreeObj(snap[w]) \in files

ParentStored(w) == parent[w] # <<>> => CommitObj(parent[w]) \in files

\* The commit built by a call extends the parent it read by another tree.
DraftOK(w) ==
    stage[w] \in {"commit", "ref", "refwrite"} =>
        /\ \E m \in Metas : draft[w] = CommitHash(parent[w], snap[w], m)
        /\ parent[w] # <<>> => TreeOf(parent[w]) # snap[w]

DraftStored(w) ==
    stage[w] \in {"ref", "refwrite"} => CommitObj(draft[w]) \in files

LocalOK(w) ==
    /\ SnapOK(w) /\ WriteOK(w) /\ TablesStored(w) /\ TreeStored(w)
    /\ ParentStored(w) /\ DraftOK(w) /\ DraftStored(w)

IInv ==
    /\ TypeOK
    /\ \A w \in Committers : LocalOK(w)
    /\ WriteOrder /\ NoRedundantCommit
-------------------------------------------------------------------------------
(* The hash of a commit determines its tree and its parent. *)
LEMMA CommitHashFacts ==
    ASSUME NEW p \in History, NEW s \in States, NEW m \in Metas
    PROVE  /\ CommitHash(p, s, m) \in History
           /\ CommitHash(p, s, m) # <<>>
           /\ TreeOf(CommitHash(p, s, m)) = s
           /\ ParentOf(CommitHash(p, s, m)) = p
  <1> DEFINE e == [tree |-> s, meta |-> m]
  <1>1. e \in Entry /\ e.tree = s
    BY DEF Entry
  <1>2. p \in Seq(Entry) /\ Len(p) \in Nat
    BY DEF History
  <1> HIDE DEF e
  <1>3. /\ Append(p, e) \in Seq(Entry)
        /\ Len(Append(p, e)) = Len(p) + 1
        /\ Append(p, e)[Len(p) + 1] = e
        /\ \A i \in 1 .. Len(p) : Append(p, e)[i] = p[i]
    BY <1>1, <1>2, AppendProperties
  <1>4. SubSeq(Append(p, e), 1, Len(p)) = p
    BY <1>2, <1>3
  <1>5. CommitHash(p, s, m) = Append(p, e)
    BY DEF CommitHash, e
  <1>6. Append(p, e) # <<>>
    BY <1>2, <1>3
  <1> QED
    BY <1>1, <1>2, <1>3, <1>4, <1>5, <1>6 DEF TreeOf, ParentOf, History

\* What an object of each kind refers to.
LEMMA ReferencesOf ==
    /\ \A t : References(TableObj(t)) = {}
    /\ \A s : References(TreeObj(s)) = {TableObj(t) : t \in s}
    /\ \A c : References(CommitObj(c)) =
              {TreeObj(TreeOf(c))}
                \cup {CommitObj(p) : p \in {ParentOf(c)} \ {<<>>}}
  BY DEF References, TableObj, TreeObj, CommitObj

\* A call stores objects of the three kinds only.
LEMMA PendingObjects ==
    ASSUME TypeOK, NEW w \in Committers, SnapOK(w)
    PROVE  Pending(w) \subseteq Objects
  <1>1. CASE stage[w] = "tables"
    BY <1>1 DEF Pending, Objects, TypeOK, TableObj
  <1>2. CASE stage[w] = "tree"
    BY <1>2 DEF Pending, Objects, TypeOK, TreeObj, SnapOK
  <1>3. CASE stage[w] = "commit"
    BY <1>3 DEF Pending, Objects, TypeOK, CommitObj
  <1>4. CASE stage[w] \notin {"tables", "tree", "commit"}
    BY <1>4 DEF Pending
  <1> QED
    BY <1>1, <1>2, <1>3, <1>4

\* The commit a call is about to store names its own tree and the parent it read.
LEMMA DraftNames ==
    ASSUME TypeOK, NEW w \in Committers, LocalOK(w),
           stage[w] \in {"commit", "ref", "refwrite"}
    PROVE  /\ draft[w] # <<>>
           /\ TreeOf(draft[w]) = snap[w]
           /\ ParentOf(draft[w]) = parent[w]
  <1>1. PICK m \in Metas : draft[w] = CommitHash(parent[w], snap[w], m)
    BY DEF LocalOK, DraftOK
  <1>2. parent[w] \in History /\ snap[w] \in States
    BY DEF TypeOK, LocalOK, SnapOK
  <1> QED
    BY <1>1, <1>2, CommitHashFacts

\* What a call stores next refers to files that exist.
LEMMA PendingReferences ==
    ASSUME TypeOK, NEW w \in Committers, LocalOK(w), NEW o \in Pending(w)
    PROVE  References(o) \subseteq files
  <1>1. CASE stage[w] = "tables"
    <2>1. PICK t \in todo[w] : o = TableObj(t)
      BY <1>1 DEF Pending
    <2> QED
      BY <2>1, ReferencesOf
  <1>2. CASE stage[w] = "tree"
    <2>1. o = TreeObj(snap[w])
      BY <1>2 DEF Pending
    <2>2. \A t \in snap[w] : TableObj(t) \in files
      BY <1>2 DEF LocalOK, TablesStored
    <2> QED
      BY <2>1, <2>2, ReferencesOf
  <1>3. CASE stage[w] = "commit"
    <2>1. o = CommitObj(draft[w])
      BY <1>3 DEF Pending
    <2>2. TreeOf(draft[w]) = snap[w] /\ ParentOf(draft[w]) = parent[w]
      BY <1>3, DraftNames
    <2>3. TreeObj(snap[w]) \in files
      BY <1>3 DEF LocalOK, TreeStored
    <2>4. parent[w] # <<>> => CommitObj(parent[w]) \in files
      BY DEF LocalOK, ParentStored
    <2> QED
      BY <2>1, <2>2, <2>3, <2>4, ReferencesOf
  <1>4. CASE stage[w] \notin {"tables", "tree", "commit"}
    BY <1>4 DEF Pending
  <1> QED
    BY <1>1, <1>2, <1>3, <1>4

\* A process keeps its part of the invariant while it does nothing and files
\* are only added.
LEMMA Frame ==
    ASSUME NEW u, LocalOK(u), files \subseteq files',
           stage'[u] = stage[u], io'[u] = io[u], obj'[u] = obj[u],
           snap'[u] = snap[u], todo'[u] = todo[u], parent'[u] = parent[u],
           draft'[u] = draft[u]
    PROVE  LocalOK(u)'
  <1>1. SnapOK(u)' /\ TablesStored(u)' /\ TreeStored(u)' /\ ParentStored(u)'
    BY DEF LocalOK, SnapOK, TablesStored, TreeStored, ParentStored
  <1>2. DraftOK(u)' /\ DraftStored(u)'
    BY DEF LocalOK, DraftOK, DraftStored
  <1>3. WriteOK(u)'
    BY DEF LocalOK, WriteOK, Pending
  <1> QED
    BY <1>1, <1>2, <1>3 DEF LocalOK

\* A process that has returned holds nothing.
LEMMA ReturnLocal ==
    ASSUME TypeOK, NEW w \in Committers, Return(w)
    PROVE  LocalOK(w)'
  <1>1. /\ stage'[w] = "idle" /\ io'[w] = "check" /\ snap'[w] = {}
        /\ todo'[w] = {} /\ parent'[w] = <<>>
    BY DEF TypeOK, Return, GoTo
  <1> QED
    BY <1>1 DEF LocalOK, SnapOK, WriteOK, TablesStored, TreeStored,
                ParentStored, DraftOK, DraftStored
-------------------------------------------------------------------------------
(* Each action preserves IInv. *)

LEMMA InitIInv == Init => IInv
  <1> SUFFICES ASSUME Init PROVE IInv
    OBVIOUS
  <1>1. TypeOK
    BY DEF Init, TypeOK, History, Stages
  <1>2. \A w \in Committers : LocalOK(w)
    BY DEF Init, LocalOK, SnapOK, WriteOK, TablesStored, TreeStored,
           ParentStored, DraftOK, DraftStored
  <1>3. WriteOrder /\ NoRedundantCommit
    BY DEF Init, WriteOrder, NoRedundantCommit
  <1> QED
    BY <1>1, <1>2, <1>3 DEF IInv

\* A call starts with every captured table still to store.
LEMMA CaptureStep ==
    ASSUME IInv, NEW w \in Committers, Capture(w)
    PROVE  IInv'
  <1>1. TypeOK'
    BY DEF Capture, GoTo, store, local, IInv, TypeOK, Stages
  <1>2. LocalOK(w)'
    BY DEF Capture, GoTo, store, local, IInv, TypeOK, LocalOK, SnapOK, WriteOK, TablesStored, TreeStored,
           ParentStored, DraftOK, DraftStored, Pending
  <1>3. ASSUME NEW u \in Committers, u # w PROVE LocalOK(u)'
    BY <1>3, Frame DEF Capture, GoTo, store, local, IInv, TypeOK
  <1>4. WriteOrder' /\ NoRedundantCommit'
    BY DEF Capture, GoTo, store, local, IInv, WriteOrder, NoRedundantCommit
  <1> QED
    BY <1>1, <1>2, <1>3, <1>4 DEF IInv

\* The table loop ends when every table is stored.
LEMMA BuildTreeStep ==
    ASSUME IInv, NEW w \in Committers, BuildTree(w)
    PROVE  IInv'
  <1>1. TypeOK'
    BY DEF BuildTree, GoTo, StageAfter, store, local, IInv, TypeOK, Stages
  <1>2. LocalOK(w)'
    BY DEF BuildTree, GoTo, StageAfter, store, local, IInv, TypeOK, LocalOK, SnapOK, WriteOK, TablesStored, TreeStored,
           ParentStored, DraftOK, DraftStored, Pending
  <1>3. ASSUME NEW u \in Committers, u # w PROVE LocalOK(u)'
    BY <1>3, Frame DEF BuildTree, GoTo, StageAfter, store, local, IInv, TypeOK
  <1>4. WriteOrder' /\ NoRedundantCommit'
    BY DEF BuildTree, GoTo, StageAfter, store, local, IInv, WriteOrder, NoRedundantCommit
  <1> QED
    BY <1>1, <1>2, <1>3, <1>4 DEF IInv

\* The parent is the commit HEAD names, which exists.
LEMMA ReadHeadStep ==
    ASSUME IInv, NEW w \in Committers, ReadHead(w)
    PROVE  IInv'
  <1>1. TypeOK'
    BY DEF ReadHead, GoTo, store, local, IInv, TypeOK, Stages
  <1>2. LocalOK(w)'
    BY DEF ReadHead, GoTo, store, local, IInv, TypeOK, LocalOK, SnapOK, WriteOK, TablesStored, TreeStored,
           ParentStored, DraftOK, DraftStored,
           WriteOrder, Pending
  <1>3. ASSUME NEW u \in Committers, u # w PROVE LocalOK(u)'
    BY <1>3, Frame DEF ReadHead, GoTo, store, local, IInv, TypeOK
  <1>4. WriteOrder' /\ NoRedundantCommit'
    BY DEF ReadHead, GoTo, store, local, IInv, WriteOrder, NoRedundantCommit
  <1> QED
    BY <1>1, <1>2, <1>3, <1>4 DEF IInv

\* A call that cannot read the parent returns.
LEMMA ParentUnreadableStep ==
    ASSUME IInv, NEW w \in Committers, ParentUnreadable(w)
    PROVE  IInv'
  <1>1. TypeOK'
    BY DEF ParentUnreadable, Return, GoTo, store, IInv, TypeOK, Stages, History
  <1>2. LocalOK(w)'
    BY ReturnLocal DEF ParentUnreadable, IInv
  <1>3. ASSUME NEW u \in Committers, u # w PROVE LocalOK(u)'
    BY <1>3, Frame DEF ParentUnreadable, Return, GoTo, store, IInv, TypeOK
  <1>4. WriteOrder' /\ NoRedundantCommit'
    BY DEF ParentUnreadable, Return, GoTo, store, IInv, WriteOrder, NoRedundantCommit
  <1> QED
    BY <1>1, <1>2, <1>3, <1>4 DEF IInv

\* A call that finds the same tree returns.
LEMMA UnchangedStep ==
    ASSUME IInv, NEW w \in Committers, Unchanged(w)
    PROVE  IInv'
  <1>1. TypeOK'
    BY DEF Unchanged, Return, GoTo, store, IInv, TypeOK, Stages, History
  <1>2. LocalOK(w)'
    BY ReturnLocal DEF Unchanged, IInv
  <1>3. ASSUME NEW u \in Committers, u # w PROVE LocalOK(u)'
    BY <1>3, Frame DEF Unchanged, Return, GoTo, store, IInv, TypeOK
  <1>4. WriteOrder' /\ NoRedundantCommit'
    BY DEF Unchanged, Return, GoTo, store, IInv, WriteOrder, NoRedundantCommit
  <1> QED
    BY <1>1, <1>2, <1>3, <1>4 DEF IInv

\* A call that is cut off leaves the store as it is.
LEMMA FailStep ==
    ASSUME IInv, NEW w \in Committers, Fail(w)
    PROVE  IInv'
  <1>1. TypeOK'
    BY DEF Fail, Return, GoTo, store, IInv, TypeOK, Stages, History
  <1>2. LocalOK(w)'
    BY ReturnLocal DEF Fail, IInv
  <1>3. ASSUME NEW u \in Committers, u # w PROVE LocalOK(u)'
    BY <1>3, Frame DEF Fail, Return, GoTo, store, IInv, TypeOK
  <1>4. WriteOrder' /\ NoRedundantCommit'
    BY DEF Fail, Return, GoTo, store, IInv, WriteOrder, NoRedundantCommit
  <1> QED
    BY <1>1, <1>2, <1>3, <1>4 DEF IInv

\* An empty HEAD names nothing.
LEMMA TruncateStep ==
    ASSUME IInv, NEW w \in Committers, TruncateHead(w)
    PROVE  IInv'
  <1>1. TypeOK'
    BY DEF TruncateHead, GoTo, store, local, IInv, TypeOK, Stages, History
  <1>2. LocalOK(w)'
    BY DEF TruncateHead, GoTo, store, local, IInv, TypeOK, LocalOK, SnapOK, WriteOK, TablesStored, TreeStored,
           ParentStored, DraftOK, DraftStored, Pending
  <1>3. ASSUME NEW u \in Committers, u # w PROVE LocalOK(u)'
    BY <1>3, Frame DEF TruncateHead, GoTo, store, local, IInv, TypeOK
  <1>4. WriteOrder' /\ NoRedundantCommit'
    BY DEF TruncateHead, GoTo, store, local, IInv, WriteOrder, NoRedundantCommit
  <1> QED
    BY <1>1, <1>2, <1>3, <1>4 DEF IInv

\* The commit extends the parent that was read, by a tree that differs.
LEMMA ComposeStep ==
    ASSUME IInv, NEW w \in Committers, ComposeCommit(w)
    PROVE  IInv'
  <1>1. PICK m \in Metas :
           draft' = [draft EXCEPT ![w] = CommitHash(parent[w], snap[w], m)]
    BY DEF ComposeCommit, BaseOf
  <1>2. parent[w] \in History /\ snap[w] \in States
    BY DEF IInv, TypeOK, LocalOK, SnapOK, ComposeCommit
  <1>3. CommitHash(parent[w], snap[w], m) \in History
    BY <1>2, CommitHashFacts
  <1>4. TypeOK'
    BY <1>1, <1>3 DEF ComposeCommit, GoTo, store, IInv, TypeOK, Stages
  <1>5. LocalOK(w)'
    <2>1. SnapOK(w)' /\ TablesStored(w)' /\ TreeStored(w)' /\ ParentStored(w)'
      BY DEF ComposeCommit, GoTo, store, IInv, TypeOK, LocalOK, SnapOK,
             TablesStored, TreeStored, ParentStored
    <2>2. DraftOK(w)' /\ DraftStored(w)'
      BY <1>1 DEF ComposeCommit, GoTo, store, IInv, TypeOK, DraftOK,
                  DraftStored, SameTree
    <2>3. WriteOK(w)'
      BY DEF ComposeCommit, GoTo, store, IInv, TypeOK, LocalOK, WriteOK, Pending
    <2> QED
      BY <2>1, <2>2, <2>3 DEF LocalOK
  <1>6. ASSUME NEW u \in Committers, u # w PROVE LocalOK(u)'
    BY <1>6, Frame DEF ComposeCommit, GoTo, store, IInv, TypeOK
  <1>7. WriteOrder' /\ NoRedundantCommit'
    BY DEF ComposeCommit, store, IInv, WriteOrder, NoRedundantCommit
  <1> QED
    BY <1>4, <1>5, <1>6, <1>7 DEF IInv

\* HEAD moves to a commit that is on disk.
LEMMA WriteHeadStep ==
    ASSUME IInv, NEW w \in Committers, WriteHead(w)
    PROVE  IInv'
  <1>1. TypeOK'
    BY DEF WriteHead, Return, GoTo, store, IInv, TypeOK, Stages, History
  <1>2. LocalOK(w)'
    BY ReturnLocal DEF WriteHead, IInv
  <1>3. ASSUME NEW u \in Committers, u # w PROVE LocalOK(u)'
    BY <1>3, Frame DEF WriteHead, Return, GoTo, store, IInv, TypeOK
  <1>4. CommitObj(draft[w]) \in files
    BY DEF WriteHead, IInv, LocalOK, DraftStored
  <1>5. WriteOrder' /\ NoRedundantCommit'
    BY <1>4 DEF WriteHead, store, IInv, WriteOrder, NoRedundantCommit
  <1> QED
    BY <1>1, <1>2, <1>3, <1>5 DEF IInv

\* An object is stored: the call has one thing less to do.
LEMMA StoredLocal ==
    ASSUME TypeOK, NEW w \in Committers, LocalOK(w), NEW o \in Pending(w),
           o \in files, files' = files, Stored(w, o), io'[w] = "check"
    PROVE  LocalOK(w)'
  <1> USE DEF Stored, GoTo, StageAfter, TypeOK
  <1>1. SnapOK(w)' /\ ParentStored(w)' /\ WriteOK(w)'
    BY DEF LocalOK, SnapOK, ParentStored, WriteOK, Pending
  <1>2. CASE stage[w] = "tables"
    <2>1. PICK t \in todo[w] : o = TableObj(t)
      BY <1>2 DEF Pending
    <2>2. todo'[w] = todo[w] \ {t} /\ stage'[w] = "tables"
      BY <1>2, <2>1 DEF TableObj
    <2>3. TablesStored(w)'
      BY <1>2, <2>1, <2>2 DEF LocalOK, TablesStored
    <2>4. TreeStored(w)' /\ DraftOK(w)' /\ DraftStored(w)'
      BY <2>2 DEF TreeStored, DraftOK, DraftStored
    <2> QED
      BY <1>1, <2>3, <2>4 DEF LocalOK
  <1>3. CASE stage[w] = "tree"
    <2>1. o = TreeObj(snap[w]) /\ stage'[w] = "head"
      BY <1>3 DEF Pending
    <2>2. TablesStored(w)'
      BY <1>3, <2>1 DEF LocalOK, TablesStored
    <2>3. TreeStored(w)' /\ DraftOK(w)' /\ DraftStored(w)'
      BY <2>1 DEF TreeStored, DraftOK, DraftStored
    <2> QED
      BY <1>1, <2>2, <2>3 DEF LocalOK
  <1>4. CASE stage[w] = "commit"
    <2>1. o = CommitObj(draft[w]) /\ stage'[w] = "ref"
      BY <1>4 DEF Pending
    <2>2. TablesStored(w)' /\ TreeStored(w)'
      BY <1>4, <2>1 DEF LocalOK, TablesStored, TreeStored
    <2>3. DraftOK(w)' /\ DraftStored(w)'
      BY <1>4, <2>1 DEF LocalOK, DraftOK, DraftStored
    <2> QED
      BY <1>1, <2>2, <2>3 DEF LocalOK
  <1>5. stage[w] \in {"tables", "tree", "commit"}
    BY DEF Pending
  <1> QED
    BY <1>2, <1>3, <1>4, <1>5

LEMMA StoredTypes ==
    ASSUME TypeOK, NEW w \in Committers, NEW o \in Pending(w), Stored(w, o)
    PROVE  /\ stage' \in [Committers -> Stages]
           /\ todo' \in [Committers -> SUBSET TableHashes]
           /\ obj' \in [Committers -> Objects \cup {<<>>}]
  BY DEF TypeOK, Stored, GoTo, StageAfter, Stages

\* An object that exists counts as stored.
LEMMA SkipStep ==
    ASSUME IInv, NEW w \in Committers, SkipExisting(w)
    PROVE  IInv'
  <1>1. PICK o \in Pending(w) : Exists(o) /\ Stored(w, o)
    BY DEF SkipExisting
  <1>2. TypeOK'
    BY <1>1, StoredTypes DEF SkipExisting, Stored, store, IInv, TypeOK
  <1>3. LocalOK(w)'
    BY <1>1, StoredLocal DEF SkipExisting, Exists, store, IInv
  <1>4. ASSUME NEW u \in Committers, u # w PROVE LocalOK(u)'
    BY <1>1, <1>4, Frame DEF SkipExisting, Stored, GoTo, store, IInv, TypeOK
  <1>5. WriteOrder' /\ NoRedundantCommit'
    BY <1>1 DEF SkipExisting, Stored, store, IInv, WriteOrder, NoRedundantCommit
  <1> QED
    BY <1>2, <1>3, <1>4, <1>5 DEF IInv

\* A missing object is chosen for writing.
LEMMA FindMissingStep ==
    ASSUME IInv, NEW w \in Committers, FindMissing(w)
    PROVE  IInv'
  <1>1. PICK o \in Pending(w) : obj' = [obj EXCEPT ![w] = o]
    BY DEF FindMissing
  <1>2. o \in Objects
    BY <1>1, PendingObjects DEF IInv, LocalOK
  <1>3. TypeOK'
    BY <1>1, <1>2 DEF FindMissing, store, IInv, TypeOK
  <1>4. WriteOK(w)'
    BY <1>1 DEF FindMissing, store, IInv, TypeOK, WriteOK, Pending
  <1>5. LocalOK(w)'
    BY <1>4 DEF FindMissing, store, IInv, LocalOK, SnapOK, TablesStored,
                TreeStored, ParentStored, DraftOK, DraftStored
  <1>6. ASSUME NEW u \in Committers, u # w PROVE LocalOK(u)'
    BY <1>1, <1>6, Frame DEF FindMissing, store, IInv, TypeOK
  <1>7. WriteOrder' /\ NoRedundantCommit'
    BY DEF FindMissing, store, IInv, WriteOrder, NoRedundantCommit
  <1> QED
    BY <1>3, <1>5, <1>6, <1>7 DEF IInv

\* The one step that adds a file: everything the file refers to exists.
LEMMA OpenStep ==
    ASSUME IInv, NEW w \in Committers, OpenObject(w)
    PROVE  IInv'
  <1>1. /\ obj[w] \in Pending(w) /\ LocalOK(w) /\ TypeOK
        /\ files' = files \cup {obj[w]} /\ head' = head
    BY DEF OpenObject, Opened, IInv, LocalOK, WriteOK
  <1>2. obj[w] \in Objects
    BY <1>1, PendingObjects DEF LocalOK
  <1>3. TypeOK'
    BY <1>1, <1>2 DEF OpenObject, local, TypeOK
  <1>4. LocalOK(w)'
    <2>1. WriteOK(w)'
      BY <1>1 DEF OpenObject, local, TypeOK, WriteOK, Pending
    <2> QED
      BY <1>1, <2>1 DEF OpenObject, local, LocalOK, SnapOK, TablesStored,
                        TreeStored, ParentStored, DraftOK, DraftStored
  <1>5. ASSUME NEW u \in Committers, u # w PROVE LocalOK(u)'
    BY <1>1, <1>5, Frame DEF OpenObject, local, IInv, TypeOK
  <1>6. WriteOrder'
    <2>1. References(obj[w]) \subseteq files
      BY <1>1, PendingReferences
    <2> QED
      BY <1>1, <2>1 DEF IInv, WriteOrder
  <1>7. NoRedundantCommit'
    <2>1. SUFFICES ASSUME obj[w][1] = "commits", Len(obj[w][2]) > 1
                   PROVE  TreeOf(obj[w][2]) # TreeOf(ParentOf(obj[w][2]))
      BY <1>1 DEF IInv, NoRedundantCommit
    <2>2. stage[w] = "commit" /\ obj[w][2] = draft[w]
      BY <1>1, <2>1 DEF Pending, TableObj, TreeObj, CommitObj
    <2>3. TreeOf(draft[w]) = snap[w] /\ ParentOf(draft[w]) = parent[w]
      BY <1>1, <2>2, DraftNames
    <2>4. draft[w] \in Seq(Entry)
      BY <1>1 DEF TypeOK, History
    <2>5. parent[w] # <<>>
      BY <2>1, <2>2, <2>3, <2>4 DEF ParentOf
    <2> QED
      BY <1>1, <2>2, <2>3, <2>5 DEF LocalOK, DraftOK
  <1> QED
    BY <1>3, <1>4, <1>5, <1>6, <1>7 DEF IInv

\* The content of the file is complete.
LEMMA WriteStep ==
    ASSUME IInv, NEW w \in Committers, WriteObject(w)
    PROVE  IInv'
  <1>1. /\ obj[w] \in Pending(w) /\ obj[w] \in files /\ LocalOK(w) /\ TypeOK
        /\ Stored(w, obj[w])
    BY DEF WriteObject, IInv, LocalOK, WriteOK
  <1>2. TypeOK'
    BY <1>1, StoredTypes DEF WriteObject, Written, Stored, TypeOK
  <1>3. LocalOK(w)'
    BY <1>1, StoredLocal DEF WriteObject, TypeOK
  <1>4. ASSUME NEW u \in Committers, u # w PROVE LocalOK(u)'
    BY <1>1, <1>4, Frame DEF WriteObject, Stored, GoTo, IInv, TypeOK
  <1>5. WriteOrder' /\ NoRedundantCommit'
    BY <1>1 DEF WriteObject, Stored, IInv, WriteOrder, NoRedundantCommit
  <1> QED
    BY <1>2, <1>3, <1>4, <1>5 DEF IInv

LEMMA StutterStep ==
    ASSUME IInv, UNCHANGED vars
    PROVE  IInv'
  <1>1. \A w \in Committers : LocalOK(w)'
    BY Frame DEF vars, IInv
  <1>2. TypeOK' /\ WriteOrder' /\ NoRedundantCommit'
    BY DEF vars, IInv, TypeOK, WriteOrder, NoRedundantCommit
  <1> QED
    BY <1>1, <1>2 DEF IInv
-------------------------------------------------------------------------------
THEOREM IInvInvariant == Spec => []IInv
  <1>1. Init => IInv
    BY InitIInv
  <1>2. IInv /\ [Next]_vars => IInv'
    <2> SUFFICES ASSUME IInv, [Next]_vars PROVE IInv'
      OBVIOUS
    <2>1. CASE UNCHANGED vars
      BY <2>1, StutterStep
    <2>2. ASSUME NEW w \in Committers, Capture(w) PROVE IInv'
      BY <2>2, CaptureStep
    <2>3. ASSUME NEW w \in Committers, Fail(w) PROVE IInv'
      BY <2>3, FailStep
    <2>4. ASSUME NEW w \in Committers, Proceed(w) PROVE IInv'
      BY <2>4, SkipStep, FindMissingStep, OpenStep, WriteStep, BuildTreeStep,
         ReadHeadStep, ParentUnreadableStep, UnchangedStep, ComposeStep,
         TruncateStep, WriteHeadStep DEF Proceed
    <2> QED
      BY <2>1, <2>2, <2>3, <2>4 DEF Next
  <1> QED
    BY <1>1, <1>2, PTL DEF Spec

\* Every variable keeps its type and only existing files are intact.
THEOREM TypeCorrect == Spec => []TypeOK
  BY IInvInvariant, PTL DEF IInv

\* Whatever commit() writes, and wherever it is cut off, no file ever refers
\* to a file that does not exist, and HEAD never does either.
THEOREM WritesAreOrdered == Spec => []WriteOrder
  BY IInvInvariant, PTL DEF IInv

\* However the calls interleave, no commit repeats the tree of its parent.
THEOREM CommitsDiffer == Spec => []NoRedundantCommit
  BY IInvInvariant, PTL DEF IInv
-------------------------------------------------------------------------------
\* With any number of processes, if no call is cut off, then a half-written
\* file or an empty HEAD is the trace of a call still at work on it.
THEOREM TornFilesHaveWriters ==
    ASSUME FailurePoints = {}
    PROVE  Spec => []TornIsInFlight
  <1>1. Init => TornIsInFlight
    BY DEF Init, TornIsInFlight
  <1>2. IInv /\ TornIsInFlight /\ [Next]_vars => TornIsInFlight'
    <2> SUFFICES ASSUME IInv, TornIsInFlight, [Next]_vars
                 PROVE  TornIsInFlight'
      OBVIOUS
    <2> DEFINE Writer(o) == \E w \in Committers : io[w] = "write" /\ obj[w] = o
               Rewriter  == \E w \in Committers : stage[w] = "refwrite"
    <2>1. CASE UNCHANGED vars
      BY <2>1 DEF vars, TornIsInFlight
    <2>2. ASSUME NEW w \in Committers,
                 \/ Capture(w) \/ BuildTree(w) \/ ReadHead(w)
                 \/ ComposeCommit(w) \/ TruncateHead(w)
          PROVE  TornIsInFlight'
      <3>1. io' = io /\ obj' = obj /\ files' = files /\ intact' = intact
        BY <2>2 DEF Capture, BuildTree, ReadHead, ComposeCommit, TruncateHead,
                    store, local
      <3>2. CASE TruncateHead(w)
        BY <3>1, <3>2 DEF TornIsInFlight, TruncateHead, GoTo, IInv, TypeOK
      <3>3. CASE Capture(w) \/ BuildTree(w) \/ ReadHead(w) \/ ComposeCommit(w)
        <4>1. head' = head /\ created' = created
          BY <3>3 DEF Capture, BuildTree, ReadHead, ComposeCommit
        <4>2. Rewriter => Rewriter'
          BY <3>3 DEF Capture, BuildTree, ReadHead, ComposeCommit, GoTo, IInv, TypeOK
        <4> QED
          BY <3>1, <4>1, <4>2 DEF TornIsInFlight
      <3> QED
        BY <2>2, <3>2, <3>3
    <2>3. ASSUME NEW w \in Committers, ParentUnreadable(w) \/ Unchanged(w)
          PROVE  TornIsInFlight'
      <3>1. /\ files' = files /\ intact' = intact /\ head' = head
            /\ created' = created /\ io[w] = "check" /\ stage[w] # "refwrite"
        BY <2>3 DEF ParentUnreadable, Unchanged, store, IInv, LocalOK, WriteOK,
                    Pending, TypeOK
      <3>2. \A u \in Committers \ {w} :
               io'[u] = io[u] /\ obj'[u] = obj[u] /\ stage'[u] = stage[u]
        BY <2>3 DEF ParentUnreadable, Unchanged, Return, GoTo, IInv, TypeOK
      <3> QED
        BY <3>1, <3>2 DEF TornIsInFlight
    <2>4. ASSUME NEW w \in Committers, WriteHead(w)
          PROVE  TornIsInFlight'
      <3>1. /\ files' = files /\ intact' = intact /\ io[w] = "check"
            /\ head' = draft[w] /\ draft[w] # <<>>
        BY <2>4, DraftNames DEF WriteHead, store, IInv, LocalOK, WriteOK,
                                Pending, TypeOK
      <3>2. \A u \in Committers \ {w} : io'[u] = io[u] /\ obj'[u] = obj[u]
        BY <2>4 DEF WriteHead, Return, IInv, TypeOK
      <3> QED
        BY <3>1, <3>2 DEF TornIsInFlight
    <2>5. ASSUME NEW w \in Committers, FindMissing(w) \/ OpenObject(w)
          PROVE  TornIsInFlight'
      <3>1. head' = head /\ created' = created /\ stage' = stage
        BY <2>5 DEF FindMissing, OpenObject
      <3>2. \A u \in Committers \ {w} : io'[u] = io[u] /\ obj'[u] = obj[u]
        BY <2>5 DEF FindMissing, OpenObject, local, IInv, TypeOK
      <3>3. CASE FindMissing(w)
        BY <3>1, <3>2, <3>3 DEF FindMissing, store, TornIsInFlight
      <3>4. CASE OpenObject(w)
        <4>1. /\ files' = files \cup {obj[w]} /\ intact' = intact \ {obj[w]}
              /\ io'[w] = "write" /\ obj'[w] = obj[w] /\ io[w] = "open"
          BY <3>4 DEF OpenObject, Opened, local, IInv, TypeOK
        <4> QED
          BY <3>1, <3>2, <4>1 DEF TornIsInFlight
      <3> QED
        BY <2>5, <3>3, <3>4
    <2>6. ASSUME NEW w \in Committers, SkipExisting(w) \/ WriteObject(w)
          PROVE  TornIsInFlight'
      <3>1. /\ head' = head /\ created' = created /\ files' = files
            /\ \/ io[w] = "check" /\ intact' = intact
               \/ intact' = intact \cup {obj[w]}
        BY <2>6 DEF SkipExisting, WriteObject, Written, Stored, store
      <3>2. \A u \in Committers \ {w} :
               io'[u] = io[u] /\ obj'[u] = obj[u] /\ stage'[u] = stage[u]
        BY <2>6 DEF SkipExisting, WriteObject, Stored, GoTo, IInv, TypeOK
      <3>3. stage[w] # "refwrite"
        BY <2>6 DEF SkipExisting, WriteObject, IInv, LocalOK, WriteOK, Pending
      <3> QED
        BY <3>1, <3>2, <3>3 DEF TornIsInFlight
    <2> QED
      BY <2>1, <2>2, <2>3, <2>4, <2>5, <2>6 DEF Next, Proceed, Fail
  <1> QED
    BY <1>1, <1>2, IInvInvariant, PTL DEF Spec
-------------------------------------------------------------------------------
(* Whatever a commit file leads to exists, wherever calls are cut off; and   *)
(* when none is, every created commit can be read back in full as soon as    *)
(* the processes are at rest, also when commits overlap and write the same   *)
(* files.                                                                    *)
(*                                                                           *)
(* WriteOrder is about one step of reference.  The whole ancestry would need *)
(* an induction over it; instead Closed says it of every commit file, and    *)
(* the steps of the protocol do the induction.                               *)

Closed == \A c \in History : CommitObj(c) \in files => Closure(c) \subseteq files

\* What a commit leads to: itself, its tree and tables, and what its parent
\* leads to.
LEMMA ClosureOfCommit ==
    ASSUME NEW p \in History, NEW s \in States, NEW m \in Metas,
           NEW c, c = CommitHash(p, s, m)
    PROVE  Closure(c) \subseteq Closure(p) \cup {CommitObj(c), TreeObj(s)}
                                  \cup {TableObj(t) : t \in s}
  <1> DEFINE e == [tree |-> s, meta |-> m]
  <1>1. e \in Entry /\ e.tree = s
    BY DEF Entry
  <1> HIDE DEF e
  <1>2. p \in Seq(Entry) /\ Len(p) \in Nat /\ c = Append(p, e)
    BY DEF History, CommitHash, e
  <1>3. /\ c \in Seq(Entry) /\ Len(c) = Len(p) + 1 /\ c[Len(p) + 1] = e
        /\ \A i \in 1 .. Len(p) : c[i] = p[i]
    BY <1>1, <1>2, AppendProperties
  <1> DEFINE Part(d, i) == {CommitObj(SubSeq(d, 1, i)), TreeObj(d[i].tree)}
                             \cup {TableObj(t) : t \in d[i].tree}
  <1>4. ASSUME NEW i \in 1 .. Len(p) PROVE Part(c, i) \subseteq Closure(p)
    <2>1. SubSeq(c, 1, i) = SubSeq(p, 1, i)
      BY <1>2, <1>3, <1>4
    <2>2. c[i] = p[i]
      BY <1>3
    <2>3. Part(c, i) = Part(p, i)
      BY <2>1, <2>2
    <2> QED  BY <2>3 DEF Closure
  <1>5. Part(c, Len(c)) = {CommitObj(c), TreeObj(s)} \cup {TableObj(t) : t \in s}
    <2>1. SubSeq(c, 1, Len(c)) = c
      BY <1>3
    <2>2. c[Len(c)].tree = s
      BY <1>1, <1>3
    <2> QED  BY <2>1, <2>2
  <1>6. Closure(c) = UNION {Part(c, i) : i \in 1 .. Len(c)}
    BY DEF Closure
  <1> HIDE DEF Part
  <1>7. \A i \in 1 .. Len(c) : i \in 1 .. Len(p) \/ i = Len(c)
    BY <1>2, <1>3
  <1> QED  BY <1>4, <1>5, <1>6, <1>7

\* The root of a history leads nowhere else.
LEMMA ClosureOfNone == Closure(<<>>) = {}
  BY DEF Closure

\* The commit file about to be opened leads to files that exist.
LEMMA PendingIsClosed ==
    ASSUME IInv, Closed, NEW w \in Committers, NEW c \in History,
           CommitObj(c) \in Pending(w)
    PROVE  Closure(c) \subseteq files \cup {CommitObj(c)}
  <1>1. stage[w] = "commit" /\ c = draft[w] /\ LocalOK(w)
    BY DEF Pending, TableObj, TreeObj, CommitObj, IInv
  <1>2. PICK m \in Metas : c = CommitHash(parent[w], snap[w], m)
    BY <1>1 DEF LocalOK, DraftOK
  <1>3. parent[w] \in History /\ snap[w] \in States
    BY <1>1 DEF LocalOK, SnapOK, IInv, TypeOK
  <1>4. Closure(parent[w]) \subseteq files
    BY <1>1, <1>3, ClosureOfNone DEF LocalOK, ParentStored, Closed
  <1>5. TreeObj(snap[w]) \in files /\ \A t \in snap[w] : TableObj(t) \in files
    BY <1>1 DEF LocalOK, TreeStored, TablesStored
  <1> QED  BY <1>2, <1>3, <1>4, <1>5, ClosureOfCommit

\* Files only appear when an object is opened.
LEMMA FilesStep ==
    ASSUME IInv, [Next]_vars
    PROVE  \/ files' = files
           \/ \E w \in Committers : obj[w] \in Pending(w) /\ files' = files \cup {obj[w]}
  <1>1. CASE UNCHANGED vars
    BY <1>1 DEF vars
  <1>2. ASSUME NEW w \in Committers, OpenObject(w)
        PROVE  obj[w] \in Pending(w) /\ files' = files \cup {obj[w]}
    BY <1>2 DEF OpenObject, Opened, IInv, LocalOK, WriteOK
  <1>3. ASSUME NEW w \in Committers,
               \/ Capture(w) \/ Fail(w) \/ SkipExisting(w) \/ FindMissing(w)
               \/ WriteObject(w) \/ BuildTree(w) \/ ReadHead(w) \/ ParentUnreadable(w)
               \/ Unchanged(w) \/ ComposeCommit(w) \/ TruncateHead(w) \/ WriteHead(w)
        PROVE  files' = files
    BY <1>3 DEF Capture, Fail, SkipExisting, FindMissing, WriteObject, BuildTree, ReadHead,
                ParentUnreadable, Unchanged, ComposeCommit, TruncateHead, WriteHead, store
  <1> QED  BY <1>1, <1>2, <1>3 DEF Next, Proceed

LEMMA ClosedStep ==
    ASSUME IInv, Closed, [Next]_vars
    PROVE  Closed'
  <1>1. CASE files' = files
    BY <1>1 DEF Closed
  <1>2. ASSUME NEW w \in Committers, obj[w] \in Pending(w), files' = files \cup {obj[w]}
        PROVE  Closed'
    <2> SUFFICES ASSUME NEW c \in History, CommitObj(c) \in files'
                 PROVE  Closure(c) \subseteq files'
      BY DEF Closed
    <2>1. CASE CommitObj(c) \in files
      BY <1>2, <2>1 DEF Closed
    <2>2. CASE CommitObj(c) = obj[w]
      BY <1>2, <2>2, PendingIsClosed
    <2> QED  BY <1>2, <2>1, <2>2
  <1> QED  BY <1>1, <1>2, FilesStep

\* A commit is created when its file, and so all it leads to, exists.
CreatedExist == \A c \in created : c \in History /\ CommitObj(c) \in files

LEMMA CreatedStep ==
    ASSUME IInv, CreatedExist, [Next]_vars
    PROVE  CreatedExist'
  <1>1. files \subseteq files'
    BY FilesStep
  <1>2. CASE UNCHANGED vars
    BY <1>2 DEF vars, CreatedExist
  <1>3. ASSUME NEW w \in Committers, WriteHead(w) PROVE CreatedExist'
    <2>1. created' = created \cup {draft[w]} /\ stage[w] = "refwrite" /\ LocalOK(w)
      BY <1>3 DEF WriteHead, IInv
    <2>2. draft[w] \in History /\ CommitObj(draft[w]) \in files
      BY <2>1 DEF LocalOK, DraftStored, IInv, TypeOK
    <2> QED  BY <1>1, <2>1, <2>2 DEF CreatedExist
  <1>4. ASSUME NEW w \in Committers,
               \/ Capture(w) \/ Fail(w) \/ SkipExisting(w) \/ FindMissing(w)
               \/ OpenObject(w) \/ WriteObject(w) \/ BuildTree(w) \/ ReadHead(w)
               \/ ParentUnreadable(w) \/ Unchanged(w) \/ ComposeCommit(w) \/ TruncateHead(w)
        PROVE  CreatedExist'
    <2>1. created' = created
      BY <1>4 DEF Capture, Fail, SkipExisting, FindMissing, OpenObject, WriteObject, Stored,
                  BuildTree, ReadHead, ParentUnreadable, Unchanged, ComposeCommit,
                  TruncateHead
    <2> QED  BY <1>1, <2>1 DEF CreatedExist
  <1> QED  BY <1>2, <1>3, <1>4 DEF Next, Proceed

\* Wherever calls are cut off, everything a created commit leads to, down to the
\* root, has been begun: no file is missing, though one may be cut short.
THEOREM CreatedIsClosed == Spec => [](\A c \in created : Closure(c) \subseteq files)
  <1>1. Init => Closed /\ CreatedExist
    BY DEF Init, Closed, CreatedExist
  <1>2. IInv /\ Closed /\ CreatedExist /\ [Next]_vars => Closed' /\ CreatedExist'
    BY ClosedStep, CreatedStep
  <1>3. Closed /\ CreatedExist => \A c \in created : Closure(c) \subseteq files
    BY DEF Closed, CreatedExist
  <1> QED  BY <1>1, <1>2, <1>3, IInvInvariant, PTL DEF Spec

\* When no call is cut off, a created commit can be read in full once nobody is at
\* work: a file that two calls both found missing may be truncated after it was
\* complete, but whoever did that has written it again.
THEOREM CreatedAreReadable ==
    ASSUME FailurePoints = {}
    PROVE  Spec => []CreatedReadable
  <1>1. IInv /\ TornIsInFlight /\ (\A c \in created : Closure(c) \subseteq files)
          => CreatedReadable
    <2> SUFFICES ASSUME IInv, TornIsInFlight, Quiescent,
                        \A c \in created : Closure(c) \subseteq files
                 PROVE  \A c \in created : Closure(c) \subseteq intact
      BY DEF CreatedReadable
    <2>1. \A w \in Committers : io[w] # "write"
      BY DEF Quiescent, IInv, LocalOK, WriteOK, Pending
    <2>2. files \subseteq intact
      BY <2>1 DEF TornIsInFlight
    <2> QED  BY <2>2
  <1> QED  BY <1>1, CreatedIsClosed, TornFilesHaveWriters, IInvInvariant, PTL
-------------------------------------------------------------------------------
(* When commits do not overlap (one committing process) and, for the last    *)
(* two theorems, when no call is cut off while it rewrites refs/HEAD: the    *)
(* store is append-only, no created commit leaves the history of HEAD, and   *)
(* the protocol implements the abstract Ledger.  Calls may be cut off at any *)
(* other stage.                                                              *)

\* A file about to be opened still does not exist.
OpensNewFile(w) == io[w] = "open" => obj[w] \notin files

\* With one committing process no call opens a file that another has written:
\* what is stored in full stays, also when calls are cut off anywhere.
THEOREM SingleAppendOnly ==
    ASSUME NEW w, Committers = {w}
    PROVE  Spec => AppendOnly
  <1>1. Init => OpensNewFile(w)
    BY DEF Init, OpensNewFile
  <1>2. IInv /\ OpensNewFile(w) /\ [Next]_vars => OpensNewFile(w)'
    <2> SUFFICES ASSUME IInv, OpensNewFile(w), [Next]_vars
                 PROVE  OpensNewFile(w)'
      OBVIOUS
    <2> USE DEF OpensNewFile
    <2>1. CASE UNCHANGED vars
      BY <2>1 DEF vars
    <2>2. CASE Capture(w) \/ BuildTree(w) \/ ReadHead(w) \/ ComposeCommit(w)
                \/ TruncateHead(w)
      BY <2>2 DEF Capture, BuildTree, ReadHead, ComposeCommit, TruncateHead,
                  store, local
    <2>3. CASE ParentUnreadable(w) \/ Unchanged(w) \/ WriteHead(w) \/ Fail(w)
      BY <2>3 DEF ParentUnreadable, Unchanged, WriteHead, Fail, Return, IInv, TypeOK
    <2>4. CASE FindMissing(w)
      BY <2>4 DEF FindMissing, Exists, store, IInv, TypeOK
    <2>5. CASE SkipExisting(w) \/ OpenObject(w) \/ WriteObject(w)
      BY <2>5 DEF SkipExisting, OpenObject, WriteObject, IInv, TypeOK
    <2> QED
      BY <2>1, <2>2, <2>3, <2>4, <2>5 DEF Next, Proceed
  <1>3. IInv /\ OpensNewFile(w) /\ [Next]_vars => [intact \subseteq intact']_vars
    <2> SUFFICES ASSUME IInv, OpensNewFile(w), Next PROVE intact \subseteq intact'
      BY DEF vars
    <2>1. CASE OpenObject(w)
      BY <2>1 DEF OpenObject, OpensNewFile, IInv, TypeOK
    <2>2. CASE WriteObject(w)
      BY <2>2 DEF WriteObject, Written
    <2>3. CASE Capture(w) \/ SkipExisting(w) \/ FindMissing(w) \/ BuildTree(w)
                \/ ReadHead(w) \/ ParentUnreadable(w) \/ Unchanged(w)
                \/ ComposeCommit(w) \/ TruncateHead(w) \/ WriteHead(w) \/ Fail(w)
      BY <2>3 DEF Capture, SkipExisting, FindMissing, BuildTree, ReadHead,
                  ParentUnreadable, Unchanged, ComposeCommit, TruncateHead,
                  WriteHead, Fail, store
    <2> QED
      BY <2>1, <2>2, <2>3 DEF Next, Proceed
  <1> QED
    BY <1>1, <1>2, <1>3, IInvInvariant, PTL DEF Spec, AppendOnly
-------------------------------------------------------------------------------
(* The tip of the log: HEAD, or while HEAD is rewritten the parent read. *)

LEMMA TipOfSingle ==
    ASSUME NEW w, Committers = {w}
    PROVE  Tip = IF stage[w] = "refwrite" THEN parent[w] ELSE head
  BY DEF Tip

\* No other process moves HEAD: the parent read is still the commit HEAD names.
ParentIsHead(w) == stage[w] \in {"compare", "commit", "ref"} => parent[w] = head

\* Every created commit is the tip or one of its ancestors.
Precedes(c, d) == Len(c) <= Len(d) /\ SubSeq(d, 1, Len(c)) = c

CreatedInTip == \A c \in created : Precedes(c, Tip)

\* Appending one entry keeps every ancestor.
LEMMA AncestorOfAppend ==
    ASSUME NEW S, NEW d \in Seq(S), NEW e \in S, NEW c \in Seq(S), Precedes(c, d)
    PROVE  Precedes(c, Append(d, e))
  BY DEF Precedes

LEMMA AncestorOfItself ==
    ASSUME NEW S, NEW d \in Seq(S)
    PROVE  Precedes(d, d)
  BY DEF Precedes

\* What one step does to the tip: WriteHead moves it to the draft, every other
\* step leaves it.
LEMMA TipStep ==
    ASSUME NEW w, Committers = {w}, "refwrite" \notin FailurePoints,
           IInv, ParentIsHead(w), [Next]_vars
    PROVE  /\ ParentIsHead(w)'
           /\ \/ Tip' = Tip /\ created' = created
              \/ /\ stage[w] = "refwrite" /\ Tip = parent[w]
                 /\ Tip' = draft[w] /\ created' = created \cup {draft[w]}
  <1> DEFINE T == IF stage[w] = "refwrite" THEN parent[w] ELSE head
  <1>1. Tip = T /\ Tip' = T'
    BY TipOfSingle DEF Tip
  <1> SUFFICES /\ ParentIsHead(w)'
               /\ \/ T' = T /\ created' = created
                  \/ /\ stage[w] = "refwrite" /\ T = parent[w]
                     /\ T' = draft[w] /\ created' = created \cup {draft[w]}
    BY <1>1
  <1> USE DEF ParentIsHead
  <1>2. CASE UNCHANGED vars
    BY <1>2 DEF vars
  <1>3. CASE Capture(w) \/ BuildTree(w) \/ ReadHead(w) \/ ComposeCommit(w)
              \/ TruncateHead(w)
    BY <1>3 DEF Capture, BuildTree, ReadHead, ComposeCommit, TruncateHead, GoTo,
                StageAfter, store, local, IInv, TypeOK
  <1>4. CASE ParentUnreadable(w) \/ Unchanged(w) \/ Fail(w)
    BY <1>4 DEF ParentUnreadable, Unchanged, Fail, Return, GoTo, IInv, TypeOK
  <1>5. CASE WriteHead(w)
    BY <1>5 DEF WriteHead, Return, GoTo, IInv, TypeOK
  <1>6. CASE FindMissing(w) \/ OpenObject(w)
    BY <1>6 DEF FindMissing, OpenObject, local
  <1>7. ASSUME NEW o \in Pending(w), Stored(w, o)
        PROVE  ParentIsHead(w)' /\ T' = T /\ created' = created
    BY <1>7 DEF Stored, GoTo, StageAfter, Pending, IInv, TypeOK
  <1>8. CASE SkipExisting(w) \/ WriteObject(w)
    <2>1. \E o \in Pending(w) : Stored(w, o)
      BY <1>8 DEF SkipExisting, WriteObject, IInv, LocalOK, WriteOK
    <2> QED
      BY <1>7, <2>1
  <1> QED
    BY <1>2, <1>3, <1>4, <1>5, <1>6, <1>8 DEF Next, Proceed

\* The commit that becomes the tip extends the old tip by another tree.
LEMMA DraftExtendsTip ==
    ASSUME NEW w, Committers = {w}, IInv, stage[w] = "refwrite", Tip = parent[w]
    PROVE  /\ Tip \in History /\ snap[w] \in States
           /\ \E m \in Metas :
                draft[w] = Append(Tip, [tree |-> snap[w], meta |-> m])
           /\ Tip # <<>> => TreeOf(Tip) # snap[w]
  BY DEF IInv, LocalOK, SnapOK, DraftOK, TypeOK, CommitHash

LEMMA TipInvariant ==
    ASSUME NEW w, Committers = {w}, "refwrite" \notin FailurePoints
    PROVE  Spec => [](IInv /\ ParentIsHead(w) /\ CreatedInTip)
  <1>1. Init => ParentIsHead(w) /\ CreatedInTip
    BY DEF Init, ParentIsHead, CreatedInTip
  <1>2. IInv /\ ParentIsHead(w) /\ CreatedInTip /\ [Next]_vars
          => ParentIsHead(w)' /\ CreatedInTip'
    <2> SUFFICES ASSUME IInv, ParentIsHead(w), CreatedInTip, [Next]_vars
                 PROVE  ParentIsHead(w)' /\ CreatedInTip'
      OBVIOUS
    <2>1. CASE Tip' = Tip /\ created' = created
      BY <2>1, TipStep DEF CreatedInTip
    <2>2. CASE /\ stage[w] = "refwrite" /\ Tip = parent[w]
               /\ Tip' = draft[w] /\ created' = created \cup {draft[w]}
      <3>1. PICK m \in Metas : draft[w] = Append(Tip, [tree |-> snap[w], meta |-> m])
        BY <2>2, DraftExtendsTip
      <3>2. /\ Tip \in Seq(Entry) /\ draft[w] \in Seq(Entry)
            /\ [tree |-> snap[w], meta |-> m] \in Entry
            /\ created \subseteq Seq(Entry)
        BY <2>2, DraftExtendsTip DEF IInv, TypeOK, History, Entry
      <3>3. \A c \in created : Precedes(c, draft[w])
        BY <3>1, <3>2, AncestorOfAppend DEF CreatedInTip
      <3>4. Precedes(draft[w], draft[w])
        BY <3>2, AncestorOfItself
      <3> QED
        BY <2>2, <3>3, <3>4, TipStep DEF CreatedInTip
    <2> QED
      BY <2>1, <2>2, TipStep
  <1> QED
    BY <1>1, <1>2, IInvInvariant, PTL DEF Spec

\* Whatever was cut off before HEAD was rewritten, a commit reported as
\* Created stays in the history of HEAD.
THEOREM SingleKeepsHistory ==
    ASSUME NEW w, Committers = {w}, "refwrite" \notin FailurePoints
    PROVE  Spec => []CreatedInHistory
  <1>1. CreatedInTip => CreatedInHistory
    BY TipOfSingle DEF CreatedInTip, CreatedInHistory, Precedes, Quiescent
  <1> QED
    BY <1>1, TipInvariant, PTL

\* commit() by one process at a time is an append to the log of states: its
\* initial state is the empty log, and each step appends a state that differs
\* from the last one or leaves the log as it is.
THEOREM SingleImplementsLedger ==
    ASSUME NEW w, Committers = {w}, "refwrite" \notin FailurePoints
    PROVE  Spec => ImplementsLedger
  <1> DEFINE lg == [i \in DOMAIN Tip |-> Tip[i].tree]
  <1>1. Init => Abstract!LedgerInit
    <2> SUFFICES ASSUME Init PROVE lg = <<>>
      BY DEF Abstract!LedgerInit
    <2>1. Tip = <<>>
      BY DEF Init, Tip
    <2> QED
      BY <2>1
  <1>2. IInv /\ ParentIsHead(w) /\ [Next]_vars => [Abstract!LedgerNext]_lg
    <2> SUFFICES ASSUME IInv, ParentIsHead(w), [Next]_vars, lg' # lg
                 PROVE  Abstract!LedgerNext
      BY DEF lg
    <2>1. Tip' # Tip
      OBVIOUS
    <2>2. stage[w] = "refwrite" /\ Tip = parent[w] /\ Tip' = draft[w]
      BY <2>1, TipStep
    <2>3. PICK m \in Metas : Tip' = Append(Tip, [tree |-> snap[w], meta |-> m])
      BY <2>2, DraftExtendsTip
    <2>4. /\ Tip \in Seq(Entry) /\ snap[w] \in States
          /\ Tip # <<>> => TreeOf(Tip) # snap[w]
      BY <2>2, DraftExtendsTip DEF History
    <2>5. lg # <<>> => lg[Len(lg)] # snap[w]
      BY <2>4 DEF TreeOf
    <2>6. lg' = Append(lg, snap[w])
      BY <2>3, <2>4 DEF Entry
    <2> QED
      BY <2>4, <2>5, <2>6 DEF Abstract!LedgerNext, Abstract!Record
  <1> QED
    BY <1>1, <1>2, TipInvariant, PTL
       DEF Spec, ImplementsLedger, Abstract!LedgerSpec
===============================================================================
