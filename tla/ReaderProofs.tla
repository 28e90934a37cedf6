------------------------------ MODULE ReaderProofs ------------------------------
(***************************************************************************)
(* Proofs about HistoryReaders.  For any number of committing processes,   *)
(* wherever their calls are cut off: what a reading command holds exists,  *)
(* and prefixes resolve faithfully.  Beside one committing process: a      *)
(* command fails only on files that were left cut short; and, when no call *)
(* is cut off while it rewrites HEAD, diffs, walks and reports agree with  *)
(* the history as it grows.                                                *)
(***************************************************************************)
EXTENDS HistoryReaders, CommitProtocolProofs, Collections

\* Beside the reader the committing processes do what they do without it.
LEMMA CommitsGoOn == RSpec => Spec
  <1>1. RInit => Init
    BY DEF RInit
  <1>2. [RNext]_<<vars, reader>> => [Next]_vars
    BY DEF RNext, vars
  <1> QED  BY <1>1, <1>2, PTL DEF RSpec, Spec

\* No commit file is that of the absent parent.
CommitsAreNot == \A o \in files : o[1] = "commits" => o[2] # <<>>

LEMMA NamedCommits == Spec => []CommitsAreNot
  <1>1. Init => CommitsAreNot
    BY DEF Init, CommitsAreNot
  <1>2. IInv /\ CommitsAreNot /\ [Next]_vars => CommitsAreNot'
    <2> SUFFICES ASSUME IInv, CommitsAreNot, [Next]_vars PROVE CommitsAreNot'
      OBVIOUS
    <2>1. ASSUME NEW w \in Committers, obj[w] \in Pending(w), obj[w][1] = "commits"
          PROVE  obj[w][2] # <<>>
      <3>1. stage[w] = "commit" /\ obj[w] = CommitObj(draft[w]) /\ LocalOK(w)
        BY <2>1 DEF Pending, TableObj, TreeObj, IInv
      <3>2. draft[w] # <<>>
        BY <3>1, DraftNames DEF IInv
      <3> QED  BY <3>1, <3>2 DEF CommitObj
    <2> QED  BY <2>1, FilesStep DEF CommitsAreNot
  <1> QED  BY <1>1, <1>2, IInvInvariant, PTL DEF Spec

LEMMA ClosedInvariant == Spec => [](Closed /\ CreatedExist)
  <1>1. Init => Closed /\ CreatedExist
    BY DEF Init, Closed, CreatedExist
  <1>2. IInv /\ Closed /\ CreatedExist /\ [Next]_vars => Closed' /\ CreatedExist'
    BY ClosedStep, CreatedStep
  <1> QED  BY <1>1, <1>2, IInvInvariant, PTL DEF Spec

\* A directory listing is finite.
FilesFinite == IsFiniteSet(files)

LEMMA FinitelyManyFiles == Spec => []FilesFinite
  <1>1. Init => FilesFinite
    BY FS_EmptySet DEF Init, FilesFinite
  <1>2. IInv /\ FilesFinite /\ [Next]_vars => FilesFinite'
    BY FilesStep, FS_AddElement DEF FilesFinite
  <1> QED  BY <1>1, <1>2, IInvInvariant, PTL DEF Spec

\* What the reader may take for granted of the repository at any moment.
Ground == IInv /\ Closed /\ CreatedExist /\ CommitsAreNot /\ FilesFinite

LEMMA GroundInvariant == RSpec => []Ground
  BY CommitsGoOn, IInvInvariant, ClosedInvariant, NamedCommits, FinitelyManyFiles, PTL
     DEF Ground
-------------------------------------------------------------------------------
(* The plans: what each command may have to read. *)

Reads == {Walk(1), Walk(NoLimit), Peek, Check, At(0), At(1)}
           \cup {ByHash(c) : c \in created} \cup {ByPrefix(p) : p \in Abbreviations}

LEMMA KindsOfReads ==
    /\ \A r \in Reads :
         /\ r.kind \in {"walk", "peek", "check", "at", "hash", "prefix"}
         /\ r.kind = "walk" => r.limit \in {1, NoLimit}
         /\ r.kind = "at"   => r.up \in {0, 1} /\ r = At(r.up)
         /\ r.kind = "hash" => r.commit \in created
    /\ At(0).kind = "at" /\ At(1).kind = "at" /\ At(0).up = 0 /\ At(1).up = 1
    /\ Peek.kind = "peek" /\ Check.kind = "check"
    /\ \A n : Walk(n).kind = "walk" /\ Walk(n).limit = n
    /\ \A c : ByHash(c).kind = "hash"
    /\ \A p : ByPrefix(p).kind = "prefix"
  BY DEF Reads, Walk, Peek, Check, At, ByHash, ByPrefix

LEMMA ReadsAre ==
    /\ Walk(1) \in Reads /\ Walk(NoLimit) \in Reads /\ Peek \in Reads /\ Check \in Reads
    /\ At(0) \in Reads /\ At(1) \in Reads
    /\ \A c \in created : ByHash(c) \in Reads
    /\ \A p \in Abbreviations : ByPrefix(p) \in Reads
  BY DEF Reads

LEMMA Tuples ==
    /\ \A S : \A a \in S : <<a>> \in Seq(S) /\ Len(<<a>>) = 1 /\ <<a>>[1] = a
    /\ \A S : \A a, b \in S : /\ <<a, b>> \in Seq(S) /\ Len(<<a, b>>) = 2
                              /\ <<a, b>>[1] = a /\ <<a, b>>[2] = b
  OBVIOUS

LEMMA Beginnings ==
    ASSUME NEW S, NEW s \in Seq(S)
    PROVE  /\ Len(s) >= 1 => SubSeq(s, 1, 1) = <<s[1]>>
           /\ Len(s) >= 2 => SubSeq(s, 1, 2) = <<s[1], s[2]>>
  <1>1. ASSUME Len(s) >= 1 PROVE SubSeq(s, 1, 1) = <<s[1]>>
    <2>1. s[1] \in S /\ SubSeq(s, 1, 1) \in Seq(S) /\ Len(SubSeq(s, 1, 1)) = 1
          /\ SubSeq(s, 1, 1)[1] = s[1]
      BY <1>1
    <2>2. <<s[1]>> \in Seq(S) /\ Len(<<s[1]>>) = 1 /\ <<s[1]>>[1] = s[1]
      BY <2>1
    <2>3. \A i \in 1 .. 1 : SubSeq(s, 1, 1)[i] = <<s[1]>>[i]
      BY <2>1, <2>2
    <2> QED  BY <2>1, <2>2, <2>3, SeqEqual, Zenon
  <1>2. ASSUME Len(s) >= 2 PROVE SubSeq(s, 1, 2) = <<s[1], s[2]>>
    <2>1. s[1] \in S /\ s[2] \in S /\ SubSeq(s, 1, 2) \in Seq(S) /\ Len(SubSeq(s, 1, 2)) = 2
          /\ SubSeq(s, 1, 2)[1] = s[1] /\ SubSeq(s, 1, 2)[2] = s[2]
      BY <1>2
    <2>2. <<s[1], s[2]>> \in Seq(S) /\ Len(<<s[1], s[2]>>) = 2
          /\ <<s[1], s[2]>>[1] = s[1] /\ <<s[1], s[2]>>[2] = s[2]
      BY <2>1
    <2>3. \A i \in 1 .. 2 : SubSeq(s, 1, 2)[i] = <<s[1], s[2]>>[i]
      <3> DEFINE a == SubSeq(s, 1, 2)
                 b == <<s[1], s[2]>>
      <3>1. a[1] = b[1] /\ a[2] = b[2]
        BY <2>1, <2>2
      <3> HIDE DEF a, b
      <3>2. \A i \in 1 .. 2 : a[i] = b[i]
        BY <3>1
      <3> QED  BY <3>2 DEF a, b
    <2> QED  BY <2>1, <2>2, <2>3, SeqEqual, Zenon
  <1> QED  BY <1>1, <1>2

IsOldSide(r) == r = At(1) \/ \E c \in created : r = ByHash(c)

\* The plan p is one of those of command c.
Suits(c, p) ==
    /\ p \in Seq(Reads)
    /\ c = "log"    => Len(p) = 1 /\ p[1].kind = "walk"
    /\ c = "status" => Len(p) = 2 /\ p[1].kind = "peek" /\ p[2] = At(0)
    /\ c = "export" => Len(p) = 1 /\ p[1].kind \in {"at", "hash", "prefix"}
    /\ c = "verify" => Len(p) = 2 /\ p[1].kind = "check" /\ p[2] = At(0)
    /\ c = "diff"   => Len(p) = 2 /\ IsOldSide(p[1]) /\ p[2] = At(0)
    /\ c = "report" => /\ Len(p) = 4 /\ p[1] = Walk(NoLimit) /\ p[2] = Check
                       /\ IsOldSide(p[3]) /\ p[4] = At(0)

LEMMA PlansSuit ==
    ASSUME NEW c \in Commands, NEW p \in PlansOf(c)
    PROVE  Suits(c, p)
  <1>1. c \in {"log", "status", "export", "verify", "diff", "report"}
    BY ReaderAssumptions
  <1>2. CASE c = "log"
    <2>1. p \in LogPlans
      BY <1>2 DEF PlansOf
    <2>2. PICK r \in Reads : p = <<r>> /\ r.kind = "walk"
      BY <2>1, KindsOfReads, ReadsAre DEF LogPlans
    <2>3. p \in Seq(Reads) /\ Len(p) = 1 /\ p[1] = r
      BY <2>2, Tuples
    <2> QED  BY <1>2, <2>2, <2>3 DEF Suits
  <1>3. CASE c = "status"
    <2>1. p = StatusPlan
      BY <1>3 DEF PlansOf
    <2> QED  BY <1>3, <2>1, KindsOfReads, ReadsAre, Tuples DEF StatusPlan, Suits
  <1>4. CASE c = "export"
    <2>1. p \in ExportPlans
      BY <1>4 DEF PlansOf
    <2>2. PICK r \in Reads : p = <<r>> /\ r.kind \in {"at", "hash", "prefix"}
      BY <2>1, KindsOfReads, ReadsAre DEF ExportPlans
    <2>3. p \in Seq(Reads) /\ Len(p) = 1 /\ p[1] = r
      BY <2>2, Tuples
    <2> QED  BY <1>4, <2>2, <2>3 DEF Suits
  <1>5. CASE c = "verify"
    <2>1. p = VerifyPlan
      BY <1>5 DEF PlansOf
    <2> QED  BY <1>5, <2>1, KindsOfReads, ReadsAre, Tuples DEF VerifyPlan, Suits
  <1>6. \A d \in DiffPlans : d \in Seq(Reads) /\ Len(d) = 2 /\ IsOldSide(d[1]) /\ d[2] = At(0)
    <2> SUFFICES ASSUME NEW d \in DiffPlans
                 PROVE  d \in Seq(Reads) /\ Len(d) = 2 /\ IsOldSide(d[1]) /\ d[2] = At(0)
      OBVIOUS
    <2>1. PICK r \in Reads : IsOldSide(r) /\ d = <<r, At(0)>>
      BY ReadsAre DEF DiffPlans, DiffPlan, IsOldSide
    <2> QED  BY <2>1, ReadsAre, Tuples
  <1>7. CASE c = "diff"
    <2>1. p \in DiffPlans
      BY <1>7 DEF PlansOf
    <2> QED  BY <1>6, <1>7, <2>1 DEF Suits
  <1>8. CASE c = "report"
    <2>1. p \in ReportPlans
      BY <1>8 DEF PlansOf
    <2>2. PICK d \in DiffPlans : p = <<Walk(NoLimit), Check>> \o d
      BY <2>1 DEF ReportPlans
    <2>3. <<Walk(NoLimit), Check>> \in Seq(Reads) /\ d \in Seq(Reads) /\ Len(d) = 2
      BY <1>6, ReadsAre, Tuples
    <2> HIDE DEF Reads
    <2>4. /\ p \in Seq(Reads) /\ Len(p) = 4
          /\ p[1] = Walk(NoLimit) /\ p[2] = Check /\ p[3] = d[1] /\ p[4] = d[2]
      <3> DEFINE q == <<Walk(NoLimit), Check>>
      <3>1. q \in Seq(Reads) /\ Len(q) = 2 /\ q[1] = Walk(NoLimit) /\ q[2] = Check
        BY ReadsAre, Tuples
      <3> HIDE DEF q
      <3>2. q \o d \in Seq(Reads) /\ Len(q \o d) = 4
            /\ (q \o d)[1] = q[1] /\ (q \o d)[2] = q[2] /\ (q \o d)[3] = d[1] /\ (q \o d)[4] = d[2]
        <4>1. d \in Seq(Reads) /\ Len(d) = 2 /\ q \in Seq(Reads) /\ Len(q) = 2
          BY <2>3, <3>1
        <4>2. /\ q \o d \in Seq(Reads) /\ Len(q \o d) = Len(q) + Len(d)
              /\ \A i \in 1 .. Len(q) + Len(d) :
                    (q \o d)[i] = IF i <= Len(q) THEN q[i] ELSE d[i - Len(q)]
          BY <4>1, ConcatProperties
        <4> DEFINE e == q \o d
        <4> HIDE DEF e
        <4>3. e \in Seq(Reads) /\ Len(e) = 4
              /\ \A i \in 1 .. 4 : e[i] = IF i <= 2 THEN q[i] ELSE d[i - 2]
          BY <4>1, <4>2 DEF e
        <4>4. e[1] = q[1] /\ e[2] = q[2] /\ e[3] = d[1] /\ e[4] = d[2]
          BY <4>3
        <4> QED  BY <4>3, <4>4 DEF e
      <3> QED  BY <2>2, <3>1, <3>2 DEF q
    <2> QED  BY <1>6, <1>8, <2>4 DEF Suits
  <1> QED  BY <1>1, <1>2, <1>3, <1>4, <1>5, <1>7, <1>8

\* A command has a plan of its own, or what is left of it when there is nothing
\* to compare.
Shortened(c, p) ==
    \/ c = "status" /\ p = <<Peek>>
    \/ c = "report" /\ p = <<Walk(NoLimit), Check>>

PlanOK ==
    /\ cmd = "none" => plan = <<>> /\ got = <<>> /\ phase = "idle" /\ outcome = "none"
    /\ cmd # "none" => cmd \in Commands /\ (Suits(cmd, plan) \/ Shortened(cmd, plan))

LEMMA PlanIsSeq ==
    ASSUME PlanOK
    PROVE  plan \in Seq(Reads) /\ Len(plan) \in Nat /\ DOMAIN plan = 1 .. Len(plan)
  <1>1. plan \in Seq(Reads)
    <2>1. <<Peek>> \in Seq(Reads) /\ <<Walk(NoLimit), Check>> \in Seq(Reads)
      BY ReadsAre, Tuples
    <2>2. <<>> \in Seq(Reads)
      OBVIOUS
    <2> QED  BY <2>1, <2>2 DEF PlanOK, Suits, Shortened
  <1> QED  BY <1>1

\* What is left after a read begins with what was read.
LEMMA ContinueOK ==
    ASSUME PlanOK, cmd # "none", got \in Seq(Seq(History)), Len(got) < Len(plan), NEW h,
           h = <<>> => plan[Len(got) + 1].kind \in {"walk", "peek", "check"}
    PROVE  /\ Suits(cmd, Continue(h)) \/ Shortened(cmd, Continue(h))
           /\ Len(got) + 1 <= Len(Continue(h)) /\ Len(Continue(h)) <= Len(plan)
           /\ \A i \in 1 .. Len(Continue(h)) : Continue(h)[i] = plan[i]
  <1>1. plan \in Seq(Reads) /\ Len(got) \in Nat
    BY PlanIsSeq
  <1>2. CASE cmd = "report" /\ got = <<>> /\ StartsFromHead(plan[3]) /\ ~WantDiff(h)
    <2>1. Continue(h) = SubSeq(plan, 1, 2)
      BY <1>2 DEF Continue
    <2>2. plan[1] = Walk(NoLimit) /\ plan[2] = Check /\ Len(plan) \in {2, 4}
      BY <1>2, ReadsAre, Tuples DEF PlanOK, Suits, Shortened
    <2>3. Len(SubSeq(plan, 1, 2)) = 2 /\ \A i \in 1 .. 2 : SubSeq(plan, 1, 2)[i] = plan[i]
      BY <1>1, <2>2
    <2>4. SubSeq(plan, 1, 2) = <<Walk(NoLimit), Check>>
      BY <1>1, <2>2, Beginnings
    <2> QED  BY <1>2, <2>1, <2>2, <2>3, <2>4 DEF Shortened
  <1>3. CASE cmd = "status" /\ h = <<>>
    <2>1. Continue(h) = SubSeq(plan, 1, Len(got) + 1)
      BY <1>3 DEF Continue
    <2>2. plan[1].kind = "peek" /\ Len(plan) \in {1, 2} /\ (Len(plan) = 2 => plan[2] = At(0))
      BY <1>3, KindsOfReads, ReadsAre, Tuples DEF PlanOK, Suits, Shortened
    <2>3. Len(got) = 0
      BY <1>1, <1>3, <2>2, KindsOfReads
    <2>4. plan[1] = Peek
      <3>1. plan[1] \in Reads
        BY <1>1, <2>2
      <3> QED  BY <2>2, <3>1 DEF Reads, Walk, Check, At, ByHash, ByPrefix, Peek
    <2>5. SubSeq(plan, 1, 1) = <<Peek>>
      BY <1>1, <2>2, <2>4, Beginnings
    <2>6. Continue(h) = <<Peek>> /\ Len(<<Peek>>) = 1 /\ <<Peek>>[1] = plan[1]
      BY <2>1, <2>3, <2>4, <2>5
    <2>7. Shortened(cmd, Continue(h))
      BY <1>3, <2>6 DEF Shortened
    <2>8. Len(got) + 1 = 1 /\ Len(Continue(h)) = 1 /\ Continue(h)[1] = plan[1]
      BY <2>3, <2>6
    <2> QED  BY <2>2, <2>7, <2>8
  <1>4. CASE Continue(h) = plan
    <2>1. Len(plan) \in Nat
      BY PlanIsSeq
    <2>2. Suits(cmd, plan) \/ Shortened(cmd, plan)
      BY DEF PlanOK
    <2> HIDE DEF PlanOK
    <2> QED  BY <1>1, <1>4, <2>1, <2>2
  <1> QED  BY <1>2, <1>3, <1>4 DEF Continue
-------------------------------------------------------------------------------
(* What a reader holds, for any number of committing processes. *)

\* The commits that have a file.
Saved == {c \in History \ {<<>>} : CommitObj(c) \in files}

Working == phase # "idle"
Kind == Current.kind

\* How far the command and the read it is at have come.
ProgressOK ==
    /\ Len(got) <= Len(plan)
    /\ Working => cmd # "none" /\ outcome = "none" /\ Len(got) < Len(plan)
    /\ outcome = "ok" => Len(got) = Len(plan)
    /\ outcome \notin {"none", "ok"} => Len(got) < Len(plan)
    /\ phase \in {"idle", "ref", "list"} => cur = <<>>
    /\ phase \in {"idle", "ref", "list", "climb", "peek"} => chain = <<>>
    /\ phase # "climb" => up = 0
    /\ phase # "load" => toRead = <<>>
    /\ phase # "list" => listed = {}
    /\ up \in Nat
    /\ phase = "list"  => Kind = "prefix"
    /\ phase = "climb" => /\ Kind \in {"at", "hash", "prefix"}
                          /\ Kind = "at" => up <= Current.up
                          /\ Kind # "at" => up = 0
    /\ phase = "peek"  => Kind = "peek"
    /\ phase = "chain" => Kind \in {"walk", "check"}
    /\ phase = "load"  => Kind # "walk" /\ (Kind # "check" => chain = <<cur>>)

\* Whatever a command has reached or has still to read exists.
FilesOK ==
    /\ cur \in Saved \cup {<<>>} /\ chain \in Seq(Saved) /\ got \in Seq(Seq(Saved))
    /\ toRead \in Seq(files) /\ listed \subseteq Saved

PrefixOK ==
    /\ phase = "list" => /\ Known(Current.prefix) \subseteq listed
                         /\ listed \subseteq Matching
    /\ (phase \in {"climb", "load"} /\ Kind = "prefix") =>
           Short(cur) = Current.prefix /\ Known(Current.prefix) \subseteq {cur}
    /\ PrefixIsFaithful

ReaderInv == ReaderTypeOK /\ PlanOK /\ ProgressOK /\ FilesOK /\ PrefixOK

LEMMA ReaderInit0 == RInit => ReaderInv
  <1> SUFFICES ASSUME RInit PROVE ReaderInv
    OBVIOUS
  <1> USE DEF RInit, ReaderInit
  <1>1. ReaderTypeOK
    BY DEF ReaderTypeOK, Init, History
  <1>2. PlanOK
    BY DEF PlanOK
  <1>3. ProgressOK
    BY DEF ProgressOK, Working
  <1>4. FilesOK
    BY DEF FilesOK
  <1>5. PrefixOK
    BY DEF PrefixOK, PrefixIsFaithful
  <1> QED  BY <1>1, <1>2, <1>3, <1>4, <1>5 DEF ReaderInv

LEMMA SequencesGrow ==
    /\ \A S, T : S \subseteq T => Seq(S) \subseteq Seq(T)
    /\ \A S, T : S \subseteq T => Seq(Seq(S)) \subseteq Seq(Seq(T))
  <1>1. \A S, T : S \subseteq T => Seq(S) \subseteq Seq(T)
    BY SeqMonotonic
  <1> QED  BY <1>1

\* A prefix is only read on its own.
LEMMA PrefixAlone ==
    ASSUME PlanOK, NEW i \in DOMAIN plan, plan[i].kind = "prefix"
    PROVE  Len(plan) = 1 /\ i = 1
  <1>1. i \in 1 .. Len(plan) /\ Len(plan) \in Nat
    BY PlanIsSeq
  <1>2. cmd # "none"
    BY <1>1 DEF PlanOK
  <1>3. cmd \in {"log", "status", "export", "verify", "diff", "report"}
    BY <1>2, ReaderAssumptions DEF PlanOK
  <1>4. CASE Shortened(cmd, plan)
    BY <1>1, <1>4, KindsOfReads DEF Shortened
  <1>5. CASE Suits(cmd, plan)
    <2>1. \A r : IsOldSide(r) => r.kind \in {"at", "hash"}
      BY KindsOfReads DEF IsOldSide
    <2>2. cmd \notin {"log", "export"} => \A j \in 1 .. Len(plan) : plan[j].kind # "prefix"
      BY <1>3, <1>5, <2>1, KindsOfReads DEF Suits
    <2>3. cmd # "log"
      BY <1>1, <1>5 DEF Suits
    <2> QED  BY <1>1, <1>5, <2>2, <2>3 DEF Suits
  <1> QED  BY <1>2, <1>4, <1>5 DEF PlanOK

\* The listing of commits/ holds what is saved.
LEMMA SavedOnDisk ==
    ASSUME Ground
    PROVE  CommitsOnDisk = Saved /\ created \subseteq Saved /\ IsFiniteSet(Saved)
  <1> DEFINE X == {x \in files : x[1] = "commits"}
             f == [o \in X |-> o[2]]
  <1>1. ASSUME NEW o \in X PROVE o[2] \in Saved
    <2>1. o \in Objects /\ o[1] = "commits" /\ o[2] # <<>>
      BY DEF Ground, IInv, TypeOK, CommitsAreNot
    <2>2. o = CommitObj(o[2]) /\ o[2] \in History
      BY <2>1 DEF Objects, CommitObj
    <2> QED  BY <2>1, <2>2 DEF Saved
  <1>2. ASSUME NEW c \in Saved PROVE CommitObj(c) \in X /\ CommitObj(c)[2] = c
    BY DEF Saved, CommitObj
  <1>3. CommitsOnDisk = Saved
    BY <1>1, <1>2 DEF CommitsOnDisk
  <1>4. created \subseteq Saved
    <2> SUFFICES ASSUME NEW c \in created PROVE c \in Saved
      OBVIOUS
    <2>1. c \in History /\ CommitObj(c) \in files
      BY DEF Ground, CreatedExist
    <2>2. c # <<>>
      BY <2>1 DEF Ground, CommitsAreNot, CommitObj
    <2> QED  BY <2>1, <2>2 DEF Saved
  <1>5. IsFiniteSet(Saved)
    <2>1. IsFiniteSet(X)
      BY FS_Subset DEF Ground, FilesFinite
    <2>2. \A c \in Saved : \E o \in X : f[o] = c
      BY <1>2
    <2>3. f \in Surjection(X, Saved)
      BY <1>1, <2>2 DEF Surjection
    <2> HIDE DEF X, f
    <2> QED  BY <2>1, <2>3, FS_Surjection
  <1> QED  BY <1>3, <1>4, <1>5

\* What is saved leads on to what is saved.
LEMMA SavedLeadsOn ==
    ASSUME Ground, NEW c \in Saved
    PROVE  /\ CommitObj(c) \in files /\ TreeObj(TreeOf(c)) \in files
           /\ TreeAndTables(c) \in Seq(files)
           /\ ParentOf(c) \in Saved \cup {<<>>}
           /\ Len(c) \in Nat \ {0} /\ Len(ParentOf(c)) = Len(c) - 1
  <1>1. c \in Seq(Entry) /\ c # <<>> /\ CommitObj(c) \in files
    BY DEF Saved, History
  <1>2. \A o \in files : References(o) \subseteq files
    BY DEF Ground, IInv, WriteOrder
  <1>3. TreeObj(TreeOf(c)) \in files /\ (ParentOf(c) # <<>> => CommitObj(ParentOf(c)) \in files)
    BY <1>1, <1>2, ReferencesOf
  <1>4. {TableObj(t) : t \in TreeOf(c)} \subseteq files
    BY <1>2, <1>3, ReferencesOf
  <1>5. IsFiniteSet({TableObj(t) : t \in TreeOf(c)})
    BY <1>4, FS_Subset DEF Ground, FilesFinite
  <1>6. Tables(c) \in Seq(files)
    BY <1>4, <1>5, SetToSeqOf DEF Tables
  <1>7. <<TreeObj(TreeOf(c))>> \in Seq(files)
    BY <1>3, Tuples
  <1>8. TreeAndTables(c) \in Seq(files)
    BY <1>6, <1>7, ConcatProperties DEF TreeAndTables
  <1>9. ParentOf(c) \in Seq(Entry) /\ Len(c) \in Nat \ {0} /\ Len(ParentOf(c)) = Len(c) - 1
    <2>1. Len(c) \in Nat \ {0}
      BY <1>1, EmptySeq
    <2>2. Len(c) - 1 \in Int /\ \A i \in 1 .. Len(c) - 1 : c[i] \in Entry
      BY <1>1, <2>1
    <2> DEFINE n == Len(c) - 1
    <2>3. n \in Nat /\ \A i \in 1 .. n : c[i] \in Entry
      BY <2>1, <2>2
    <2> HIDE DEF n
    <2>4. SubSeq(c, 1, n) \in Seq(Entry) /\ Len(SubSeq(c, 1, n)) = n
      BY <2>3
    <2> QED  BY <2>1, <2>4 DEF ParentOf, n
  <1> QED  BY <1>1, <1>3, <1>8, <1>9 DEF Saved, History
-------------------------------------------------------------------------------
(* Commits go on beside the reader. *)

LEMMA FilesGrow ==
    ASSUME Ground, [Next]_vars
    PROVE  files \subseteq files' /\ created \subseteq created'
  <1>1. files \subseteq files'
    BY FilesStep DEF Ground
  <1>2. created \subseteq created'
    <2>1. CASE UNCHANGED vars
      BY <2>1 DEF vars
    <2>2. ASSUME NEW w \in Committers, Capture(w) \/ Fail(w) \/ Proceed(w)
          PROVE  created \subseteq created'
      BY <2>2 DEF Proceed, Capture, Fail, SkipExisting, FindMissing, OpenObject, WriteObject,
                  Stored, BuildTree, ReadHead, ParentUnreadable, Unchanged, ComposeCommit,
                  TruncateHead, WriteHead
    <2> QED  BY <2>1, <2>2 DEF Next
  <1> QED  BY <1>1, <1>2

LEMMA CommitBesideReader ==
    ASSUME Ground, ReaderInv, [Next]_vars, UNCHANGED reader
    PROVE  ReaderInv'
  <1>0. files \subseteq files' /\ created \subseteq created'
    BY FilesGrow
  <1> USE DEF reader
  <1>1. ReaderTypeOK'
    BY <1>0 DEF ReaderInv, ReaderTypeOK
  <1>2. PlanOK'
    <2>1. Reads \subseteq Reads'
      BY <1>0 DEF Reads
    <2>2. \A r : IsOldSide(r) => IsOldSide(r)'
      BY <1>0 DEF IsOldSide
    <2>3. \A p : p \in Seq(Reads) => p \in Seq(Reads')
      BY <2>1, SequencesGrow
    <2>4. Suits(cmd, plan) => Suits(cmd, plan)'
      BY <2>2, <2>3 DEF Suits
    <2>5. Shortened(cmd, plan) => Shortened(cmd, plan)'
      BY DEF Shortened
    <2> QED  BY <2>4, <2>5 DEF ReaderInv, PlanOK
  <1>3. ProgressOK'
    BY DEF ReaderInv, ProgressOK, Working, Kind, Current
  <1>4. FilesOK'
    <2>1. Saved \subseteq Saved'
      BY <1>0 DEF Saved
    <2> QED  BY <1>0, <2>1, SequencesGrow DEF ReaderInv, FilesOK
  <1>5. PrefixOK'
    <2>1. CommitsOnDisk \subseteq CommitsOnDisk'
      BY <1>0 DEF CommitsOnDisk
    <2>2. Matching \subseteq Matching'
      BY <2>1 DEF Matching, Current
    <2>3. PrefixIsFaithful
      BY DEF ReaderInv, PrefixOK
    <2>4. PrefixIsFaithful'
      <3> SUFFICES ASSUME NEW i \in DOMAIN plan, plan[i].kind = "prefix"
                   PROVE  /\ i \in DOMAIN got => /\ Short(got[i][1]) = plan[i].prefix
                                                 /\ Known(plan[i].prefix) \subseteq {got[i][1]}
                          /\ outcome = "noMatch" => Known(plan[i].prefix) = {}
                          /\ outcome = "ambiguous" =>
                               \E c, d \in CommitsOnDisk' :
                                  c # d /\ Short(c) = plan[i].prefix
                                        /\ Short(d) = plan[i].prefix
        BY DEF PrefixIsFaithful, Known
      <3> QED  BY <2>1, <2>3 DEF PrefixIsFaithful
    <2> QED  BY <2>2, <2>4 DEF ReaderInv, PrefixOK, Known, Kind, Current
  <1> QED  BY <1>1, <1>2, <1>3, <1>4, <1>5 DEF ReaderInv
-------------------------------------------------------------------------------
(* The reader's own steps leave the repository as it is. *)

LEMMA Held ==
    ASSUME UNCHANGED vars
    PROVE  /\ files' = files /\ created' = created /\ Saved' = Saved /\ Reads' = Reads
           /\ CommitsOnDisk' = CommitsOnDisk
           /\ \A c, p : Suits(c, p)' <=> Suits(c, p)
           /\ \A c, p : Shortened(c, p)' <=> Shortened(c, p)
  <1>1. files' = files /\ created' = created
    BY DEF vars
  <1>2. Saved' = Saved /\ CommitsOnDisk' = CommitsOnDisk
    BY <1>1 DEF Saved, CommitsOnDisk
  <1>3. Reads' = Reads
    BY <1>1 DEF Reads
  <1>4. \A r : IsOldSide(r)' <=> IsOldSide(r)
    BY <1>1 DEF IsOldSide
  <1>5. \A c, p : Suits(c, p)' <=> Suits(c, p)
    BY <1>3, <1>4 DEF Suits
  <1>6. \A c, p : Shortened(c, p)' <=> Shortened(c, p)
    BY DEF Shortened
  <1> QED  BY <1>1, <1>2, <1>3, <1>5, <1>6

\* A command ends early.
LEMMA FailsOK ==
    ASSUME Ground, ReaderInv, UNCHANGED vars, Working, NEW bad \in SUBSET Objects,
           NEW o \in {"noHead", "pastRoot", "noMatch", "ambiguous", "unreadable"},
           o = "unreadable" <=> bad # {}, Fails(o, bad),
           o = "noMatch" => Kind = "prefix" /\ Known(Current.prefix) = {},
           o = "ambiguous" =>
               /\ Kind = "prefix"
               /\ \E c, d \in CommitsOnDisk : c # d /\ Short(c) = Current.prefix
                                                    /\ Short(d) = Current.prefix
    PROVE  ReaderInv'
  <1>1. /\ plan' = plan /\ got' = got /\ cmd' = cmd /\ seen' = seen /\ cur' = <<>>
        /\ up' = 0 /\ chain' = <<>> /\ toRead' = <<>> /\ listed' = {}
        /\ phase' = "idle" /\ outcome' = o /\ blamed' = bad
    BY DEF Fails, End, Rewind
  <1>2. /\ ReaderTypeOK /\ PlanOK /\ ProgressOK /\ FilesOK /\ PrefixIsFaithful
        /\ Len(got) < Len(plan) /\ Len(got) \in Nat /\ cmd # "none"
    BY DEF ReaderInv, ProgressOK, PrefixOK, ReaderTypeOK
  <1>3. ReaderTypeOK'
    <2>1. seen' \subseteq created' /\ cur' \in History
      BY <1>1, <1>2, Held DEF ReaderTypeOK, History
    <2>2. /\ chain' \in Seq(History) /\ got' \in Seq(Seq(History)) /\ toRead' \in Seq(Objects)
      BY <1>1, <1>2 DEF ReaderTypeOK
    <2> QED  BY <1>1, <1>2, <2>1, <2>2 DEF ReaderTypeOK
  <1>4. PlanOK'
    BY <1>1, <1>2, Held DEF PlanOK
  <1>5. ProgressOK'
    BY <1>1, <1>2 DEF ProgressOK, Working
  <1>6. FilesOK'
    <2>1. chain' \in Seq(Saved) /\ toRead' \in Seq(files)
      BY <1>1
    <2> QED  BY <1>1, <1>2, <2>1, Held DEF FilesOK
  <1>7. PrefixOK'
    <2>1. ASSUME NEW i \in DOMAIN plan, plan[i].kind = "prefix" PROVE Current = plan[i]
      <3>1. Len(plan) = 1 /\ i = 1
        BY <1>2, <2>1, PrefixAlone
      <3>2. Len(got) = 0
        BY <1>2, <3>1
      <3> QED  BY <3>1, <3>2 DEF Current
    <2>2. PrefixIsFaithful'
      <3> SUFFICES ASSUME NEW i \in DOMAIN plan, plan[i].kind = "prefix"
                   PROVE  /\ i \in DOMAIN got => /\ Short(got[i][1]) = plan[i].prefix
                                                 /\ Known(plan[i].prefix) \subseteq {got[i][1]}
                          /\ o = "noMatch" => Known(plan[i].prefix) = {}
                          /\ o = "ambiguous" =>
                               \E c, d \in CommitsOnDisk' :
                                  c # d /\ Short(c) = plan[i].prefix
                                        /\ Short(d) = plan[i].prefix
        BY <1>1 DEF PrefixIsFaithful, Known
      <3>1. i \in DOMAIN got => /\ Short(got[i][1]) = plan[i].prefix
                                /\ Known(plan[i].prefix) \subseteq {got[i][1]}
        BY <1>2 DEF PrefixIsFaithful
      <3>2. Current = plan[i] /\ CommitsOnDisk' = CommitsOnDisk
        BY <2>1, Held
      <3> QED  BY <3>1, <3>2
    <2> QED  BY <1>1, <2>2 DEF PrefixOK
  <1> QED  BY <1>3, <1>4, <1>5, <1>6, <1>7 DEF ReaderInv

\* A read is done.
LEMMA ArriveOK ==
    ASSUME Ground, ReaderInv, UNCHANGED vars, Working, NEW h \in Seq(Saved), Arrive(h),
           h = <<>> => Kind \in {"walk", "peek", "check"},
           Kind = "prefix" => /\ Short(h[1]) = Current.prefix
                              /\ Known(Current.prefix) \subseteq {h[1]}
    PROVE  ReaderInv'
  <1> DEFINE p == Continue(h)
  <1>0. /\ plan \in Seq(Reads) /\ got \in Seq(Seq(Saved)) /\ got \in Seq(Seq(History))
        /\ Len(got) \in Nat /\ Len(plan) \in Nat /\ Len(got) < Len(plan)
        /\ cmd # "none" /\ outcome = "none" /\ cmd \in Commands /\ PlanOK
    BY PlanIsSeq DEF ReaderInv, ReaderTypeOK, FilesOK, ProgressOK, PlanOK
  <1>1. /\ Suits(cmd, p) \/ Shortened(cmd, p)
        /\ Len(got) + 1 <= Len(p) /\ Len(p) <= Len(plan)
        /\ \A i \in 1 .. Len(p) : p[i] = plan[i]
    BY <1>0, ContinueOK DEF Kind, Current
  <1>2. plan' = p /\ got' = Append(got, h) /\ cmd' = cmd /\ seen' = seen
        /\ cur' = <<>> /\ up' = 0 /\ chain' = <<>> /\ toRead' = <<>> /\ listed' = {}
        /\ \/ Len(got) + 1 = Len(p) /\ phase' = "idle" /\ outcome' = "ok" /\ blamed' = {}
           \/ Len(got) + 1 # Len(p) /\ phase' = "ref" /\ outcome' = outcome /\ blamed' = blamed
    BY DEF Arrive, End, Rewind
  <1> HIDE DEF p
  <1>3. /\ got' \in Seq(Seq(Saved)) /\ Len(got') = Len(got) + 1
        /\ got'[Len(got) + 1] = h
    BY <1>0, <1>2
  <1>4. got' \in Seq(Seq(History))
    BY <1>3, SequencesGrow DEF Saved
  <1>5. ReaderTypeOK'
    <2>1. seen' \subseteq created' /\ cur' \in History /\ ReaderTypeOK
      BY <1>2, Held DEF ReaderInv, ReaderTypeOK, History
    <2>2. chain' \in Seq(History) /\ toRead' \in Seq(Objects)
      BY <1>2
    <2> QED  BY <1>0, <1>2, <1>4, <2>1, <2>2 DEF ReaderTypeOK
  <1>6. PlanOK'
    <2>1. (Suits(cmd, plan) \/ Shortened(cmd, plan))'
      BY <1>1, <1>2, Held
    <2> QED  BY <1>0, <1>2, <2>1 DEF PlanOK
  <1>7. Len(plan') \in Nat /\ DOMAIN plan' = 1 .. Len(plan')
    <2>1. PlanOK' => (plan \in Seq(Reads) /\ Len(plan) \in Nat /\ DOMAIN plan = 1 .. Len(plan))'
      BY PlanIsSeq, PTL
    <2> QED  BY <1>6, <2>1
  <1>11. Len(p) \in Nat
    BY <1>2, <1>7
  <1>8. ProgressOK'
    <2>1. Len(got') <= Len(plan') /\ (Len(got) + 1 # Len(p) => Len(got') < Len(plan'))
      <3>1. Len(plan') = Len(p) /\ Len(got') = Len(got) + 1
        BY <1>2, <1>3
      <3>2. Len(got) + 1 <= Len(p)
        BY <1>1
      <3> QED  BY <1>0, <1>11, <3>1, <3>2
    <2>2. Len(got) + 1 = Len(p) => Len(got') = Len(plan')
      BY <1>2, <1>3
    <2> QED  BY <1>0, <1>2, <2>1, <2>2 DEF ProgressOK, Working
  <1>9. FilesOK'
    BY <1>2, <1>3, Held DEF FilesOK
  <1>10. PrefixOK'
    <2>1. ASSUME NEW i \in DOMAIN plan', plan'[i].kind = "prefix"
          PROVE  /\ got'[i] = h /\ plan'[i] = Current /\ Kind = "prefix"
      <3>1. plan'[i] = plan[i] /\ i \in DOMAIN plan
        <4>1. i \in 1 .. Len(p) /\ plan'[i] = p[i]
          BY <1>2, <1>7, <2>1
        <4>2. i \in 1 .. Len(plan) /\ DOMAIN plan = 1 .. Len(plan)
          <5>1. Len(p) <= Len(plan) /\ Len(plan) \in Nat /\ DOMAIN plan = 1 .. Len(plan)
            BY <1>0, <1>1, PlanIsSeq
          <5> QED  BY <1>11, <4>1, <5>1
        <4> QED  BY <1>1, <4>1, <4>2
      <3>2. Len(plan) = 1 /\ i = 1
        BY <1>0, <2>1, <3>1, PrefixAlone
      <3>3. Len(got) = 0
        BY <1>0, <3>2
      <3> QED  BY <1>3, <2>1, <3>1, <3>2, <3>3 DEF Current, Kind
    <2>2. PrefixIsFaithful'
      <3> SUFFICES ASSUME NEW i \in DOMAIN plan', plan'[i].kind = "prefix"
                   PROVE  /\ Short(got'[i][1]) = plan'[i].prefix
                          /\ Known(plan'[i].prefix) \subseteq {got'[i][1]}
                          /\ outcome' # "noMatch" /\ outcome' # "ambiguous"
        BY <1>2 DEF PrefixIsFaithful, Known
      <3> QED  BY <1>0, <1>2, <2>1
    <2> QED  BY <1>2, <2>2 DEF PrefixOK
  <1> QED  BY <1>5, <1>6, <1>8, <1>9, <1>10 DEF ReaderInv
\* The reader moves on within a read.
Placed ==
    /\ phase \in {"list", "climb", "peek", "chain", "load"} /\ up \in Nat
    /\ IF phase = "list" THEN cur = <<>> ELSE cur \in Saved
    /\ chain \in Seq(Saved) /\ (phase \in {"list", "climb", "peek"} => chain = <<>>)
    /\ toRead \in Seq(files) /\ (phase # "load" => toRead = <<>>)
    /\ phase # "climb" => up = 0
    /\ listed \subseteq Saved /\ (phase # "list" => listed = {})
    /\ phase = "list"  => /\ Kind = "prefix" /\ Known(Current.prefix) \subseteq listed
                          /\ listed \subseteq Matching
    /\ phase = "climb" => /\ Kind \in {"at", "hash", "prefix"}
                          /\ Kind = "at" => up <= Current.up
                          /\ Kind # "at" => up = 0
    /\ phase = "peek"  => Kind = "peek"
    /\ phase = "chain" => Kind \in {"walk", "check"}
    /\ phase = "load"  => Kind # "walk" /\ (Kind # "check" => chain = <<cur>>)
    /\ (phase \in {"climb", "load"} /\ Kind = "prefix") =>
           Short(cur) = Current.prefix /\ Known(Current.prefix) \subseteq {cur}

LEMMA MovesOK ==
    ASSUME Ground, ReaderInv, UNCHANGED vars, Working, Placed',
           UNCHANGED <<cmd, plan, got, outcome, blamed, seen>>
    PROVE  ReaderInv'
  <1>1. /\ ReaderTypeOK /\ PlanOK /\ ProgressOK /\ FilesOK /\ PrefixIsFaithful
        /\ files \subseteq Objects /\ Saved \subseteq History
    BY DEF ReaderInv, PrefixOK, Ground, IInv, TypeOK, Saved
  <1>2. /\ cur' \in Saved \cup {<<>>} /\ chain' \in Seq(Saved) /\ toRead' \in Seq(files)
        /\ listed' \subseteq Saved
    BY Held DEF Placed
  <1>3. ReaderTypeOK'
    <2>1. /\ chain' \in Seq(History) /\ toRead' \in Seq(Objects) /\ cur' \in History
          /\ listed' \subseteq History /\ seen' \subseteq created'
      <3>1. chain' \in Seq(History) /\ toRead' \in Seq(Objects)
        BY <1>1, <1>2, SequencesGrow
      <3>2. cur' \in History /\ listed' \subseteq History
        <4>1. <<>> \in History
          BY DEF History
        <4> QED  BY <1>1, <1>2, <4>1
      <3>3. seen' \subseteq created'
        BY <1>1, Held DEF ReaderTypeOK
      <3> QED  BY <3>1, <3>2, <3>3
    <2>2. /\ phase' \in {"list", "climb", "peek", "chain", "load"}
          /\ phase' \in {"climb", "peek", "chain", "load"} => cur' # <<>>
      BY DEF Placed, Saved
    <2> QED  BY <1>1, <2>1, <2>2 DEF ReaderTypeOK
  <1>4. PlanOK'
    BY <1>1, Held DEF PlanOK, ProgressOK
  <1>5. ProgressOK'
    <2>1. Len(got) < Len(plan) /\ cmd # "none" /\ outcome = "none"
      BY <1>1 DEF ProgressOK
    <2>2. Len(got) <= Len(plan)
      BY <1>1 DEF ProgressOK
    <2> QED  BY <2>1, <2>2 DEF Placed, ProgressOK, Working
  <1>6. FilesOK'
    BY <1>1, <1>2, Held DEF FilesOK
  <1>7. PrefixOK'
    <2>1. PrefixIsFaithful'
      <3> SUFFICES ASSUME NEW i \in DOMAIN plan, plan[i].kind = "prefix"
                   PROVE  /\ i \in DOMAIN got => /\ Short(got[i][1]) = plan[i].prefix
                                                 /\ Known(plan[i].prefix) \subseteq {got[i][1]}
                          /\ outcome = "noMatch" => Known(plan[i].prefix) = {}
                          /\ outcome = "ambiguous" =>
                               \E c, d \in CommitsOnDisk' :
                                  c # d /\ Short(c) = plan[i].prefix
                                        /\ Short(d) = plan[i].prefix
        BY DEF PrefixIsFaithful, Known
      <3> QED  BY <1>1, Held DEF PrefixIsFaithful
    <2> QED  BY <2>1 DEF PrefixOK, Placed
  <1> QED  BY <1>3, <1>4, <1>5, <1>6, <1>7 DEF ReaderInv

\* Where a read under way stands.
LEMMA StandsAt ==
    ASSUME Ground, ReaderInv, Working
    PROVE  /\ plan \in Seq(Reads) /\ Current \in Reads /\ outcome = "none"
           /\ Len(got) \in Nat /\ Len(got) < Len(plan)
           /\ cur \in Saved \cup {<<>>} /\ chain \in Seq(Saved) /\ toRead \in Seq(files)
           /\ phase \in {"climb", "peek", "chain", "load"} => cur \in Saved
           /\ Kind \in {"walk", "peek", "check", "at", "hash", "prefix"}
           /\ Kind = "at" => Current.up \in {0, 1}
  <1>1. /\ plan \in Seq(Reads) /\ Len(plan) \in Nat /\ Len(got) \in Nat /\ Len(got) < Len(plan)
    BY PlanIsSeq DEF ReaderInv, ReaderTypeOK, ProgressOK
  <1>2. Current \in Reads
    BY <1>1 DEF Current
  <1>3. /\ Kind \in {"walk", "peek", "check", "at", "hash", "prefix"}
        /\ Kind = "at" => Current.up \in {0, 1}
    BY <1>2, KindsOfReads DEF Kind
  <1>4. /\ cur \in Saved \cup {<<>>} /\ chain \in Seq(Saved) /\ toRead \in Seq(files)
        /\ phase \in {"climb", "peek", "chain", "load"} => cur # <<>>
        /\ outcome = "none"
    BY DEF ReaderInv, FilesOK, ReaderTypeOK, ProgressOK
  <1> QED  BY <1>1, <1>2, <1>3, <1>4

\* A read and what it has matched stay what they are.
LEMMA SameRead ==
    ASSUME UNCHANGED vars, plan' = plan, got' = got, seen' = seen
    PROVE  /\ Current' = Current /\ Kind' = Kind /\ Matching' = Matching
           /\ \A p : Known(p)' = Known(p)
  BY Held DEF Current, Kind, Matching, Known
-------------------------------------------------------------------------------
(* Each of the reader's actions preserves ReaderInv. *)

LEMMA BeginStep ==
    ASSUME Ground, ReaderInv, UNCHANGED vars, Begin
    PROVE  ReaderInv'
  <1>1. PICK c \in Commands : cmd' = c /\ plan' \in PlansOf(c)
    BY DEF Begin
  <1>2. Suits(c, plan') /\ c \in {"log", "status", "export", "verify", "diff", "report"}
    BY <1>1, PlansSuit, ReaderAssumptions
  <1>3. /\ ReaderTypeOK /\ ProgressOK /\ FilesOK
        /\ cmd = "none" /\ plan = <<>> /\ got = <<>> /\ phase = "idle" /\ outcome = "none"
        /\ cur = <<>> /\ chain = <<>> /\ up = 0 /\ toRead = <<>> /\ listed = {}
        /\ created \subseteq History
    BY DEF Begin, ReaderInv, PlanOK, ProgressOK, Ground, CreatedExist
  <1>4. /\ phase' = "ref" /\ seen' = created /\ cur' = cur /\ up' = up /\ chain' = chain
        /\ toRead' = toRead /\ listed' = listed /\ got' = got /\ outcome' = outcome
        /\ blamed' = blamed
    BY DEF Begin
  <1>5. ReaderTypeOK'
    BY <1>1, <1>3, <1>4, Held DEF ReaderTypeOK
  <1>6. PlanOK'
    BY <1>1, <1>2, <1>4, Held DEF PlanOK
  <1>7. ProgressOK'
    <2>1. Len(got') = 0 /\ Len(plan') > 0
      BY <1>2, <1>3, <1>4 DEF Suits
    <2> QED  BY <1>1, <1>2, <1>3, <1>4, <2>1 DEF ProgressOK, Working
  <1>8. FilesOK'
    BY <1>3, <1>4, Held DEF FilesOK
  <1>9. PrefixOK'
    BY <1>3, <1>4 DEF PrefixOK, PrefixIsFaithful
  <1> QED  BY <1>5, <1>6, <1>7, <1>8, <1>9 DEF ReaderInv

LEMMA FindHeadStep ==
    ASSUME Ground, ReaderInv, UNCHANGED vars, FindHead
    PROVE  ReaderInv'
  <1>1. Working
    BY DEF FindHead, Working
  <1>2. head \in Saved
    BY DEF FindHead, Ground, IInv, TypeOK, WriteOrder, Saved
  <1>3. /\ Kind \in {"at", "peek", "walk", "check"} /\ (Kind = "at" => Current.up \in Nat)
        /\ phase' = Phase(Kind) /\ up' = IF Kind = "at" THEN Current.up ELSE 0
    BY <1>1, StandsAt DEF FindHead, StartsFromHead, Kind
  <1>4. /\ Kind = "at"   => phase' = "climb"
        /\ Kind = "peek" => phase' = "peek"
        /\ Kind \in {"walk", "check"} => phase' = "chain"
    BY <1>3 DEF Phase
  <1>5. cur' = head /\ chain' = <<>> /\ toRead' = <<>> /\ listed' = {}
    BY DEF FindHead, ReaderInv, ProgressOK
  <1>6. UNCHANGED <<cmd, plan, got, outcome, blamed, seen>>
    BY DEF FindHead
  <1>7. Placed'
    BY <1>2, <1>3, <1>4, <1>5, <1>6, Held, SameRead DEF Placed
  <1> QED  BY <1>1, <1>6, <1>7, MovesOK

LEMMA FindNoCommitsStep ==
    ASSUME Ground, ReaderInv, UNCHANGED vars, FindNoCommits
    PROVE  ReaderInv'
  <1>1. Working /\ Kind \in {"walk", "peek", "check"} /\ Arrive(<<>>)
    BY DEF FindNoCommits, Working, Kind
  <1>2. <<>> \in Seq(Saved)
    OBVIOUS
  <1> QED  BY <1>1, <1>2, ArriveOK

LEMMA FindNoHeadStep ==
    ASSUME Ground, ReaderInv, UNCHANGED vars, FindNoHead
    PROVE  ReaderInv'
  <1>1. Working /\ Fails("noHead", {})
    BY DEF FindNoHead, Working
  <1> QED  BY <1>1, FailsOK

LEMMA TakeHashStep ==
    ASSUME Ground, ReaderInv, UNCHANGED vars, TakeHash
    PROVE  ReaderInv'
  <1>1. Working /\ Kind = "hash"
    BY DEF TakeHash, Working, Kind
  <1>2. Current.commit \in Saved
    BY <1>1, StandsAt, KindsOfReads, SavedOnDisk DEF Kind
  <1>3. /\ cur' = Current.commit /\ phase' = "climb" /\ chain' = <<>> /\ toRead' = <<>>
        /\ listed' = {} /\ up' = 0
    BY DEF TakeHash, ReaderInv, ProgressOK
  <1>4. UNCHANGED <<cmd, plan, got, outcome, blamed, seen>>
    BY DEF TakeHash
  <1>5. Placed'
    BY <1>1, <1>2, <1>3, <1>4, Held, SameRead DEF Placed
  <1> QED  BY <1>1, <1>4, <1>5, MovesOK

\* A listing holds at least the commits that exist as it begins.
LEMMA BeginListingStep ==
    ASSUME Ground, ReaderInv, UNCHANGED vars, BeginListing
    PROVE  ReaderInv'
  <1>1. Working /\ Kind = "prefix"
    BY DEF BeginListing, Working, Kind
  <1>3. Matching \subseteq Saved
    BY SavedOnDisk DEF Matching
  <1>5. Known(Current.prefix) \subseteq Matching
    BY SavedOnDisk DEF Known, Matching, ReaderInv, ReaderTypeOK
  <1>6. /\ cur' = <<>> /\ phase' = "list" /\ chain' = <<>> /\ toRead' = <<>>
        /\ listed' = Matching /\ up' = 0
    BY DEF BeginListing, ReaderInv, ProgressOK
  <1>7. UNCHANGED <<cmd, plan, got, outcome, blamed, seen>>
    BY DEF BeginListing
  <1>8. Placed'
    BY <1>1, <1>3, <1>5, <1>6, <1>7, Held, SameRead DEF Placed
  <1> QED  BY <1>1, <1>7, <1>8, MovesOK

\* What a listing returns: commits with the prefix, among them every known one.
LEMMA ListingsHold ==
    ASSUME Ground, ReaderInv, phase = "list", NEW m \in Listings
    PROVE  /\ Known(Current.prefix) \subseteq m /\ m \subseteq CommitsOnDisk
           /\ IsFiniteSet(m) /\ \A c \in m : c \in Saved /\ Short(c) = Current.prefix
  <1>1. Known(Current.prefix) \subseteq m /\ m \subseteq Matching
    BY DEF Listings, ReaderInv, PrefixOK
  <1>2. Matching \subseteq CommitsOnDisk /\ \A c \in Matching : Short(c) = Current.prefix
    BY DEF Matching
  <1>3. IsFiniteSet(m)
    BY <1>1, <1>2, SavedOnDisk, FS_Subset
  <1> QED  BY <1>1, <1>2, <1>3, SavedOnDisk
LEMMA MatchOneStep ==
    ASSUME Ground, ReaderInv, UNCHANGED vars, MatchOne
    PROVE  ReaderInv'
  <1>1. Working /\ phase = "list" /\ Kind = "prefix"
    BY DEF MatchOne, Working, ReaderInv, ProgressOK
  <1>2. PICK m \in Listings : Cardinality(m) = 1 /\ cur' \in m
    BY DEF MatchOne, OnlyOneIn
  <1>3. \E c : m = {c}
    BY <1>1, <1>2, ListingsHold, FS_Singleton
  <1>4. cur' \in Saved /\ Short(cur') = Current.prefix /\ Known(Current.prefix) \subseteq {cur'}
    BY <1>1, <1>2, <1>3, ListingsHold
  <1>5. /\ phase' = "climb" /\ chain' = <<>> /\ toRead' = <<>> /\ listed' = {} /\ up' = 0
    BY DEF MatchOne, ReaderInv, ProgressOK
  <1>6. UNCHANGED <<cmd, plan, got, outcome, blamed, seen>>
    BY DEF MatchOne
  <1>7. Placed'
    BY <1>1, <1>4, <1>5, <1>6, Held, SameRead DEF Placed
  <1> QED  BY <1>1, <1>6, <1>7, MovesOK

LEMMA MatchNoneStep ==
    ASSUME Ground, ReaderInv, UNCHANGED vars, MatchNone
    PROVE  ReaderInv'
  <1>1. Working /\ phase = "list" /\ Kind = "prefix" /\ Fails("noMatch", {})
    BY DEF MatchNone, Working, ReaderInv, ProgressOK
  <1>2. Known(Current.prefix) = {}
    BY <1>1, ListingsHold DEF MatchNone
  <1> QED  BY <1>1, <1>2, FailsOK

LEMMA MatchSeveralStep ==
    ASSUME Ground, ReaderInv, UNCHANGED vars, MatchSeveral
    PROVE  ReaderInv'
  <1>1. Working /\ phase = "list" /\ Kind = "prefix" /\ Fails("ambiguous", {})
    BY DEF MatchSeveral, Working, ReaderInv, ProgressOK
  <1>2. PICK m \in Listings : Cardinality(m) > 1
    BY DEF MatchSeveral
  <1>3. m # {} /\ \A c : m # {c}
    BY <1>2, FS_EmptySet, FS_Singleton
  <1>4. \E c, d \in m : c # d
    BY <1>3
  <1>5. \E c, d \in CommitsOnDisk : c # d /\ Short(c) = Current.prefix
                                         /\ Short(d) = Current.prefix
    BY <1>1, <1>4, ListingsHold
  <1> QED  BY <1>1, <1>5, FailsOK

LEMMA ClimbStep ==
    ASSUME Ground, ReaderInv, UNCHANGED vars, Climb
    PROVE  ReaderInv'
  <1>1. Working /\ phase = "climb" /\ up > 0 /\ up \in Nat
    BY DEF Climb, Working, ReaderInv, ProgressOK
  <1>2. Kind = "at" /\ up <= Current.up /\ Current.up \in Nat
    BY <1>1, StandsAt DEF ReaderInv, ProgressOK
  <1>3. cur \in Saved /\ ParentOf(cur) # <<>>
    BY <1>1, StandsAt DEF Climb, HasParent
  <1>4. ParentOf(cur) \in Saved
    BY <1>3, SavedLeadsOn
  <1>5. /\ phase' = "climb" /\ cur' = ParentOf(cur) /\ chain' = <<>> /\ toRead' = <<>>
        /\ listed' = {} /\ up' = up - 1
    BY <1>1 DEF Climb, ReaderInv, ProgressOK
  <1>6. UNCHANGED <<cmd, plan, got, outcome, blamed, seen>>
    BY DEF Climb
  <1>7. up' \in Nat /\ up' <= Current.up
    BY <1>1, <1>2, <1>5
  <1>8. Placed'
    BY <1>2, <1>4, <1>5, <1>6, <1>7, Held, SameRead DEF Placed
  <1> QED  BY <1>1, <1>6, <1>8, MovesOK

LEMMA ClimbPastRootStep ==
    ASSUME Ground, ReaderInv, UNCHANGED vars, ClimbPastRoot
    PROVE  ReaderInv'
  <1>1. Working /\ Fails("pastRoot", {})
    BY DEF ClimbPastRoot, Working
  <1> QED  BY <1>1, FailsOK

LEMMA ResolveStep ==
    ASSUME Ground, ReaderInv, UNCHANGED vars, Resolve
    PROVE  ReaderInv'
  <1>1. Working /\ phase \in {"peek", "climb"} /\ up = 0
    BY DEF Resolve, Working, ReaderInv, ProgressOK
  <1>2. /\ Kind \in {"at", "hash", "prefix", "peek"} /\ (phase = "peek" => Kind = "peek")
        /\ (phase = "climb" => Kind # "peek")
    BY <1>1 DEF ReaderInv, ProgressOK
  <1>3. cur \in Saved
    BY <1>1, StandsAt
  <1>4. /\ phase' = "load" /\ cur' = cur /\ chain' = <<cur>> /\ up' = 0 /\ listed' = {}
    BY <1>1 DEF Resolve, ReaderInv, ProgressOK
  <1>5. UNCHANGED <<cmd, plan, got, outcome, blamed, seen>>
    BY DEF Resolve
  <1>6. toRead' \in Seq(files)
    <2>1. <<CommitObj(cur)>> \in Seq(files) /\ <<TreeObj(TreeOf(cur))>> \in Seq(files)
          /\ TreeAndTables(cur) \in Seq(files)
      BY <1>3, SavedLeadsOn, Tuples
    <2>2. toRead' = <<CommitObj(cur)>> \o (IF phase = "peek" THEN <<TreeObj(TreeOf(cur))>>
                                                          ELSE TreeAndTables(cur))
      BY DEF Resolve
    <2> QED  BY <2>1, <2>2, ConcatProperties
  <1>7. <<cur>> \in Seq(Saved)
    BY <1>3, Tuples
  <1>8. (Kind = "prefix") => Short(cur) = Current.prefix /\ Known(Current.prefix) \subseteq {cur}
    BY <1>1, <1>2 DEF ReaderInv, PrefixOK
  <1>9. Placed'
    BY <1>2, <1>3, <1>4, <1>5, <1>6, <1>7, <1>8, Held, SameRead DEF Placed
  <1> QED  BY <1>1, <1>5, <1>9, MovesOK

LEMMA FollowParentStep ==
    ASSUME Ground, ReaderInv, UNCHANGED vars, FollowParent
    PROVE  ReaderInv'
  <1>1. Working /\ phase = "chain" /\ Kind \in {"walk", "check"}
    BY DEF FollowParent, Working, ReaderInv, ProgressOK
  <1>2. cur \in Saved /\ ParentOf(cur) # <<>> /\ chain \in Seq(Saved)
    BY <1>1, StandsAt DEF FollowParent, AtRoot, HasParent
  <1>3. ParentOf(cur) \in Saved /\ Append(chain, cur) \in Seq(Saved)
    BY <1>2, SavedLeadsOn, AppendProperties
  <1>4. /\ phase' = "chain" /\ cur' = ParentOf(cur) /\ chain' = Append(chain, cur)
        /\ toRead' = <<>> /\ listed' = {} /\ up' = 0
    BY <1>1 DEF FollowParent, ReaderInv, ProgressOK
  <1>5. UNCHANGED <<cmd, plan, got, outcome, blamed, seen>>
    BY DEF FollowParent
  <1>6. Placed'
    BY <1>1, <1>3, <1>4, <1>5, Held, SameRead DEF Placed
  <1> QED  BY <1>1, <1>5, <1>6, MovesOK

LEMMA ReachRootStep ==
    ASSUME Ground, ReaderInv, UNCHANGED vars, ReachRoot
    PROVE  ReaderInv'
  <1> DEFINE h == Append(chain, cur)
  <1>1. Working /\ phase = "chain" /\ Kind \in {"walk", "check"}
    BY DEF ReachRoot, Working, ReaderInv, ProgressOK
  <1>2. cur \in Saved /\ chain \in Seq(Saved)
    BY <1>1, StandsAt
  <1>3. h \in Seq(Saved)
    BY <1>2, AppendProperties
  <1>4. CASE Kind = "walk"
    <2>1. Current.limit \in Nat
      <3>1. Current.limit \in {1, NoLimit}
        BY <1>1, <1>4, StandsAt, KindsOfReads DEF Kind
      <3> QED  BY <3>1, ReaderAssumptions DEF NoLimit
    <2>2. Newest(h, Current.limit) \in Seq(Saved)
      <3> DEFINE n == IF Len(h) > Current.limit THEN Current.limit ELSE Len(h)
      <3>1. n \in 0 .. Len(h)
        BY <1>3, <2>1
      <3> HIDE DEF h, n
      <3>2. SubSeq(h, 1, n) \in Seq(Saved)
        BY <1>3, <3>1
      <3> QED  BY <3>2 DEF Newest, n
    <2>3. Arrive(Newest(h, Current.limit))
      BY <1>4 DEF ReachRoot, Kind
    <2> QED  BY <1>1, <1>4, <2>2, <2>3, ArriveOK
  <1>5. CASE Kind = "check"
    <2>1. /\ phase' = "load" /\ cur' = cur /\ chain' = h /\ up' = 0 /\ listed' = {}
          /\ toRead' = FlattenSeq([i \in 1 .. Len(h) |-> TreeAndTables(h[i])])
      BY <1>1, <1>5 DEF ReachRoot, Kind, ReaderInv, ProgressOK
    <2>2. UNCHANGED <<cmd, plan, got, outcome, blamed, seen>>
      BY <1>5 DEF ReachRoot, Kind
    <2> HIDE DEF h
    <2>3. \A i \in 1 .. Len(h) : TreeAndTables(h[i]) \in Seq(files)
      BY <1>3, SavedLeadsOn
    <2>4. [i \in 1 .. Len(h) |-> TreeAndTables(h[i])] \in Seq(Seq(files))
      BY <1>3, <2>3
    <2>5. toRead' \in Seq(files)
      BY <2>1, <2>4, FlattenSeqOf
    <2>6. Placed'
      BY <1>2, <1>3, <1>5, <2>1, <2>2, <2>5, Held, SameRead DEF Placed
    <2> QED  BY <1>1, <2>2, <2>6, MovesOK
  <1> QED  BY <1>1, <1>4, <1>5

LEMMA CommitUnreadableStep ==
    ASSUME Ground, ReaderInv, UNCHANGED vars, CommitUnreadable
    PROVE  ReaderInv'
  <1>1. Working /\ phase \in {"chain", "climb"} /\ Fails("unreadable", {CommitObj(cur)})
    BY DEF CommitUnreadable, Working
  <1>2. CommitObj(cur) \in Objects
    BY <1>1, StandsAt DEF Saved, Ground, IInv, TypeOK
  <1> QED  BY <1>1, <1>2, FailsOK

LEMMA ReadObjectStep ==
    ASSUME Ground, ReaderInv, UNCHANGED vars, ReadObject
    PROVE  ReaderInv'
  <1>1. Working /\ phase = "load" /\ toRead # <<>> /\ toRead \in Seq(files)
    BY DEF ReadObject, Working, ReaderInv, FilesOK
  <1>2. /\ phase' = "load" /\ cur' = cur /\ chain' = chain /\ toRead' = Tail(toRead)
        /\ listed' = {} /\ up' = 0
    BY <1>1 DEF ReadObject, NextToRead, ReaderInv, ProgressOK
  <1>3. UNCHANGED <<cmd, plan, got, outcome, blamed, seen>>
    BY DEF ReadObject
  <1>4. toRead' \in Seq(files)
    BY <1>1, <1>2, HeadTailProperties
  <1>5. cur \in Saved /\ chain \in Seq(Saved)
    BY <1>1, StandsAt
  <1>6. /\ Kind # "walk" /\ (Kind # "check" => chain = <<cur>>)
        /\ Kind = "prefix" =>
             Short(cur) = Current.prefix /\ Known(Current.prefix) \subseteq {cur}
    BY <1>1 DEF ReaderInv, ProgressOK, PrefixOK
  <1>7. Placed'
    BY <1>2, <1>3, <1>4, <1>5, <1>6, Held, SameRead DEF Placed
  <1> QED  BY <1>1, <1>3, <1>7, MovesOK

LEMMA ObjectUnreadableStep ==
    ASSUME Ground, ReaderInv, UNCHANGED vars, ObjectUnreadable
    PROVE  ReaderInv'
  <1>1. Working /\ toRead # <<>> /\ toRead \in Seq(files) /\ Fails("unreadable", {Head(toRead)})
    BY DEF ObjectUnreadable, Working, ReaderInv, FilesOK
  <1>2. Head(toRead) \in Objects
    BY <1>1, HeadTailProperties DEF Ground, IInv, TypeOK
  <1> QED  BY <1>1, <1>2, FailsOK

LEMMA LoadedStep ==
    ASSUME Ground, ReaderInv, UNCHANGED vars, Loaded
    PROVE  ReaderInv'
  <1>1. Working /\ phase = "load" /\ Arrive(chain) /\ chain \in Seq(Saved) /\ cur \in Saved
    BY StandsAt DEF Loaded, Working
  <1>2. /\ Kind # "walk" /\ (Kind # "check" => chain = <<cur>>)
        /\ Kind = "prefix" =>
             Short(cur) = Current.prefix /\ Known(Current.prefix) \subseteq {cur}
    BY <1>1 DEF ReaderInv, ProgressOK, PrefixOK
  <1>3. chain = <<cur>> => chain # <<>> /\ chain[1] = cur
    OBVIOUS
  <1> QED  BY <1>1, <1>2, <1>3, ArriveOK

LEMMA ReaderInvInvariant == RSpec => [](Ground /\ ReaderInv)
  <1>1. RInit => ReaderInv
    BY ReaderInit0
  <1>2. Ground /\ ReaderInv /\ [RNext]_<<vars, reader>> => ReaderInv'
    <2> SUFFICES ASSUME Ground, ReaderInv, [RNext]_<<vars, reader>> PROVE ReaderInv'
      OBVIOUS
    <2>1. CASE (Next /\ UNCHANGED reader) \/ UNCHANGED <<vars, reader>>
      BY <2>1, CommitBesideReader
    <2>2. CASE Begin /\ UNCHANGED vars
      BY <2>2, BeginStep
    <2>3. CASE Read /\ UNCHANGED vars
      BY <2>3, FindHeadStep, FindNoCommitsStep, FindNoHeadStep, TakeHashStep,
         BeginListingStep, MatchOneStep, MatchNoneStep, MatchSeveralStep, ClimbStep,
         ClimbPastRootStep, ResolveStep, FollowParentStep, ReachRootStep,
         CommitUnreadableStep, ReadObjectStep, ObjectUnreadableStep, LoadedStep DEF Read
    <2> QED  BY <2>1, <2>2, <2>3 DEF RNext
  <1> QED  BY <1>1, <1>2, GroundInvariant, PTL DEF RSpec

\* Every variable of the reader keeps its type; a read past its reference has a
\* commit, and a command that could not read a file names the file.
THEOREM ReaderTypes == RSpec => []ReaderTypeOK
  BY ReaderInvInvariant, PTL DEF ReaderInv

\* With any number of processes committing beside it, wherever they are cut off,
\* a prefix resolves only to the one commit the user can know under it, is
\* ambiguous only when two commits share it and unknown only when none has it.
THEOREM PrefixesAreFaithful == RSpec => []PrefixIsFaithful
  BY ReaderInvInvariant, PTL DEF ReaderInv, PrefixOK
-------------------------------------------------------------------------------
(* Beside one committing process a reader fails only on files that were left *)
(* cut short, wherever the calls were cut off.                               *)

\* Files nobody is writing.
Settled == {o \in files : \A w \in Committers : ~(io[w] = "write" /\ obj[w] = o)}

\* The file being written is one that no file refers to, and not that of a commit
\* somebody has been told of.
WritesNew(w) ==
    io[w] = "write" => /\ \A o \in files : obj[w] \notin References(o)
                       /\ \A c \in created : obj[w] # CommitObj(c)

HeadCreated == head \in created \cup {<<>>}

Alone(w) == OpensNewFile(w) /\ WritesNew(w) /\ HeadCreated

\* What one process does beside the reader.
LEMMA AloneStep ==
    ASSUME NEW w, Committers = {w}, Ground, Alone(w), [Next]_vars
    PROVE  Alone(w)' /\ Settled \subseteq Settled' /\ Abandoned \subseteq Abandoned'
  <1>0. /\ TypeOK /\ LocalOK(w) /\ OpensNewFile(w) /\ WritesNew(w) /\ HeadCreated
        /\ \A o \in files : References(o) \subseteq files
    BY DEF Ground, IInv, Alone, WriteOrder
  <1>1. CASE UNCHANGED vars
    BY <1>0, <1>1 DEF vars, Alone, OpensNewFile, WritesNew, HeadCreated, Settled, Abandoned
  <1>2. CASE Capture(w) \/ BuildTree(w) \/ ReadHead(w) \/ ComposeCommit(w) \/ TruncateHead(w)
    <2>1. /\ files' = files /\ intact' = intact /\ io' = io /\ obj' = obj /\ created' = created
          /\ head' = head \/ head' = <<>>
      BY <1>2 DEF Capture, BuildTree, ReadHead, ComposeCommit, TruncateHead, store, local
    <2> QED
      BY <1>0, <2>1 DEF Alone, OpensNewFile, WritesNew, HeadCreated, Settled, Abandoned
  <1>3. CASE ParentUnreadable(w) \/ Unchanged(w) \/ WriteHead(w) \/ Fail(w)
    <2>1. /\ files' = files /\ intact' = intact /\ io'[w] = "check"
          /\ \/ head' = head /\ created' = created
             \/ head' = draft[w] /\ created' = created \cup {draft[w]}
      BY <1>0, <1>3 DEF ParentUnreadable, Unchanged, WriteHead, Fail, Return, TypeOK, store
    <2> QED
      BY <1>0, <2>1 DEF Alone, OpensNewFile, WritesNew, HeadCreated, Settled, Abandoned
  <1>4. CASE FindMissing(w)
    <2>1. /\ files' = files /\ intact' = intact /\ io[w] = "check" /\ io'[w] = "open"
          /\ obj'[w] \notin files /\ head' = head /\ created' = created
      BY <1>0, <1>4 DEF FindMissing, Exists, TypeOK, store
    <2> QED
      BY <1>0, <2>1 DEF Alone, OpensNewFile, WritesNew, HeadCreated, Settled, Abandoned
  <1>5. CASE OpenObject(w)
    <2>1. /\ files' = files \cup {obj[w]} /\ intact' = intact \ {obj[w]} /\ obj' = obj
          /\ obj[w] \notin files /\ obj[w] \in Pending(w) /\ io[w] = "open" /\ io'[w] = "write"
          /\ head' = head /\ created' = created
      BY <1>0, <1>5 DEF OpenObject, Opened, TypeOK, local, OpensNewFile, LocalOK, WriteOK
    <2>2. References(obj[w]) \subseteq files
      BY <1>0, <2>1, PendingReferences
    <2>3. \A c \in created : CommitObj(c) \in files
      BY DEF Ground, CreatedExist
    <2>4. WritesNew(w)'
      BY <1>0, <2>1, <2>2, <2>3 DEF WritesNew
    <2>5. Settled \subseteq Settled' /\ Abandoned \subseteq Abandoned'
      BY <2>1 DEF Settled, Abandoned
    <2> QED  BY <1>0, <2>1, <2>4, <2>5 DEF Alone, OpensNewFile, HeadCreated
  <1>6. CASE SkipExisting(w) \/ WriteObject(w)
    <2>1. /\ files' = files /\ io'[w] = "check" /\ head' = head /\ created' = created
          /\ \/ intact' = intact /\ io[w] = "check"
             \/ intact' = intact \cup {obj[w]} /\ io[w] = "write"
      BY <1>0, <1>6 DEF SkipExisting, WriteObject, Stored, Written, TypeOK, store
    <2> QED
      BY <1>0, <2>1 DEF Alone, OpensNewFile, WritesNew, HeadCreated, Settled, Abandoned
  <1> QED  BY <1>1, <1>2, <1>3, <1>4, <1>5, <1>6 DEF Next, Proceed

\* What a saved commit leads to is settled, and so is a commit that was reported.
LEMMA LeadsToSettled ==
    ASSUME NEW w, Committers = {w}, Ground, Alone(w), NEW c \in Saved
    PROVE  /\ TreeObj(TreeOf(c)) \in Settled /\ TreeAndTables(c) \in Seq(Settled)
           /\ ParentOf(c) # <<>> => CommitObj(ParentOf(c)) \in Settled
           /\ c \in created => CommitObj(c) \in Settled
  <1>1. CommitObj(c) \in files
    BY DEF Saved
  <1>2. \A o \in files : References(o) \subseteq Settled
    BY DEF Ground, IInv, WriteOrder, Alone, WritesNew, Settled
  <1>3. TreeObj(TreeOf(c)) \in Settled /\ (ParentOf(c) # <<>> => CommitObj(ParentOf(c)) \in Settled)
    BY <1>1, <1>2, ReferencesOf
  <1>4. {TableObj(t) : t \in TreeOf(c)} \subseteq Settled
    BY <1>2, <1>3, ReferencesOf DEF Settled
  <1>5. IsFiniteSet({TableObj(t) : t \in TreeOf(c)})
    BY <1>4, FS_Subset DEF Ground, FilesFinite, Settled
  <1>6. Tables(c) \in Seq(Settled)
    BY <1>4, <1>5, SetToSeqOf DEF Tables
  <1>7. <<TreeObj(TreeOf(c))>> \in Seq(Settled)
    BY <1>3, Tuples
  <1>8. TreeAndTables(c) \in Seq(Settled)
    BY <1>6, <1>7, ConcatProperties DEF TreeAndTables
  <1>9. c \in created => CommitObj(c) \in Settled
    BY <1>1 DEF Alone, WritesNew, Settled
  <1> QED  BY <1>3, <1>8, <1>9

\* Files the reader counts on: the settled ones, and that of the commit a prefix
\* has led it to.
Trusted ==
    Settled \cup {o \in files : Kind = "prefix" /\ o = CommitObj(cur) /\ cur \notin seen}

SettledOK ==
    /\ Working /\ cur # <<>> => CommitObj(cur) \in Trusted
    /\ toRead \in Seq(Trusted)
    /\ FailsOnlyOnAbandoned

LEMMA SettledBesideReader ==
    ASSUME NEW w, Committers = {w}, Ground, Alone(w), SettledOK, [Next]_vars, UNCHANGED reader
    PROVE  SettledOK'
  <1>1. Settled \subseteq Settled' /\ Abandoned \subseteq Abandoned' /\ files \subseteq files'
    BY AloneStep, FilesGrow
  <1>2. Trusted \subseteq Trusted'
    BY <1>1 DEF Trusted, reader, Kind, Current
  <1>3. toRead' \in Seq(Trusted')
    BY <1>2, SequencesGrow DEF SettledOK, reader
  <1>4. FailsOnlyOnAbandoned'
    BY <1>1 DEF SettledOK, FailsOnlyOnAbandoned, reader, Current
  <1> QED  BY <1>2, <1>3, <1>4 DEF SettledOK, reader, Working
LEMMA SettledHeld ==
    ASSUME UNCHANGED vars
    PROVE  Settled' = Settled /\ Abandoned' = Abandoned
  BY DEF vars, Settled, Abandoned

\* An ended read, or one that goes on with settled files.
LEMMA GoesOn ==
    ASSUME Ground, ReaderInv, UNCHANGED vars, Working, blamed' \in {blamed, {}},
           cur' # <<>> => CommitObj(cur') \in Trusted', toRead' \in Seq(Settled)
    PROVE  SettledOK'
  <1>1. blamed = {}
    BY DEF ReaderInv, ReaderTypeOK, ProgressOK
  <1>2. toRead' \in Seq(Trusted')
    <2>1. Settled \subseteq Trusted'
      BY SettledHeld DEF Trusted
    <2> QED  BY <2>1, SequencesGrow
  <1> QED  BY <1>1, <1>2 DEF SettledOK, FailsOnlyOnAbandoned

LEMMA EndsSettled ==
    ASSUME Ground, ReaderInv, UNCHANGED vars, Working, SettledOK, NEW o, NEW bad,
           Fails(o, bad), bad \subseteq Trusted \ intact
    PROVE  SettledOK'
  <1>1. /\ cur' = <<>> /\ toRead' = <<>> /\ blamed' = bad /\ plan' = plan /\ got' = got
        /\ seen' = seen
    BY DEF Fails, End, Rewind
  <1>2. Current' = Current /\ Kind' = Kind
    BY <1>1, SameRead
  <1>3. FailsOnlyOnAbandoned'
    <2> SUFFICES ASSUME NEW x \in bad
                 PROVE  \/ x \in Abandoned
                        \/ Current.kind = "prefix" /\ x[1] = "commits" /\ x[2] \notin seen
      BY <1>1, <1>2, SettledHeld DEF FailsOnlyOnAbandoned
    <2>1. CASE x \in Settled
      BY <2>1 DEF Settled, Abandoned
    <2>2. CASE Kind = "prefix" /\ x = CommitObj(cur) /\ cur \notin seen
      BY <2>2 DEF Kind, CommitObj
    <2> QED  BY <2>1, <2>2 DEF Trusted
  <1>4. toRead' \in Seq(Trusted')
    BY <1>1
  <1> QED  BY <1>1, <1>3, <1>4 DEF SettledOK

LEMMA SettledStep ==
    ASSUME NEW w, Committers = {w}, Ground, ReaderInv, Alone(w), SettledOK, UNCHANGED vars,
           Begin \/ Read
    PROVE  SettledOK'
  <1>0. /\ ReaderTypeOK /\ ProgressOK /\ toRead \in Seq(Trusted)
        /\ (Working /\ cur # <<>> => CommitObj(cur) \in Trusted)
    BY DEF ReaderInv, SettledOK
  <1>e. <<>> \in Seq(Settled)
    OBVIOUS
  <1>1. CASE Begin
    <2>1. /\ cur' = <<>> /\ toRead' = <<>> /\ blamed' = {}
      BY <1>0, <1>1 DEF Begin, ReaderInv, PlanOK, ProgressOK, ReaderTypeOK
    <2>2. toRead' \in Seq(Trusted')
      BY <2>1
    <2> QED  BY <2>1, <2>2 DEF SettledOK, FailsOnlyOnAbandoned
  <1>2. ASSUME Working, NEW h, Arrive(h) PROVE SettledOK'
    <2>1. cur' = <<>> /\ toRead' = <<>> /\ blamed' \in {blamed, {}}
      BY <1>2 DEF Arrive, End, Rewind
    <2> QED  BY <1>2, <1>e, <2>1, GoesOn
  <1>3. CASE FindHead
    <2>1. Working /\ cur' = head /\ toRead' = <<>> /\ blamed' = blamed /\ head # <<>>
      BY <1>0, <1>3 DEF FindHead, Working, ProgressOK
    <2>2. head \in created /\ head \in Saved
      BY <2>1, SavedOnDisk DEF Alone, HeadCreated
    <2>3. CommitObj(head) \in Settled
      BY <2>2, LeadsToSettled
    <2>4. Settled \subseteq Trusted'
      BY SettledHeld DEF Trusted
    <2> QED  BY <1>e, <2>1, <2>3, <2>4, GoesOn
  <1>4. CASE FindNoCommits
    BY <1>2, <1>4 DEF FindNoCommits, Working
  <1>5. CASE FindNoHead \/ MatchNone \/ MatchSeveral \/ ClimbPastRoot
    BY <1>5, EndsSettled DEF FindNoHead, MatchNone, MatchSeveral, ClimbPastRoot, Working
  <1>6. CASE TakeHash
    <2>1. Working /\ Kind = "hash" /\ cur' = Current.commit /\ toRead' = <<>> /\ blamed' = blamed
      BY <1>0, <1>6 DEF TakeHash, Working, ProgressOK, Kind
    <2>2. Current.commit \in created /\ Current.commit \in Saved
      BY <2>1, StandsAt, KindsOfReads, SavedOnDisk DEF Kind
    <2>3. CommitObj(Current.commit) \in Settled
      BY <2>2, LeadsToSettled
    <2>4. Settled \subseteq Trusted'
      BY SettledHeld DEF Trusted
    <2> QED  BY <1>e, <2>1, <2>3, <2>4, GoesOn
  <1>7. CASE BeginListing
    <2>1. Working /\ cur' = <<>> /\ toRead' = <<>> /\ blamed' = blamed
      BY <1>0, <1>7 DEF BeginListing, Working, ProgressOK
    <2> QED  BY <1>e, <2>1, GoesOn
  <1>8. CASE MatchOne
    <2>1. Working /\ phase = "list" /\ toRead' = <<>> /\ blamed' = blamed /\ seen' = seen
          /\ plan' = plan /\ got' = got /\ Kind = "prefix"
      BY <1>0, <1>8 DEF MatchOne, Working, ProgressOK
    <2>2. cur' \in Saved
      BY <1>8, <2>1, ListingsHold DEF MatchOne
    <2>3. cur' \in seen => CommitObj(cur') \in Settled
      BY <1>0, <2>2, LeadsToSettled DEF ReaderTypeOK
    <2>4. CommitObj(cur') \in Trusted'
      BY <2>1, <2>2, <2>3, SettledHeld, SameRead, Held DEF Trusted, Saved
    <2> QED  BY <1>e, <2>1, <2>4, GoesOn
  <1>9. CASE Climb \/ FollowParent
    <2>1. /\ Working /\ phase \in {"climb", "chain"} /\ cur' = ParentOf(cur) /\ toRead' = <<>>
          /\ blamed' = blamed /\ ParentOf(cur) # <<>>
      BY <1>0, <1>9 DEF Climb, FollowParent, Working, ProgressOK, HasParent, AtRoot
    <2>2. CommitObj(ParentOf(cur)) \in Settled
      BY <2>1, StandsAt, LeadsToSettled
    <2>3. Settled \subseteq Trusted'
      BY SettledHeld DEF Trusted
    <2> QED  BY <1>e, <2>1, <2>2, <2>3, GoesOn
  <1>10. CASE Resolve
    <2>1. /\ Working /\ phase \in {"climb", "peek"} /\ cur' = cur /\ blamed' = blamed
          /\ plan' = plan /\ got' = got /\ seen' = seen
      BY <1>10 DEF Resolve, Working
    <2>2. cur \in Saved /\ cur # <<>>
      BY <2>1, StandsAt DEF Saved
    <2>3. CommitObj(cur) \in Trusted
      BY <1>0, <2>1, <2>2
    <2>4. Trusted' = Trusted
      BY <2>1, SettledHeld, SameRead, Held DEF Trusted
    <2>5. <<TreeObj(TreeOf(cur))>> \in Seq(Trusted) /\ TreeAndTables(cur) \in Seq(Trusted)
      <3>1. Settled \subseteq Trusted
        BY DEF Trusted
      <3>2. TreeObj(TreeOf(cur)) \in Trusted /\ TreeAndTables(cur) \in Seq(Settled)
        BY <2>2, <3>1, LeadsToSettled
      <3> QED  BY <3>1, <3>2, SequencesGrow, Tuples
    <2>6. toRead' \in Seq(Trusted)
      <3>1. <<CommitObj(cur)>> \in Seq(Trusted)
        BY <2>3, Tuples
      <3>2. toRead' = <<CommitObj(cur)>> \o (IF phase = "peek" THEN <<TreeObj(TreeOf(cur))>>
                                                            ELSE TreeAndTables(cur))
        BY <1>10 DEF Resolve
      <3> QED  BY <2>5, <3>1, <3>2, ConcatProperties
    <2>7. blamed = {}
      BY <1>0, <2>1 DEF ReaderTypeOK, ProgressOK
    <2> QED  BY <2>1, <2>3, <2>4, <2>6, <2>7 DEF SettledOK, FailsOnlyOnAbandoned
  <1>11. CASE ReachRoot
    <2>1. Working /\ phase = "chain"
      BY <1>11 DEF ReachRoot, Working
    <2>2. CASE Current.kind = "walk"
      BY <1>2, <1>11, <2>1, <2>2 DEF ReachRoot
    <2>3. CASE Current.kind # "walk"
      <3> DEFINE h == Append(chain, cur)
      <3>1. /\ cur' = cur /\ blamed' = blamed /\ plan' = plan /\ got' = got /\ seen' = seen
            /\ toRead' = FlattenSeq([i \in 1 .. Len(h) |-> TreeAndTables(h[i])])
        BY <1>11, <2>3 DEF ReachRoot
      <3>2. h \in Seq(Saved) /\ cur # <<>>
        BY <2>1, StandsAt, AppendProperties DEF Saved
      <3> HIDE DEF h
      <3>3. \A i \in 1 .. Len(h) : TreeAndTables(h[i]) \in Seq(Settled)
        BY <3>2, LeadsToSettled
      <3>4. [i \in 1 .. Len(h) |-> TreeAndTables(h[i])] \in Seq(Seq(Settled))
        BY <3>2, <3>3
      <3>5. toRead' \in Seq(Settled)
        BY <3>1, <3>4, FlattenSeqOf
      <3>6. CommitObj(cur') \in Trusted'
        BY <1>0, <2>1, <3>1, <3>2, SettledHeld, SameRead, Held DEF Trusted
      <3> QED  BY <2>1, <3>1, <3>5, <3>6, GoesOn
    <2> QED  BY <2>2, <2>3
  <1>12. CASE CommitUnreadable
    <2>1. /\ Working /\ phase \in {"chain", "climb"} /\ CommitObj(cur) \notin intact
          /\ Fails("unreadable", {CommitObj(cur)})
      BY <1>12 DEF CommitUnreadable, Working
    <2>2. CommitObj(cur) \in Trusted
      BY <1>0, <2>1, StandsAt DEF Saved
    <2> QED  BY <2>1, <2>2, EndsSettled
  <1>13. CASE ReadObject
    <2>1. /\ Working /\ toRead # <<>> /\ cur' = cur /\ blamed' = blamed /\ toRead' = Tail(toRead)
          /\ plan' = plan /\ got' = got /\ seen' = seen
      BY <1>13 DEF ReadObject, Working, NextToRead
    <2>2. Trusted' = Trusted
      BY <2>1, SettledHeld, SameRead, Held DEF Trusted
    <2>3. toRead' \in Seq(Trusted)
      BY <1>0, <2>1, HeadTailProperties
    <2>4. blamed = {}
      BY <1>0, <2>1 DEF ReaderTypeOK, ProgressOK
    <2> QED  BY <1>0, <2>1, <2>2, <2>3, <2>4 DEF SettledOK, FailsOnlyOnAbandoned
  <1>14. CASE ObjectUnreadable
    <2>1. /\ Working /\ toRead # <<>> /\ Head(toRead) \notin intact
          /\ Fails("unreadable", {Head(toRead)})
      BY <1>14 DEF ObjectUnreadable, Working
    <2>2. Head(toRead) \in Trusted
      BY <1>0, <2>1, HeadTailProperties
    <2> QED  BY <2>1, <2>2, EndsSettled
  <1>15. CASE Loaded
    BY <1>2, <1>15 DEF Loaded, Working
  <1> QED  BY <1>1, <1>3, <1>4, <1>5, <1>6, <1>7, <1>8, <1>9, <1>10, <1>11, <1>12, <1>13,
              <1>14, <1>15 DEF Read

\* Beside one committing process, cut off anywhere, a reader meets a file cut short
\* only if an earlier call was cut off from writing it: files appear before whatever
\* refers to them, and the one being written is not yet referred to.
THEOREM ReadersFailOnAbandoned ==
    ASSUME NEW w, Committers = {w}
    PROVE  RSpec => []FailsOnlyOnAbandoned
  <1>1. RInit => Alone(w) /\ SettledOK
    <2> SUFFICES ASSUME RInit PROVE Alone(w) /\ SettledOK
      OBVIOUS
    <2>1. Alone(w)
      BY DEF RInit, Init, Alone, OpensNewFile, WritesNew, HeadCreated
    <2>2. toRead = <<>> /\ blamed = {} /\ ~Working
      BY DEF RInit, ReaderInit, Working
    <2>3. toRead \in Seq(Trusted)
      BY <2>2
    <2> QED  BY <2>1, <2>2, <2>3 DEF SettledOK, FailsOnlyOnAbandoned
  <1>2. Ground /\ ReaderInv /\ Alone(w) /\ SettledOK /\ [RNext]_<<vars, reader>>
          => Alone(w)' /\ SettledOK'
    <2> SUFFICES ASSUME Ground, ReaderInv, Alone(w), SettledOK, [RNext]_<<vars, reader>>
                 PROVE  Alone(w)' /\ SettledOK'
      OBVIOUS
    <2>1. CASE (Next /\ UNCHANGED reader) \/ UNCHANGED <<vars, reader>>
      BY <2>1, AloneStep, SettledBesideReader
    <2>2. CASE (Begin \/ Read) /\ UNCHANGED vars
      BY <2>2, AloneStep, SettledStep
    <2> QED  BY <2>1, <2>2 DEF RNext
  <1>3. SettledOK => FailsOnlyOnAbandoned
    BY DEF SettledOK
  <1> QED  BY <1>1, <1>2, <1>3, ReaderInvInvariant, PTL DEF RSpec
-------------------------------------------------------------------------------
(* Beside one committing process whose calls are not cut off while HEAD is   *)
(* rewritten, what a command has read stays in the history of the tip, and   *)
(* each read that starts from HEAD finds it at or after what was read before.*)

\* The ancestor of d that is i parents away.
Back(d, i) == SubSeq(d, 1, Len(d) - i)

\* h lists d and its ancestors, as far as it goes.
Lined(h, d) == Len(h) <= Len(d) /\ \A i \in 1 .. Len(h) : h[i] = Back(d, i - 1)

\* What the reads before the n-th have returned, and what HEAD~1 stands for, is in
\* the history of d.
Behind(n, d) ==
    \A k \in 1 .. n - 1 :
        /\ \A j \in 1 .. Len(got[k]) : Precedes(got[k][j], d)
        /\ plan[k].kind = "at" => Len(got[k][1]) + plan[k].up <= Len(d)

\* The commands whose reads are compared with each other or with the past.
Follows == cmd \in {"log", "diff", "report"}

\* The finished reads.
GotOK ==
    /\ Behind(Len(got) + 1, Tip)
    /\ \A i \in 1 .. Len(got) :
         /\ plan[i].kind \in {"at", "hash"} => Len(got[i]) = 1
         /\ (plan[i].kind \in {"walk", "check"} /\ got[i] # <<>>) =>
              /\ Lined(got[i], got[i][1])
              /\ \/ Len(got[i]) = Len(got[i][1])
                 \/ plan[i].kind = "walk" /\ Len(got[i]) = plan[i].limit
              /\ \A c \in seen : Precedes(c, got[i][1])
         /\ ((plan[i] = At(0) \/ plan[i].kind \in {"walk", "check"}) /\ got[i] # <<>>) =>
              Behind(i, got[i][1])

\* The read under way: d is the HEAD a walk has found.
WalksFrom(d) ==
    /\ Lined(chain, d) /\ Precedes(d, Tip) /\ Behind(Len(got) + 1, d)
    /\ \A c \in seen : Precedes(c, d)
    /\ phase = "chain" => Len(chain) < Len(d) /\ cur = Back(d, Len(chain))
    /\ phase = "load"  => Len(chain) = Len(d)

NowOK ==
    (Working /\ cur # <<>>) =>
        /\ Precedes(cur, Tip)
        /\ Kind \in {"walk", "check"} => \E d \in CommitsOnDisk : WalksFrom(d)
        /\ Kind = "at" => Len(cur) + Current.up <= Len(Tip) + up
        /\ Current = At(0) => Behind(Len(got) + 1, cur)

\* The report's diff: HEAD~1 is only asked for where there is one.
ReportOK ==
    cmd = "report" =>
        /\ (Len(plan) = 4 /\ plan[3].kind = "at" /\ Len(got) >= 1) => Len(got[1]) >= 2
        /\ (phase = "climb" /\ Kind = "at") => up < Len(cur)
        /\ outcome # "pastRoot"

FollowOK == Follows => GotOK /\ NowOK /\ ReportOK

LEMMA BackFacts ==
    ASSUME NEW S, NEW d \in Seq(S), NEW i \in 0 .. Len(d)
    PROVE  /\ Back(d, i) \in Seq(S) /\ Len(Back(d, i)) = Len(d) - i
           /\ Precedes(Back(d, i), d) /\ Back(d, 0) = d
           /\ i < Len(d) => ParentOf(Back(d, i)) = Back(d, i + 1)
  <1> DEFINE n == Len(d) - i
  <1>1. n \in 0 .. Len(d) /\ Len(d) \in Nat
    OBVIOUS
  <1> HIDE DEF n
  <1>2. SubSeq(d, 1, n) \in Seq(S) /\ Len(SubSeq(d, 1, n)) = n
        /\ \A j \in 1 .. n : SubSeq(d, 1, n)[j] = d[j]
    BY <1>1
  <1>3. SubSeq(d, 1, Len(d)) = d
    BY SubSeqFull
  <1>4. Back(d, i) = SubSeq(d, 1, n) /\ Back(d, 0) = d
    BY <1>1, <1>3 DEF Back, n
  <1>5. ASSUME i < Len(d) PROVE ParentOf(Back(d, i)) = Back(d, i + 1)
    <2>1. n \in 1 .. Len(d) /\ n - 1 \in 0 .. n /\ Len(d) - (i + 1) = n - 1
      BY <1>1, <1>5 DEF n
    <2>2. SubSeq(SubSeq(d, 1, n), 1, n - 1) = SubSeq(d, 1, n - 1)
      <3> DEFINE a == SubSeq(SubSeq(d, 1, n), 1, n - 1)
                 b == SubSeq(d, 1, n - 1)
      <3>1. a \in Seq(S) /\ Len(a) = n - 1 /\ \A j \in 1 .. n - 1 : a[j] = SubSeq(d, 1, n)[j]
        BY <1>2, <2>1
      <3>2. b \in Seq(S) /\ Len(b) = n - 1 /\ \A j \in 1 .. n - 1 : b[j] = d[j]
        BY <2>1
      <3> HIDE DEF a, b
      <3>3. Len(a) = Len(b) /\ \A j \in 1 .. Len(a) : a[j] = b[j]
        BY <1>2, <2>1, <3>1, <3>2
      <3>4. a = b
        BY <3>1, <3>2, <3>3, SeqEqual
      <3> QED  BY <3>4 DEF a, b
    <2> QED  BY <1>2, <1>4, <2>1, <2>2 DEF ParentOf, Back
  <1>6. Precedes(SubSeq(d, 1, n), d)
    BY <1>1, <1>2 DEF Precedes
  <1> QED  BY <1>2, <1>4, <1>5, <1>6 DEF n

LEMMA PrecedesTransitive ==
    ASSUME NEW S, NEW b \in Seq(S), NEW c \in Seq(S), NEW d \in Seq(S),
           Precedes(b, c), Precedes(c, d)
    PROVE  Precedes(b, d)
  <1>1. Len(b) \in Nat /\ Len(c) \in Nat /\ Len(d) \in Nat /\ Len(b) <= Len(c) /\ Len(c) <= Len(d)
    BY DEF Precedes
  <1>2. \A j \in 1 .. Len(c) : c[j] = d[j]
    BY <1>1 DEF Precedes
  <1>3. \A j \in 1 .. Len(b) : b[j] = c[j]
    BY <1>1 DEF Precedes
  <1>4. SubSeq(d, 1, Len(b)) \in Seq(S) /\ Len(SubSeq(d, 1, Len(b))) = Len(b)
        /\ \A j \in 1 .. Len(b) : SubSeq(d, 1, Len(b))[j] = d[j]
    BY <1>1
  <1>5. \A j \in 1 .. Len(b) : j \in 1 .. Len(c)
    BY <1>1
  <1>6. SubSeq(d, 1, Len(b)) = b
    BY <1>2, <1>3, <1>4, <1>5, SeqEqual
  <1> QED  BY <1>1, <1>6 DEF Precedes

\* An ancestor is so many parents away.
LEMMA PrecedesIsBack ==
    ASSUME NEW S, NEW c \in Seq(S), NEW d \in Seq(S), Precedes(c, d)
    PROVE  /\ Len(d) - Len(c) \in 0 .. Len(d) /\ c = Back(d, Len(d) - Len(c))
           /\ Len(c) \in Nat /\ Len(d) \in Nat /\ Len(c) <= Len(d)
  <1>1. Len(c) \in Nat /\ Len(d) \in Nat /\ Len(c) <= Len(d)
    BY DEF Precedes
  <1>2. Len(d) - (Len(d) - Len(c)) = Len(c)
    BY <1>1
  <1> QED  BY <1>1, <1>2 DEF Precedes, Back

LEMMA PrecedesIsAncestor ==
    ASSUME NEW S, NEW c \in Seq(S), NEW d \in Seq(S)
    PROVE  Precedes(c, d) <=> IsAncestor(c, d)
  <1>1. SubSeq(c, 1, Len(c)) = c
    BY SubSeqFull
  <1> QED  BY <1>1 DEF Precedes, IsAncestor, IsPrefix
-------------------------------------------------------------------------------
(* The tip while the reader looks on. *)

AtTip(w) == ParentIsHead(w) /\ CreatedInTip /\ (stage[w] = "refwrite" => head = <<>>)

LEMMA AtTipInvariant ==
    ASSUME NEW w, Committers = {w}, "refwrite" \notin FailurePoints
    PROVE  Spec => []AtTip(w)
  <1>1. Init => (stage[w] = "refwrite" => head = <<>>)
    BY DEF Init
  <1>2. IInv /\ (stage[w] = "refwrite" => head = <<>>) /\ [Next]_vars
          => (stage[w] = "refwrite" => head = <<>>)'
    <2> SUFFICES ASSUME IInv, stage[w] = "refwrite" => head = <<>>, [Next]_vars
                 PROVE  (stage[w] = "refwrite" => head = <<>>)'
      OBVIOUS
    <2>1. CASE UNCHANGED vars
      BY <2>1 DEF vars
    <2>2. CASE Capture(w) \/ BuildTree(w) \/ ReadHead(w) \/ ComposeCommit(w)
      BY <2>2 DEF Capture, BuildTree, ReadHead, ComposeCommit, GoTo, StageAfter, IInv, TypeOK
    <2>3. CASE TruncateHead(w)
      BY <2>3 DEF TruncateHead
    <2>4. CASE ParentUnreadable(w) \/ Unchanged(w) \/ WriteHead(w) \/ Fail(w)
      BY <2>4 DEF ParentUnreadable, Unchanged, WriteHead, Fail, Return, GoTo, IInv, TypeOK
    <2>5. CASE FindMissing(w) \/ OpenObject(w)
      BY <2>5 DEF FindMissing, OpenObject
    <2>6. CASE SkipExisting(w) \/ WriteObject(w)
      <3>1. PICK o \in Pending(w) : Stored(w, o)
        BY <2>6 DEF SkipExisting, WriteObject, IInv, LocalOK, WriteOK
      <3> QED  BY <3>1 DEF Stored, GoTo, StageAfter, Pending, IInv, TypeOK
    <2> QED  BY <2>1, <2>2, <2>3, <2>4, <2>5, <2>6 DEF Next, Proceed
  <1>3. (IInv /\ ParentIsHead(w) /\ CreatedInTip) /\ (stage[w] = "refwrite" => head = <<>>)
          => AtTip(w)
    BY DEF AtTip
  <1> QED  BY <1>1, <1>2, <1>3, TipInvariant, IInvInvariant, PTL DEF Spec

LEMMA TipFacts ==
    ASSUME NEW w, Committers = {w}, Ground, AtTip(w)
    PROVE  /\ Tip \in Seq(Entry) /\ Len(Tip) \in Nat
           /\ head # <<>> => head = Tip /\ head \in Saved
           /\ \A c \in created : Precedes(c, Tip)
  <1>1. Tip = IF stage[w] = "refwrite" THEN parent[w] ELSE head
    BY TipOfSingle
  <1>2. Tip \in Seq(Entry)
    BY <1>1 DEF Ground, IInv, TypeOK, History
  <1>3. head # <<>> => head = Tip /\ head \in Saved
    BY <1>1 DEF AtTip, Ground, IInv, TypeOK, WriteOrder, Saved
  <1> QED  BY <1>2, <1>3 DEF AtTip, CreatedInTip

\* The tip only moves on.
LEMMA TipGrows ==
    ASSUME NEW w, Committers = {w}, "refwrite" \notin FailurePoints, Ground, AtTip(w),
           [Next]_vars
    PROVE  /\ \A c \in Seq(Entry) : Precedes(c, Tip) => Precedes(c, Tip')
           /\ Len(Tip) <= Len(Tip') /\ Len(Tip') \in Nat /\ Len(Tip) \in Nat
  <1>1. Tip \in Seq(Entry) /\ Len(Tip) \in Nat
    BY TipFacts
  <1>2. CASE Tip' = Tip
    BY <1>1, <1>2
  <1>3. CASE stage[w] = "refwrite" /\ Tip = parent[w] /\ Tip' = draft[w]
    <2>1. PICK m \in Metas : Tip' = Append(Tip, [tree |-> snap[w], meta |-> m])
      BY <1>3, DraftExtendsTip DEF Ground
    <2>2. [tree |-> snap[w], meta |-> m] \in Entry
      BY <1>3, DraftExtendsTip DEF Ground, Entry
    <2>3. Len(Tip') = Len(Tip) + 1
      BY <1>1, <2>1, <2>2, AppendProperties
    <2> QED  BY <1>1, <2>1, <2>2, <2>3, AncestorOfAppend
  <1> QED  BY <1>2, <1>3, TipStep DEF AtTip, Ground
-------------------------------------------------------------------------------
(* FollowOK is preserved. *)

LEMMA GotElements ==
    ASSUME Ground, ReaderInv
    PROVE  /\ got \in Seq(Seq(Saved)) /\ Len(got) \in Nat /\ Saved \subseteq Seq(Entry)
           /\ plan \in Seq(Reads) /\ Len(plan) \in Nat /\ Len(got) <= Len(plan)
           /\ \A k \in 1 .. Len(got) :
                /\ got[k] \in Seq(Saved) /\ Len(got[k]) \in Nat
                /\ \A j \in 1 .. Len(got[k]) : got[k][j] \in Saved /\ got[k][j] \in Seq(Entry)
           /\ \A k \in 1 .. Len(got) : plan[k].kind = "at" => plan[k].up \in {0, 1}
  <1>1. got \in Seq(Seq(Saved)) /\ Len(got) \in Nat /\ Saved \subseteq Seq(Entry)
    BY DEF ReaderInv, FilesOK, Saved, History
  <1>2. plan \in Seq(Reads) /\ Len(plan) \in Nat /\ Len(got) <= Len(plan)
    BY PlanIsSeq DEF ReaderInv, ProgressOK
  <1>3. \A k \in 1 .. Len(got) : got[k] \in Seq(Saved)
    BY <1>1
  <1>4. \A k \in 1 .. Len(got) : Len(got[k]) \in Nat /\
            \A j \in 1 .. Len(got[k]) : got[k][j] \in Saved
    BY <1>3
  <1>5. ASSUME NEW k \in 1 .. Len(got) PROVE plan[k].kind = "at" => plan[k].up \in {0, 1}
    <2>1. plan[k] \in Reads
      BY <1>1, <1>2
    <2> QED  BY <2>1, KindsOfReads
  <1> QED  BY <1>1, <1>2, <1>3, <1>4, <1>5

\* The plans of the commands that are followed.
LEMMA FollowKinds ==
    ASSUME PlanOK, Follows
    PROVE  /\ cmd = "log"    => Len(plan) = 1 /\ plan[1].kind = "walk"
           /\ cmd = "diff"   => Len(plan) = 2 /\ IsOldSide(plan[1]) /\ plan[2] = At(0)
           /\ cmd = "report" => /\ Len(plan) \in {2, 4}
                                /\ plan[1] = Walk(NoLimit) /\ plan[2] = Check
                                /\ Len(plan) = 4 => IsOldSide(plan[3]) /\ plan[4] = At(0)
           /\ \A i \in 1 .. Len(plan) : plan[i].kind \in {"walk", "check", "at", "hash"}
  <1>1. cmd # "none" /\ (Suits(cmd, plan) \/ Shortened(cmd, plan))
    BY DEF PlanOK, Follows
  <1>2. \A r : IsOldSide(r) => r.kind \in {"at", "hash"}
    BY KindsOfReads DEF IsOldSide
  <1>3. CASE Shortened(cmd, plan)
    <2>1. cmd = "report" /\ plan = <<Walk(NoLimit), Check>>
      BY <1>3 DEF Shortened, Follows
    <2>2. Len(plan) = 2 /\ plan[1] = Walk(NoLimit) /\ plan[2] = Check
      BY <2>1, ReadsAre, Tuples
    <2> QED  BY <2>1, <2>2, KindsOfReads
  <1>4. CASE Suits(cmd, plan)
    BY <1>2, <1>4, KindsOfReads DEF Suits, Follows
  <1> QED  BY <1>1, <1>3, <1>4

\* What does not change while the reader stays within a read.
LEMMA SameGot ==
    ASSUME UNCHANGED vars, plan' = plan, got' = got, seen' = seen
    PROVE  /\ Tip' = Tip /\ (GotOK => GotOK')
           /\ \A n, d : Behind(n, d) => Behind(n, d)'
  <1>1. Tip' = Tip
    BY DEF vars, Tip
  <1>2. \A n, d : Behind(n, d) => Behind(n, d)'
    BY DEF Behind
  <1>3. Behind(Len(got) + 1, Tip) => Behind(Len(got) + 1, Tip)'
    BY <1>1 DEF Behind
  <1>4. GotOK => GotOK'
    <2> SUFFICES ASSUME GotOK PROVE GotOK'
      OBVIOUS
    <2>1. \A i : Behind(i, got[i][1]) => Behind(i, got[i][1])'
      BY DEF Behind
    <2> QED  BY <1>3, <2>1 DEF GotOK, Lined, At, Back
  <1> QED  BY <1>1, <1>2, <1>4

LEMMA BehindGrows ==
    ASSUME NEW w, Committers = {w}, "refwrite" \notin FailurePoints, Ground, AtTip(w),
           ReaderInv, GotOK, [Next]_vars, UNCHANGED reader
    PROVE  /\ Behind(Len(got) + 1, Tip) => Behind(Len(got) + 1, Tip)'
           /\ \A n, d : Behind(n, d) => Behind(n, d)'
  <1> USE DEF reader
  <1>1. \A n, d : Behind(n, d) => Behind(n, d)'
    BY DEF Behind
  <1>2. ASSUME Behind(Len(got) + 1, Tip) PROVE Behind(Len(got) + 1, Tip)'
    <2> SUFFICES ASSUME NEW k \in 1 .. Len(got)
                 PROVE  /\ \A j \in 1 .. Len(got[k]) : Precedes(got[k][j], Tip')
                        /\ plan[k].kind = "at" => Len(got[k][1]) + plan[k].up <= Len(Tip')
      BY GotElements DEF Behind
    <2>1. /\ \A j \in 1 .. Len(got[k]) : Precedes(got[k][j], Tip)
          /\ plan[k].kind = "at" => Len(got[k][1]) + plan[k].up <= Len(Tip)
      BY <1>2, GotElements DEF Behind
    <2>2. \A j \in 1 .. Len(got[k]) : Precedes(got[k][j], Tip')
      BY <2>1, GotElements, TipGrows
    <2>3. ASSUME plan[k].kind = "at" PROVE Len(got[k][1]) + plan[k].up <= Len(Tip')
      <3>1. Len(got[k]) = 1
        BY <2>3 DEF GotOK
      <3>2. got[k][1] \in Seq(Entry)
        BY <3>1, GotElements
      <3>3. Len(got[k][1]) \in Nat
        BY <3>2
      <3>4. plan[k].up \in Nat
        <4>1. plan[k].up \in {0, 1}
          BY <2>3, GotElements
        <4> QED  BY <4>1
      <3> QED  BY <2>1, <2>3, <3>3, <3>4, TipGrows
    <2> QED  BY <2>2, <2>3
  <1> QED  BY <1>1, <1>2

LEMMA FollowBesideReader ==
    ASSUME NEW w, Committers = {w}, "refwrite" \notin FailurePoints, Ground, AtTip(w),
           ReaderInv, FollowOK, [Next]_vars, UNCHANGED reader
    PROVE  FollowOK'
  <1> SUFFICES ASSUME Follows PROVE (GotOK /\ NowOK /\ ReportOK)'
    BY DEF FollowOK, Follows, reader
  <1>0. GotOK /\ NowOK /\ ReportOK
    BY DEF FollowOK
  <1> USE DEF reader
  <1>1. GotOK'
    <2>1. Behind(Len(got) + 1, Tip)'
      BY <1>0, BehindGrows DEF GotOK
    <2>2. \A i : Behind(i, got[i][1]) => Behind(i, got[i][1])'
      BY DEF Behind
    <2> QED  BY <1>0, <2>1, <2>2 DEF GotOK, Lined, At, Back
  <1>2. NowOK'
    <2> SUFFICES ASSUME Working, cur # <<>>
                 PROVE  /\ Precedes(cur, Tip')
                        /\ Kind \in {"walk", "check"} => (\E d \in CommitsOnDisk : WalksFrom(d))'
                        /\ Kind = "at" => Len(cur) + Current.up <= Len(Tip') + up
                        /\ Current = At(0) => Behind(Len(got) + 1, cur)'
      BY DEF NowOK, Working, Kind, Current, At
    <2>1. cur \in Saved /\ cur \in Seq(Entry) /\ Len(cur) \in Nat /\ up \in Nat
      BY StandsAt, GotElements DEF ReaderInv, ProgressOK
    <2>2. Precedes(cur, Tip')
      BY <1>0, <2>1, TipGrows DEF NowOK
    <2>3. ASSUME Kind = "at" PROVE Len(cur) + Current.up <= Len(Tip') + up
      <3>1. Current.up \in Nat /\ Len(cur) + Current.up <= Len(Tip) + up
        BY <1>0, <2>3, StandsAt DEF NowOK
      <3> QED  BY <2>1, <3>1, TipGrows
    <2>4. ASSUME Current = At(0) PROVE Behind(Len(got) + 1, cur)'
      BY <1>0, <2>4, BehindGrows DEF NowOK, Behind
    <2>5. ASSUME Kind \in {"walk", "check"} PROVE (\E d \in CommitsOnDisk : WalksFrom(d))'
      <3>1. PICK d \in CommitsOnDisk : WalksFrom(d)
        BY <1>0, <2>5 DEF NowOK
      <3>2. d \in Seq(Entry) /\ d \in CommitsOnDisk'
        BY <3>1, SavedOnDisk, GotElements, FilesGrow DEF CommitsOnDisk
      <3>3. Precedes(d, Tip') /\ Behind(Len(got) + 1, d)'
        BY <1>0, <3>1, <3>2, TipGrows, BehindGrows DEF WalksFrom
      <3>4. WalksFrom(d)'
        BY <3>1, <3>3 DEF WalksFrom, Lined, Back
      <3> QED  BY <3>2, <3>4
    <2> QED  BY <2>2, <2>3, <2>4, <2>5
  <1>3. ReportOK'
    BY <1>0 DEF ReportOK, Kind, Current
  <1> QED  BY <1>1, <1>2, <1>3

LEMMA FailsFollow ==
    ASSUME FollowOK, UNCHANGED vars, NEW o, NEW bad, Fails(o, bad),
           o = "pastRoot" => cmd # "report"
    PROVE  FollowOK'
  <1>1. /\ plan' = plan /\ got' = got /\ cmd' = cmd /\ seen' = seen /\ cur' = <<>>
        /\ phase' = "idle" /\ outcome' = o
    BY DEF Fails, End, Rewind
  <1>2. GotOK => GotOK'
    BY <1>1, SameGot
  <1>3. NowOK'
    BY <1>1 DEF NowOK
  <1>4. (Follows /\ ReportOK) => ReportOK'
    BY <1>1 DEF ReportOK
  <1>5. Follows' => Follows
    BY <1>1 DEF Follows
  <1> QED  BY <1>2, <1>3, <1>4, <1>5 DEF FollowOK
\* A read is done: what it returns fits what was read before.
LEMMA ArriveFollows ==
    ASSUME Ground, ReaderInv, FollowOK, Follows, UNCHANGED vars, Working,
           NEW h \in Seq(Saved), Arrive(h), h = <<>> => Kind \in {"walk", "peek", "check"},
           \A j \in 1 .. Len(h) : Precedes(h[j], Tip),
           Kind \in {"at", "hash"} => Len(h) = 1,
           Kind = "at" => Len(h[1]) + Current.up <= Len(Tip),
           (Kind \in {"walk", "check"} /\ h # <<>>) =>
              /\ Lined(h, h[1])
              /\ \/ Len(h) = Len(h[1])
                 \/ Kind = "walk" /\ Len(h) = Current.limit
              /\ \A c \in seen : Precedes(c, h[1]),
           ((Current = At(0) \/ Kind \in {"walk", "check"}) /\ h # <<>>) =>
              Behind(Len(got) + 1, h[1])
    PROVE  FollowOK'
  <1> DEFINE p == Continue(h)
             n == Len(got) + 1
  <1>0. GotOK /\ ReportOK /\ PlanOK /\ ProgressOK
    BY DEF FollowOK, ReaderInv
  <1>1. /\ got \in Seq(Seq(Saved)) /\ got \in Seq(Seq(History)) /\ Len(got) \in Nat
        /\ Len(got) < Len(plan) /\ cmd # "none" /\ outcome = "none"
    BY StandsAt, GotElements DEF ReaderInv, ReaderTypeOK, ProgressOK
  <1>2. /\ Len(got) + 1 <= Len(p) /\ \A i \in 1 .. Len(p) : p[i] = plan[i]
    BY <1>0, <1>1, ContinueOK DEF Kind, Current
  <1>3. plan' = p /\ got' = Append(got, h) /\ cmd' = cmd /\ seen' = seen /\ cur' = <<>>
        /\ phase' \in {"idle", "ref"} /\ outcome' \in {"ok", "none"}
    BY <1>1 DEF Arrive, End, Rewind
  <1>p. Len(p) \in Nat
    <2>0. Kind # "prefix"
      BY <1>0, <1>1, FollowKinds DEF Kind, Current
    <2>1. ReaderInv'
      BY <2>0, ArriveOK
    <2>2. PlanOK'
      BY <2>1 DEF ReaderInv
    <2>3. PlanOK' => (plan \in Seq(Reads) /\ Len(plan) \in Nat /\ DOMAIN plan = 1 .. Len(plan))'
      BY PlanIsSeq, PTL
    <2> QED  BY <1>3, <2>2, <2>3
  <1> HIDE DEF p
  <1>4. Len(got') = n /\ got'[n] = h /\ \A i \in 1 .. Len(got) : got'[i] = got[i]
    BY <1>1, <1>3, AppendProperties
  <1>5. \A i \in 1 .. n : i \in 1 .. Len(p) /\ plan'[i] = plan[i]
    BY <1>1, <1>2, <1>3, <1>p
  <1>6. plan[n] = Current
    BY DEF Current
  <1>7. Tip' = Tip
    BY DEF vars, Tip
  <1>8. \A i \in 1 .. n : \A d : Behind(i, d) => Behind(i, d)'
    <2> SUFFICES ASSUME NEW i \in 1 .. n, NEW d, Behind(i, d), NEW k \in 1 .. i - 1
                 PROVE  /\ \A j \in 1 .. Len(got'[k]) : Precedes(got'[k][j], d)
                        /\ plan'[k].kind = "at" => Len(got'[k][1]) + plan'[k].up <= Len(d)
      BY DEF Behind
    <2>1. k \in 1 .. n /\ k \in 1 .. Len(got)
      BY <1>1
    <2>2. got'[k] = got[k] /\ plan'[k] = plan[k]
      BY <1>4, <1>5, <2>1
    <2> QED  BY <2>2 DEF Behind
  <1>9. \A r : (r = At(0))' <=> r = At(0)
    BY DEF At
  <1>10. GotOK'
    <2>1. Behind(Len(got) + 1, Tip)'
      <3> SUFFICES ASSUME NEW k \in 1 .. n
                   PROVE  /\ \A j \in 1 .. Len(got'[k]) : Precedes(got'[k][j], Tip)
                          /\ plan'[k].kind = "at" => Len(got'[k][1]) + plan'[k].up <= Len(Tip)
        BY <1>1, <1>4, <1>7 DEF Behind
      <3>1. CASE k = n
        BY <1>4, <1>5, <1>6, <3>1 DEF Kind
      <3>2. CASE k \in 1 .. Len(got)
        BY <1>0, <1>4, <1>5, <3>2 DEF GotOK, Behind
      <3> QED  BY <1>1, <3>1, <3>2
    <2>2. ASSUME NEW i \in 1 .. n
          PROVE  /\ plan'[i].kind \in {"at", "hash"} => Len(got'[i]) = 1
                 /\ (plan'[i].kind \in {"walk", "check"} /\ got'[i] # <<>>) =>
                      /\ Lined(got'[i], got'[i][1])
                      /\ \/ Len(got'[i]) = Len(got'[i][1])
                         \/ plan'[i].kind = "walk" /\ Len(got'[i]) = plan'[i].limit
                      /\ \A c \in seen : Precedes(c, got'[i][1])
                 /\ ((plan'[i] = At(0) \/ plan'[i].kind \in {"walk", "check"}) /\ got'[i] # <<>>) =>
                      Behind(i, got'[i][1])
      <3>1. CASE i = n
        BY <1>4, <1>5, <1>6, <3>1 DEF Kind
      <3>2. CASE i \in 1 .. Len(got)
        BY <1>0, <1>4, <1>5, <3>2 DEF GotOK
      <3>3. i = n \/ i \in 1 .. Len(got)
        BY <1>1
      <3> QED  BY <3>1, <3>2, <3>3, Zenon
    <2>3. \A i \in 1 .. n : Behind(i, got'[i][1]) => Behind(i, got[i][1])'
      BY <1>8 DEF Behind
    <2> HIDE DEF n
    <2> QED  BY <1>3, <1>4, <1>9, <2>1, <2>2, <2>3 DEF GotOK, Lined, Back, At
  <1>11. NowOK'
    BY <1>3 DEF NowOK
  <1>12. ReportOK'
    <2> SUFFICES ASSUME cmd = "report", Len(p) = 4, p[3].kind = "at"
                 PROVE  Len(got'[1]) >= 2
      BY <1>3 DEF ReportOK
    <2>1. Continue(h) = plan
      <3>1. Continue(h) = SubSeq(plan, 1, 2) => Len(p) = 2
        <4>1. plan \in Seq(Reads) /\ Len(plan) \in Nat /\ Len(plan) >= 2
          BY <1>0, PlanIsSeq, FollowKinds
        <4> QED  BY <4>1 DEF p
      <3> QED  BY <3>1 DEF Continue
    <2>2. CASE got = <<>>
      <3>1. ~(StartsFromHead(plan[3]) /\ ~WantDiff(h))
        <4>1. Continue(h) = SubSeq(plan, 1, 2) => Len(p) = 2
          <5>1. plan \in Seq(Reads) /\ Len(plan) \in Nat /\ Len(plan) >= 2
            BY <1>0, PlanIsSeq, FollowKinds
          <5> QED  BY <5>1 DEF p
        <4> QED  BY <2>2, <4>1 DEF Continue
      <3>2. plan[3].kind = "at"
        BY <2>1 DEF p
      <3>3. Len(h) >= 2
        BY <3>1, <3>2 DEF StartsFromHead, WantDiff
      <3>4. n = 1
        BY <2>2
      <3> QED  BY <1>4, <3>3, <3>4
    <2>3. CASE got # <<>>
      <3>1. Len(got) >= 1
        BY <1>1, <2>3
      <3>2. Len(got[1]) >= 2
        BY <1>0, <2>1, <3>1 DEF ReportOK, p
      <3> QED  BY <1>1, <1>4, <3>1, <3>2
    <2> QED  BY <2>2, <2>3
  <1> QED  BY <1>10, <1>11, <1>12 DEF FollowOK
\* The reader moves on within a read.
LEMMA MovesFollow ==
    ASSUME FollowOK, UNCHANGED vars, UNCHANGED <<cmd, plan, got, seen, outcome>>,
           Follows => NowOK' /\ ((cmd = "report" /\ phase' = "climb" /\ Kind = "at")
                                     => up' < Len(cur'))
    PROVE  FollowOK'
  <1>1. GotOK => GotOK'
    BY SameGot
  <1>2. Kind' = Kind
    BY SameRead
  <1>3. (Follows /\ ReportOK) => ReportOK'
    BY <1>2 DEF ReportOK
  <1> QED  BY <1>1, <1>3 DEF FollowOK, Follows

\* What the walk in progress has listed, and the commit it is at.
LEMMA WalkGoesBack ==
    ASSUME Ground, ReaderInv, phase = "chain", NEW d \in CommitsOnDisk, WalksFrom(d)
    PROVE  /\ d \in Seq(Entry) /\ d \in Saved /\ Len(d) \in Nat \ {0}
           /\ Append(chain, cur) \in Seq(Saved) /\ Lined(Append(chain, cur), d)
           /\ Len(chain) \in Nat /\ Len(Append(chain, cur)) = Len(chain) + 1
           /\ Len(cur) = Len(d) - Len(chain) /\ Len(ParentOf(cur)) = Len(cur) - 1
           /\ ParentOf(cur) = Back(d, Len(chain) + 1)
  <1>1. d \in Saved /\ d \in Seq(Entry)
    BY SavedOnDisk, GotElements
  <1>2. cur \in Saved /\ chain \in Seq(Saved)
    BY StandsAt DEF Working
  <1>3. /\ Len(chain) \in Nat /\ Len(chain) < Len(d) /\ cur = Back(d, Len(chain))
        /\ Lined(chain, d) /\ Len(d) \in Nat \ {0}
    BY <1>1, <1>2, SavedLeadsOn DEF WalksFrom
  <1>4. Len(cur) = Len(d) - Len(chain) /\ ParentOf(cur) = Back(d, Len(chain) + 1)
    BY <1>1, <1>3, BackFacts
  <1>5. /\ Append(chain, cur) \in Seq(Saved) /\ Len(Append(chain, cur)) = Len(chain) + 1
        /\ Append(chain, cur)[Len(chain) + 1] = cur
        /\ \A i \in 1 .. Len(chain) : Append(chain, cur)[i] = chain[i]
    BY <1>2, AppendProperties
  <1>6. Lined(Append(chain, cur), d)
    <2>1. (Len(chain) + 1) - 1 = Len(chain)
      BY <1>3
    <2>2. ASSUME NEW i \in 1 .. Len(chain) + 1 PROVE Append(chain, cur)[i] = Back(d, i - 1)
      <3>1. CASE i = Len(chain) + 1
        BY <1>3, <1>5, <2>1, <3>1
      <3>2. CASE i \in 1 .. Len(chain)
        BY <1>3, <1>5, <3>2 DEF Lined
      <3> QED  BY <1>3, <3>1, <3>2
    <2> QED  BY <1>3, <1>5, <2>2 DEF Lined
  <1>7. Len(ParentOf(cur)) = Len(cur) - 1
    BY <1>2, SavedLeadsOn
  <1> QED  BY <1>1, <1>3, <1>4, <1>5, <1>6, <1>7

\* Everything a walk lists precedes what the walk started from.
LEMMA LinedPrecedes ==
    ASSUME NEW S, NEW d \in Seq(S), NEW e \in Seq(S), Precedes(d, e), NEW h, Lined(h, d),
           Len(h) \in Nat
    PROVE  /\ \A i \in 1 .. Len(h) : Precedes(h[i], d) /\ Precedes(h[i], e)
           /\ Len(h) > 0 => h[1] = d
  <1>1. ASSUME NEW i \in 1 .. Len(h) PROVE Precedes(h[i], d) /\ Precedes(h[i], e)
    <2>1. i - 1 \in 0 .. Len(d)
      BY DEF Lined
    <2>2. h[i] = Back(d, i - 1) /\ Back(d, i - 1) \in Seq(S) /\ Precedes(Back(d, i - 1), d)
      BY <2>1, BackFacts DEF Lined
    <2> QED  BY <2>2, PrecedesTransitive
  <1>2. Len(h) > 0 => h[1] = Back(d, 0)
    <2>1. 1 - 1 = 0
      OBVIOUS
    <2> QED  BY <2>1 DEF Lined
  <1>3. Back(d, 0) = d
    BY BackFacts
  <1> QED  BY <1>1, <1>2, <1>3

LEMMA FewBelow ==
    /\ \A m, n \in Nat : (n < m /\ m = 2) => n = 0 \/ n = 1
    /\ \A m, n \in Nat : (n < m /\ m = 4) => n = 0 \/ n = 1 \/ n = 2 \/ n = 3
  OBVIOUS

\* HEAD is at or after everything read so far, and has a parent where the report
\* asks for one.
LEMMA FindHeadFollows ==
    ASSUME NEW w, Committers = {w}, Ground, ReaderInv, AtTip(w), FollowOK, UNCHANGED vars,
           FindHead
    PROVE  FollowOK'
  <1>1. /\ Working /\ chain' = <<>> /\ cur' = head /\ head = Tip /\ head \in Saved
        /\ Tip \in Seq(Entry) /\ phase' = Phase(Kind)
        /\ up' = IF Kind = "at" THEN Current.up ELSE 0
        /\ UNCHANGED <<cmd, plan, got, seen, outcome>>
    BY TipFacts DEF FindHead, Working, Kind, ReaderInv, ProgressOK
  <1> SUFFICES ASSUME Follows
               PROVE  NowOK' /\ ((cmd = "report" /\ phase' = "climb" /\ Kind = "at")
                                     => up' < Len(cur'))
    BY <1>1, MovesFollow
  <1>2. GotOK /\ ReportOK /\ PlanOK
    BY DEF FollowOK, ReaderInv
  <1>3. Precedes(Tip, Tip) /\ Len(Tip) \in Nat \ {0}
    BY <1>1, AncestorOfItself, SavedLeadsOn
  <1>4. \A c \in seen : Precedes(c, Tip)
    BY TipFacts DEF ReaderInv, ReaderTypeOK
  <1>5. Behind(Len(got) + 1, Tip)
    BY <1>2 DEF GotOK
  <1>6. Kind' = Kind /\ Current' = Current /\ Tip' = Tip
    BY <1>1, SameRead, SameGot
  <1>7. Behind(Len(got) + 1, Tip)'
    BY <1>1, <1>5, <1>6 DEF Behind
  <1>8. (Kind \in {"walk", "check"}) => phase' = "chain"
    BY <1>1 DEF Phase
  <1>9. NowOK'
    <2>1. ASSUME Kind \in {"walk", "check"} PROVE (\E d \in CommitsOnDisk : WalksFrom(d))'
      <3>1. Lined(<<>>, Tip)
        BY <1>3 DEF Lined
      <3>2. Len(<<>>) = 0 /\ Tip = Back(Tip, 0)
        BY <1>1, BackFacts
      <3>3. WalksFrom(Tip)'
        BY <1>1, <1>3, <1>4, <1>6, <1>7, <1>8, <2>1, <3>1, <3>2 DEF WalksFrom, Lined, Back
      <3>4. Tip' \in CommitsOnDisk'
        BY <1>1, <1>6, SavedOnDisk, Held
      <3> QED  BY <3>3, <3>4
    <2>2. Kind = "at" => Len(cur') + Current.up <= Len(Tip) + up'
      BY <1>1, <1>3, StandsAt
    <2>3. Behind(Len(got) + 1, cur)'
      BY <1>1, <1>6, <1>7 DEF Behind
    <2> QED  BY <1>1, <1>3, <1>6, <2>1, <2>2, <2>3 DEF NowOK, At
  <1>10. ASSUME cmd = "report", Kind = "at" PROVE up' < Len(cur')
    <2>1. CASE Current.up = 0
      BY <1>1, <1>3, <1>10, <2>1
    <2>2. CASE Current.up # 0
      <3>1. Current # At(0) /\ Kind = "at" /\ Current.up = 1
        BY <1>1, <1>10, <2>2, StandsAt, KindsOfReads
      <3>2. Len(got) = 2 /\ Len(plan) = 4 /\ plan[3].kind = "at"
        <4>1. /\ Len(plan) \in {2, 4} /\ plan[1] = Walk(NoLimit) /\ plan[2] = Check
              /\ Len(plan) = 4 => plan[4] = At(0)
          BY <1>2, <1>10, FollowKinds
        <4>2. Len(got) \in Nat /\ Len(plan) \in Nat /\ Len(got) < Len(plan)
          BY <1>1, StandsAt, GotElements
        <4>3. /\ Len(got) = 0 => Current = plan[1]
              /\ Len(got) = 1 => Current = plan[2]
              /\ Len(got) = 2 => Current = plan[3]
              /\ Len(got) = 3 => Current = plan[4]
          <5>1. 0 + 1 = 1 /\ 1 + 1 = 2 /\ 2 + 1 = 3 /\ 3 + 1 = 4
            OBVIOUS
          <5> QED  BY <5>1, Zenon DEF Current
        <4>4. Len(got) # 0 /\ Len(got) # 1
          BY <3>1, <4>1, <4>3, KindsOfReads DEF Kind
        <4>5. Len(plan) = 4 /\ (Len(got) = 2 \/ Len(got) = 3)
          BY <4>1, <4>2, <4>4, FewBelow
        <4>6. Len(got) # 3
          BY <3>1, <4>1, <4>3, <4>5
        <4> QED  BY <3>1, <4>3, <4>5, <4>6 DEF Kind
      <3>3. Len(got[1]) >= 2 /\ plan[1].kind = "walk"
        BY <1>2, <1>10, <3>2, FollowKinds, KindsOfReads DEF ReportOK
      <3>4. Lined(got[1], got[1][1])
        <4>1. got[1] # <<>>
          BY <3>3
        <4>2. 1 \in 1 .. Len(got)
          BY <3>2
        <4> QED  BY <1>2, <3>3, <4>1, <4>2 DEF GotOK
      <3>5. got[1][1] \in Seq(Entry) /\ Precedes(got[1][1], Tip)
        <4>1. 1 \in 1 .. Len(got) /\ 1 \in 1 .. Len(got[1])
          BY <3>2, <3>3, GotElements
        <4> QED  BY <1>5, <4>1, GotElements DEF Behind
      <3>6. Len(got[1][1]) >= 2 /\ Len(got[1][1]) <= Len(Tip) /\ Len(got[1][1]) \in Nat
        BY <3>2, <3>3, <3>4, <3>5, GotElements DEF Lined, Precedes
      <3> QED  BY <1>1, <1>3, <1>10, <3>1, <3>6
    <2> QED  BY <2>1, <2>2
  <1> QED  BY <1>9, <1>10
LEMMA FindNoCommitsFollows ==
    ASSUME Ground, ReaderInv, FollowOK, UNCHANGED vars, FindNoCommits
    PROVE  FollowOK'
  <1>1. Working /\ Kind \in {"walk", "peek", "check"} /\ Arrive(<<>>)
    BY DEF FindNoCommits, Working, Kind
  <1>2. <<>> \in Seq(Saved) /\ Len(<<>>) = 0 /\ 1 .. 0 = {}
    OBVIOUS
  <1>3. CASE ~Follows
    BY <1>1, <1>3 DEF FollowOK, Follows, Arrive, End, Rewind
  <1>4. CASE Follows
    BY <1>1, <1>2, <1>4, ArriveFollows
  <1> QED  BY <1>3, <1>4

LEMMA TakeHashFollows ==
    ASSUME NEW w, Committers = {w}, Ground, ReaderInv, AtTip(w), FollowOK, UNCHANGED vars,
           TakeHash
    PROVE  FollowOK'
  <1>1. Working /\ Kind = "hash" /\ cur' = Current.commit /\ phase' = "climb"
    BY DEF TakeHash, Working, Kind
  <1>2. UNCHANGED <<cmd, plan, got, seen, outcome>>
    BY DEF TakeHash
  <1>3. Current.commit \in created
    BY <1>1, StandsAt, KindsOfReads DEF Kind
  <1>4. Precedes(cur', Tip')
    BY <1>1, <1>2, <1>3, TipFacts, SameGot
  <1>5. Kind' = "hash" /\ Current' # At(0)
    <2>1. Kind' = "hash"
      BY <1>1, <1>2, SameRead
    <2> QED  BY <2>1, KindsOfReads DEF Kind
  <1>6. NowOK'
    BY <1>4, <1>5 DEF NowOK, At
  <1> QED  BY <1>1, <1>2, <1>6, MovesFollow

LEMMA ClimbFollows ==
    ASSUME NEW w, Committers = {w}, Ground, ReaderInv, AtTip(w), FollowOK, UNCHANGED vars,
           Climb
    PROVE  FollowOK'
  <1>1. /\ Working /\ phase = "climb" /\ up \in Nat \ {0} /\ phase' = "climb"
        /\ cur' = ParentOf(cur) /\ up' = up - 1 /\ Kind = "at" /\ up <= Current.up
        /\ ParentOf(cur) # <<>> /\ UNCHANGED <<cmd, plan, got, seen, outcome>>
    BY DEF Climb, Working, ReaderInv, ProgressOK, HasParent
  <1> SUFFICES ASSUME Follows
               PROVE  NowOK' /\ ((cmd = "report" /\ phase' = "climb" /\ Kind = "at")
                                     => up' < Len(cur'))
    BY <1>1, MovesFollow
  <1>2. cur \in Saved /\ cur \in Seq(Entry) /\ Len(cur) \in Nat \ {0} /\ cur # <<>>
        /\ Len(ParentOf(cur)) = Len(cur) - 1
    BY <1>1, StandsAt, SavedLeadsOn, GotElements DEF Saved
  <1>3. Precedes(cur, Tip) /\ Len(cur) + Current.up <= Len(Tip) + up
    BY <1>1, <1>2 DEF FollowOK, NowOK
  <1>4. Tip' = Tip /\ Current' = Current /\ Kind' = Kind /\ Tip \in Seq(Entry) /\ Len(Tip) \in Nat
    BY <1>1, SameGot, SameRead, TipFacts
  <1>5. Precedes(ParentOf(cur), Tip)
    <2>1. ParentOf(cur) = Back(cur, 1) /\ 1 \in 0 .. Len(cur)
      BY <1>2 DEF ParentOf, Back
    <2>2. ParentOf(cur) \in Seq(Entry) /\ Precedes(ParentOf(cur), cur)
      BY <1>2, <2>1, BackFacts
    <2> QED  BY <1>2, <1>3, <1>4, <2>2, PrecedesTransitive
  <1>6. Current # At(0) /\ Current.up \in Nat
    BY <1>1, StandsAt, KindsOfReads
  <1>7. Len(cur') + Current.up <= Len(Tip) + up'
    BY <1>1, <1>2, <1>3, <1>4, <1>6
  <1>8. NowOK'
    BY <1>1, <1>4, <1>5, <1>6, <1>7 DEF NowOK, At
  <1>9. cmd = "report" => up' < Len(cur')
    BY <1>1, <1>2 DEF FollowOK, ReportOK
  <1> QED  BY <1>8, <1>9

LEMMA ClimbPastRootFollows ==
    ASSUME Ground, ReaderInv, FollowOK, UNCHANGED vars, ClimbPastRoot
    PROVE  FollowOK'
  <1>1. /\ Working /\ phase = "climb" /\ up \in Nat \ {0} /\ ParentOf(cur) = <<>>
        /\ Kind = "at" /\ Fails("pastRoot", {})
    BY DEF ClimbPastRoot, Working, ReaderInv, ProgressOK, HasParent
  <1>2. Len(cur) \in Nat \ {0} /\ Len(ParentOf(cur)) = Len(cur) - 1
    BY <1>1, StandsAt, SavedLeadsOn
  <1>3. Len(cur) = 1
    <2>1. Len(<<>>) = 0
      OBVIOUS
    <2> QED  BY <1>1, <1>2, <2>1
  <1>4. cmd = "report" => up < Len(cur)
    BY <1>1 DEF FollowOK, Follows, ReportOK
  <1>5. cmd # "report"
    BY <1>1, <1>3, <1>4
  <1> QED  BY <1>1, <1>5, FailsFollow

\* The objects of a commit that has been reached are read one by one.
LEMMA LoadingFollows ==
    ASSUME Ground, ReaderInv, FollowOK, UNCHANGED vars, Resolve \/ ReadObject
    PROVE  FollowOK'
  <1>1. /\ Working /\ phase' = "load" /\ cur' = cur /\ up' = 0 /\ up = 0
        /\ UNCHANGED <<cmd, plan, got, seen, outcome>>
    BY DEF Resolve, ReadObject, Working, ReaderInv, ProgressOK
  <1>2. Tip' = Tip /\ Current' = Current /\ Kind' = Kind
        /\ \A n, d : Behind(n, d) => Behind(n, d)'
    BY <1>1, SameGot, SameRead
  <1> SUFFICES ASSUME Follows PROVE NowOK'
    BY <1>1, MovesFollow
  <1>3. NowOK
    BY DEF FollowOK
  <1>4. ASSUME Kind \in {"walk", "check"}, NEW d, WalksFrom(d) PROVE WalksFrom(d)'
    <2>1. ReadObject
      BY <1>1, <1>4 DEF Resolve, ReaderInv, ProgressOK
    <2>2. chain' = chain /\ phase = "load"
      BY <2>1 DEF ReadObject
    <2>3. Behind(Len(got) + 1, d)'
      BY <1>1, <1>4 DEF WalksFrom, Behind
    <2> QED  BY <1>1, <1>2, <1>4, <2>2, <2>3 DEF WalksFrom, Lined, Back
  <1>5. CommitsOnDisk' = CommitsOnDisk
    BY DEF vars, CommitsOnDisk
  <1>6. ASSUME cur # <<>>, Current = At(0) PROVE Behind(Len(got) + 1, cur)'
    BY <1>1, <1>3, <1>6 DEF NowOK, Behind
  <1>7. cur # <<>> /\ Kind \in {"walk", "check"} => (\E d \in CommitsOnDisk : WalksFrom(d))'
    BY <1>1, <1>3, <1>4, <1>5 DEF NowOK
  <1> QED  BY <1>1, <1>2, <1>3, <1>6, <1>7 DEF NowOK, At
LEMMA FollowParentFollows ==
    ASSUME NEW w, Committers = {w}, Ground, ReaderInv, AtTip(w), FollowOK, UNCHANGED vars,
           FollowParent
    PROVE  FollowOK'
  <1>1. /\ Working /\ phase = "chain" /\ phase' = "chain" /\ Kind \in {"walk", "check"}
        /\ cur' = ParentOf(cur) /\ chain' = Append(chain, cur) /\ ParentOf(cur) # <<>>
        /\ UNCHANGED <<cmd, plan, got, seen, outcome>>
    BY DEF FollowParent, Working, ReaderInv, ProgressOK, HasParent, AtRoot
  <1> SUFFICES ASSUME Follows PROVE NowOK'
    BY <1>1, MovesFollow
  <1>2. cur # <<>> /\ Tip \in Seq(Entry)
    BY <1>1, StandsAt, TipFacts DEF Saved
  <1>3. PICK d \in CommitsOnDisk : WalksFrom(d)
    BY <1>1, <1>2 DEF FollowOK, NowOK
  <1>4. /\ d \in Seq(Entry) /\ Len(d) \in Nat \ {0} /\ Lined(Append(chain, cur), d)
        /\ Len(chain) \in Nat /\ Len(Append(chain, cur)) = Len(chain) + 1
        /\ Len(cur) = Len(d) - Len(chain) /\ Len(ParentOf(cur)) = Len(cur) - 1
        /\ ParentOf(cur) = Back(d, Len(chain) + 1)
    BY <1>1, <1>3, WalkGoesBack
  <1>5. Len(chain) + 1 < Len(d)
    <2>1. ParentOf(cur) \in Seq(Entry)
      BY <1>1, StandsAt, SavedLeadsOn, GotElements
    <2>2. Len(ParentOf(cur)) # 0
      BY <1>1, <2>1, EmptySeq
    <2>3. Len(ParentOf(cur)) \in Nat
      BY <2>1
    <2> QED  BY <1>4, <2>2, <2>3
  <1>6. Tip' = Tip /\ Current' = Current /\ Kind' = Kind /\ CommitsOnDisk' = CommitsOnDisk
    BY <1>1, SameGot, SameRead DEF vars, CommitsOnDisk
  <1>7. WalksFrom(d)'
    <2>1. Behind(Len(got) + 1, d)'
      BY <1>1, <1>3 DEF WalksFrom, Behind
    <2>2. Lined(chain', d)
      BY <1>1, <1>4
    <2>3. /\ Precedes(d, Tip) /\ \A c \in seen : Precedes(c, d)
      BY <1>3 DEF WalksFrom
    <2>4. Len(chain') < Len(d) /\ cur' = Back(d, Len(chain'))
      BY <1>1, <1>4, <1>5
    <2> QED  BY <1>1, <1>6, <2>1, <2>2, <2>3, <2>4 DEF WalksFrom, Lined, Back
  <1>8. Precedes(cur', Tip)
    <2>1. Len(chain) + 1 \in 0 .. Len(d)
      BY <1>4, <1>5
    <2>2. Back(d, Len(chain) + 1) \in Seq(Entry) /\ Precedes(Back(d, Len(chain) + 1), d)
      BY <1>4, <2>1, BackFacts
    <2> QED  BY <1>1, <1>2, <1>3, <1>4, <2>2, PrecedesTransitive DEF WalksFrom
  <1>9. Current # At(0) /\ Kind # "at"
    BY <1>1, KindsOfReads DEF Kind
  <1> QED  BY <1>3, <1>6, <1>7, <1>8, <1>9 DEF NowOK, At

\* The walk has come to the root commit: it has read every ancestor of d.
LEMMA WalkIsWhole ==
    ASSUME Ground, ReaderInv, phase = "chain", ~HasParent(cur),
           NEW d \in CommitsOnDisk, WalksFrom(d)
    PROVE  Len(Append(chain, cur)) = Len(d)
  <1>1. /\ Len(d) \in Nat \ {0} /\ Len(chain) \in Nat
        /\ Len(Append(chain, cur)) = Len(chain) + 1
        /\ Len(cur) = Len(d) - Len(chain) /\ Len(ParentOf(cur)) = Len(cur) - 1
    BY WalkGoesBack
  <1>2. Len(ParentOf(cur)) = 0
    BY DEF HasParent
  <1> QED  BY <1>1, <1>2

LEMMA NewestOf ==
    ASSUME NEW S, NEW h \in Seq(S), NEW n \in Nat
    PROVE  /\ Newest(h, n) \in Seq(S) /\ Len(Newest(h, n)) \in Nat
           /\ Len(Newest(h, n)) <= Len(h)
           /\ Len(Newest(h, n)) = Len(h) \/ Len(Newest(h, n)) = n
           /\ \A i \in 1 .. Len(Newest(h, n)) : i \in 1 .. Len(h) /\ Newest(h, n)[i] = h[i]
  <1> DEFINE m == IF Len(h) > n THEN n ELSE Len(h)
  <1>1. m \in 0 .. Len(h) /\ m \in Nat /\ (m = Len(h) \/ m = n) /\ Len(h) \in Nat
    OBVIOUS
  <1> HIDE DEF m
  <1>2. SubSeq(h, 1, m) \in Seq(S) /\ Len(SubSeq(h, 1, m)) = m
        /\ \A i \in 1 .. m : SubSeq(h, 1, m)[i] = h[i]
    BY <1>1
  <1>3. Newest(h, n) = SubSeq(h, 1, m)
    BY DEF Newest, m
  <1>4. \A i \in 1 .. m : i \in 1 .. Len(h)
    BY <1>1
  <1> QED  BY <1>1, <1>2, <1>3, <1>4

LEMMA ReachRootFollows ==
    ASSUME NEW w, Committers = {w}, Ground, ReaderInv, AtTip(w), FollowOK, UNCHANGED vars,
           ReachRoot
    PROVE  FollowOK'
  <1> DEFINE h == Append(chain, cur)
  <1>1. Working /\ phase = "chain" /\ Kind \in {"walk", "check"} /\ ~HasParent(cur)
    BY DEF ReachRoot, Working, AtRoot, ReaderInv, ProgressOK
  <1>2. cur # <<>> /\ Tip \in Seq(Entry)
    BY <1>1, StandsAt, TipFacts DEF Saved
  <1>3. CASE ~Follows
    <2>1. cmd' = cmd
      BY DEF ReachRoot, Arrive, End, Rewind
    <2> QED  BY <1>3, <2>1 DEF FollowOK, Follows
  <1>4. CASE Follows
    <2>1. PICK d \in CommitsOnDisk : WalksFrom(d)
      BY <1>1, <1>2, <1>4 DEF FollowOK, NowOK
    <2>2. /\ d \in Seq(Entry) /\ Len(d) \in Nat \ {0} /\ h \in Seq(Saved) /\ Lined(h, d)
          /\ Len(h) = Len(d) /\ Precedes(d, Tip) /\ Behind(Len(got) + 1, d)
          /\ \A c \in seen : Precedes(c, d)
      BY <1>1, <2>1, WalkGoesBack, WalkIsWhole DEF WalksFrom
    <2>3. CASE Kind = "walk"
      <3> DEFINE g == Newest(h, Current.limit)
      <3>1. Arrive(g)
        BY <2>3 DEF ReachRoot, Kind
      <3>2. Current.limit \in Nat
        <4>1. Current.limit \in {1, NoLimit}
          BY <1>1, <2>3, StandsAt, KindsOfReads DEF Kind
        <4> QED  BY <4>1, ReaderAssumptions DEF NoLimit
      <3> HIDE DEF h
      <3>3. /\ g \in Seq(Saved) /\ Len(g) \in Nat /\ Len(g) <= Len(h)
            /\ Len(g) = Len(h) \/ Len(g) = Current.limit
            /\ \A i \in 1 .. Len(g) : i \in 1 .. Len(h) /\ g[i] = h[i]
        BY <2>2, <3>2, NewestOf
      <3> HIDE DEF g
      <3>4. Lined(g, d)
        BY <2>2, <3>3 DEF Lined
      <3>5. (\A i \in 1 .. Len(g) : Precedes(g[i], Tip)) /\ (Len(g) > 0 => g[1] = d)
        BY <1>2, <2>2, <3>3, <3>4, LinedPrecedes
      <3>6. g # <<>> => g[1] = d
        <4>1. g # <<>> => Len(g) # 0
          BY <3>3, EmptySeq
        <4> QED  BY <3>3, <3>5, <4>1
      <3> QED  BY <1>1, <1>4, <2>2, <2>3, <3>1, <3>3, <3>4, <3>5, <3>6, ArriveFollows
    <2>4. CASE Kind = "check"
      <3>1. /\ phase' = "load" /\ cur' = cur /\ chain' = h
            /\ UNCHANGED <<cmd, plan, got, seen, outcome>>
        BY <2>4 DEF ReachRoot, Kind
      <3> SUFFICES NowOK'
        BY <3>1, MovesFollow
      <3>2. Tip' = Tip /\ Current' = Current /\ Kind' = Kind /\ CommitsOnDisk' = CommitsOnDisk
        BY <3>1, SameGot, SameRead DEF vars, CommitsOnDisk
      <3>3. Behind(Len(got) + 1, d)'
        BY <2>2, <3>1 DEF Behind
      <3>4. Lined(chain', d) /\ \A c \in seen' : Precedes(c, d)
        BY <2>2, <3>1
      <3>5. WalksFrom(d)'
        BY <2>2, <3>1, <3>2, <3>3, <3>4 DEF WalksFrom, Lined, Back
      <3>6. Precedes(cur, Tip)
        BY <1>1, <1>2, <1>4 DEF FollowOK, NowOK
      <3>7. Current # At(0) /\ Kind # "at"
        BY <2>4, KindsOfReads DEF Kind
      <3> QED  BY <2>1, <3>1, <3>2, <3>5, <3>6, <3>7 DEF NowOK, At
    <2> QED  BY <1>1, <2>3, <2>4
  <1> QED  BY <1>3, <1>4

LEMMA LoadedFollows ==
    ASSUME NEW w, Committers = {w}, Ground, ReaderInv, AtTip(w), FollowOK, UNCHANGED vars,
           Loaded
    PROVE  FollowOK'
  <1>1. /\ Working /\ phase = "load" /\ Arrive(chain) /\ chain \in Seq(Saved) /\ cur \in Saved
        /\ cur # <<>> /\ Kind # "walk" /\ (Kind # "check" => chain = <<cur>>) /\ up = 0
    BY StandsAt DEF Loaded, Working, ReaderInv, ProgressOK, Saved
  <1>2. Tip \in Seq(Entry) /\ Len(Tip) \in Nat
    BY TipFacts
  <1>3. CASE ~Follows
    <2>1. cmd' = cmd
      BY <1>1 DEF Arrive, End, Rewind
    <2> QED  BY <1>3, <2>1 DEF FollowOK, Follows
  <1>4. CASE Follows /\ Kind = "check"
    <2>1. PICK d \in CommitsOnDisk : WalksFrom(d)
      BY <1>1, <1>4 DEF FollowOK, NowOK
    <2>2. d \in Saved /\ d \in Seq(Entry) /\ Len(d) \in Nat \ {0}
      BY <2>1, SavedOnDisk, SavedLeadsOn, GotElements
    <2>3. /\ Lined(chain, d) /\ Len(chain) = Len(d) /\ Precedes(d, Tip)
          /\ Behind(Len(got) + 1, d) /\ \A c \in seen : Precedes(c, d)
      BY <1>1, <2>1 DEF WalksFrom
    <2>4. (\A i \in 1 .. Len(chain) : Precedes(chain[i], Tip)) /\ chain[1] = d
      BY <1>2, <2>2, <2>3, LinedPrecedes
    <2> QED  BY <1>1, <1>4, <2>3, <2>4, ArriveFollows
  <1>5. CASE Follows /\ Kind # "check"
    <2>0. Len(<<cur>>) = 1 /\ <<cur>>[1] = cur /\ <<cur>> # <<>>
      OBVIOUS
    <2>1. Len(chain) = 1 /\ chain[1] = cur /\ chain # <<>>
      <3>1. chain = <<cur>>
        BY <1>1, <1>5
      <3> QED  BY <2>0, <3>1
    <2>2. /\ Precedes(cur, Tip)
          /\ Kind = "at" => Len(cur) + Current.up <= Len(Tip) + 0
          /\ Current = At(0) => Behind(Len(got) + 1, cur)
      BY <1>1, <1>5 DEF FollowOK, NowOK
    <2>3. Kind = "at" => Len(cur) + Current.up <= Len(Tip)
      BY <1>2, <2>2
    <2>4. \A j \in 1 .. Len(chain) : j = 1
      BY <2>1
    <2> QED  BY <1>1, <1>5, <2>1, <2>2, <2>3, <2>4, ArriveFollows
  <1> QED  BY <1>3, <1>4, <1>5
LEMMA BeginFollows ==
    ASSUME ReaderInv, UNCHANGED vars, Begin
    PROVE  FollowOK'
  <1>1. cmd = "none" /\ got = <<>> /\ cur = <<>> /\ outcome = "none"
    BY DEF Begin, ReaderInv, PlanOK, ProgressOK
  <1>2. got' = <<>> /\ cur' = <<>> /\ outcome' = "none" /\ phase' = "ref"
    BY <1>1 DEF Begin
  <1>3. Len(got') = 0
    BY <1>2
  <1>4. GotOK'
    BY <1>3 DEF GotOK, Behind
  <1> QED  BY <1>2, <1>3, <1>4 DEF FollowOK, NowOK, ReportOK

LEMMA FollowStep ==
    ASSUME NEW w, Committers = {w}, "refwrite" \notin FailurePoints, Ground, ReaderInv,
           AtTip(w), FollowOK, [RNext]_<<vars, reader>>
    PROVE  FollowOK'
  <1>1. CASE (Next /\ UNCHANGED reader) \/ UNCHANGED <<vars, reader>>
    BY <1>1, FollowBesideReader
  <1>2. CASE UNCHANGED vars /\ Begin
    BY <1>2, BeginFollows
  <1>3. CASE UNCHANGED vars /\ (FindHead \/ FindNoCommits \/ TakeHash)
    BY <1>3, FindHeadFollows, FindNoCommitsFollows, TakeHashFollows
  <1>4. CASE UNCHANGED vars /\ (Climb \/ ClimbPastRoot \/ Resolve \/ ReadObject)
    BY <1>4, ClimbFollows, ClimbPastRootFollows, LoadingFollows
  <1>5. CASE UNCHANGED vars /\ (FollowParent \/ ReachRoot \/ Loaded)
    BY <1>5, FollowParentFollows, ReachRootFollows, LoadedFollows
  <1>6. CASE UNCHANGED vars /\ (BeginListing \/ MatchOne)
    <2>1. Working /\ Kind = "prefix" /\ cmd' = cmd
      BY <1>6 DEF BeginListing, MatchOne, Working, Kind, ReaderInv, ProgressOK
    <2>2. Len(got) + 1 \in 1 .. Len(plan)
      BY <2>1, StandsAt, GotElements
    <2>3. ~Follows
      BY <2>1, <2>2, FollowKinds DEF ReaderInv, Kind, Current
    <2> QED  BY <2>1, <2>3 DEF FollowOK, Follows
  <1>7. CASE UNCHANGED vars /\ (FindNoHead \/ MatchNone \/ MatchSeveral \/ CommitUnreadable
                                  \/ ObjectUnreadable)
    BY <1>7, FailsFollow DEF FindNoHead, MatchNone, MatchSeveral, CommitUnreadable,
                            ObjectUnreadable
  <1> QED  BY <1>1, <1>2, <1>3, <1>4, <1>5, <1>6, <1>7 DEF RNext, Read

LEMMA FollowInvariant ==
    ASSUME NEW w, Committers = {w}, "refwrite" \notin FailurePoints
    PROVE  RSpec => [](Ground /\ ReaderInv /\ FollowOK)
  <1>1. RInit => FollowOK
    <2> SUFFICES ASSUME RInit PROVE FollowOK
      OBVIOUS
    <2>1. cmd = "none"
      BY DEF RInit, ReaderInit
    <2> QED  BY <2>1 DEF FollowOK, Follows
  <1>2. Ground /\ ReaderInv /\ AtTip(w) /\ FollowOK /\ [RNext]_<<vars, reader>> => FollowOK'
    BY FollowStep
  <1>3. RSpec => []AtTip(w)
    BY CommitsGoOn, AtTipInvariant
  <1> QED  BY <1>1, <1>2, <1>3, ReaderInvInvariant, PTL DEF RSpec
-------------------------------------------------------------------------------
(* What follows for the commands. *)

\* What a command that has ended well has read.
LEMMA PositionsOf ==
    ASSUME ReaderInv, Ground, FollowOK, outcome = "ok", Follows
    PROVE  /\ Len(got) = Len(plan) /\ GotOK /\ PlanOK /\ ReportOK
           /\ cmd = "log"    => Len(got) = 1 /\ plan[1].kind = "walk"
           /\ cmd = "diff"   => Len(got) = 2 /\ IsOldSide(plan[1]) /\ plan[2] = At(0)
           /\ cmd = "report" => /\ plan[1] = Walk(NoLimit) /\ plan[2] = Check
                                /\ Len(got) = 2 \/ Len(got) = 4
                                /\ Len(got) = 4 => IsOldSide(plan[3]) /\ plan[4] = At(0)
  <1>1. Len(got) = Len(plan) /\ GotOK /\ PlanOK /\ ReportOK
    BY DEF ReaderInv, ProgressOK, FollowOK
  <1> QED  BY <1>1, FollowKinds
\* An ancestor is in a walk at its distance, or is older than all that the walk shows.
LEMMA PlaceInWalk ==
    ASSUME NEW S, NEW d \in Seq(S), NEW c \in Seq(S), Len(c) > 0, Precedes(c, d),
           NEW h, Len(h) \in Nat, Lined(h, d)
    PROVE  /\ Len(h) = Len(d) => \E i \in 1 .. Len(h) : h[i] = c
           /\ \/ \E i \in 1 .. Len(h) : h[i] = c
              \/ Len(h) > 0 => Len(c) < Len(h[Len(h)])
  <1> DEFINE k == Len(d) - Len(c)
  <1>1. /\ k \in 0 .. Len(d) /\ c = Back(d, k) /\ Len(c) \in Nat /\ Len(d) \in Nat
        /\ Len(c) <= Len(d)
    BY PrecedesIsBack
  <1>2. Len(h) <= Len(d) /\ \A i \in 1 .. Len(h) : h[i] = Back(d, i - 1)
    BY DEF Lined
  <1>3. CASE k + 1 <= Len(h)
    <2>1. k + 1 \in 1 .. Len(h) /\ (k + 1) - 1 = k
      BY <1>1, <1>3
    <2>2. h[k + 1] = c
      BY <1>1, <1>2, <2>1
    <2> QED  BY <2>1, <2>2
  <1>4. CASE k + 1 > Len(h)
    <2>1. Len(h) # Len(d)
      BY <1>1, <1>4
    <2>2. ASSUME Len(h) > 0 PROVE Len(c) < Len(h[Len(h)])
      <3>1. Len(h) \in 1 .. Len(h) /\ Len(h) - 1 \in 0 .. Len(d)
        BY <1>1, <1>2, <2>2
      <3>2. h[Len(h)] = Back(d, Len(h) - 1) /\ Len(Back(d, Len(h) - 1)) = Len(d) - (Len(h) - 1)
        BY <1>2, <3>1, BackFacts
      <3> QED  BY <1>1, <1>4, <3>2
    <2> QED  BY <2>1, <2>2
  <1> QED  BY <1>1, <1>3, <1>4

\* Commits have at least one entry.
LEMMA SavedIsLong ==
    ASSUME Ground, NEW c \in Saved
    PROVE  c \in Seq(Entry) /\ Len(c) > 0
  <1>1. c \in Seq(Entry) /\ Len(c) \in Nat \ {0}
    BY SavedLeadsOn DEF Saved, History
  <1> QED  BY <1>1

\* With one committing process whose calls are not cut off while they rewrite HEAD,
\* the two sides of a diff, each found from a HEAD of its own, are in the order in
\* which they were asked for.
THEOREM DiffsGoForward ==
    ASSUME NEW w, Committers = {w}, "refwrite" \notin FailurePoints
    PROVE  RSpec => []DiffGoesForward
  <1>1. Ground /\ ReaderInv /\ FollowOK => DiffGoesForward
    <2> SUFFICES ASSUME Ground, ReaderInv, FollowOK, Compared
                 PROVE  /\ IsAncestor(OldSide, NewSide)
                        /\ plan[Len(plan) - 1].kind = "at" => OldSide # NewSide
      BY DEF DiffGoesForward
    <2> DEFINE n == Len(got)
               m == Len(got) - 1
    <2>1. /\ Len(got) = Len(plan) /\ GotOK /\ n \in Nat
          /\ IsOldSide(plan[m]) /\ plan[n] = At(0) /\ m \in 1 .. n /\ n \in 1 .. n /\ m \in 1 .. n - 1
      <3>1. outcome = "ok" /\ Follows
        BY DEF Compared, Follows
      <3>2. Len(got) = Len(plan) /\ GotOK
        BY <3>1, PositionsOf
      <3>3. CASE cmd = "diff"
        <4>1. n = 2 /\ m = 1 /\ IsOldSide(plan[1]) /\ plan[2] = At(0)
          BY <3>1, <3>3, PositionsOf
        <4> QED  BY <3>2, <4>1
      <3>4. CASE cmd = "report" /\ Len(got) = 4
        <4>1. n = 4 /\ m = 3 /\ IsOldSide(plan[3]) /\ plan[4] = At(0)
          BY <3>1, <3>4, PositionsOf
        <4> QED  BY <3>2, <4>1
      <3> QED  BY <3>3, <3>4 DEF Compared
    <2> HIDE DEF m, n
    <2>2. plan[m].kind \in {"at", "hash"} /\ plan[n].kind = "at"
          /\ (plan[m].kind = "at" => plan[m].up = 1)
      BY <2>1, KindsOfReads DEF IsOldSide
    <2>3. Len(got[m]) = 1 /\ Len(got[n]) = 1
      BY <2>1, <2>2 DEF GotOK, n
    <2>4. got[m][1] \in Seq(Entry) /\ got[n][1] \in Seq(Entry)
      BY <2>1, <2>3, GotElements DEF n
    <2>5. Behind(n, got[n][1])
      <3>1. got[n] # <<>>
        BY <2>3
      <3> QED  BY <2>1, <3>1 DEF GotOK, n
    <2>6. Precedes(got[m][1], got[n][1])
      BY <2>1, <2>3, <2>5 DEF Behind
    <2>7. plan[m].kind = "at" => Len(got[m][1]) + 1 <= Len(got[n][1])
      BY <2>1, <2>2, <2>5 DEF Behind
    <2>8. OldSide = got[m][1] /\ NewSide = got[n][1] /\ Len(plan) - 1 = m
      BY <2>1 DEF OldSide, NewSide, m, n
    <2>9. ASSUME plan[m].kind = "at" PROVE got[m][1] # got[n][1]
      <3>1. Len(got[m][1]) \in Nat
        BY <2>4
      <3> QED  BY <2>7, <2>9, <3>1
    <2> QED  BY <2>4, <2>6, <2>8, <2>9, PrecedesIsAncestor
  <1> QED  BY <1>1, FollowInvariant, PTL

\* Under the same conditions a walk that finds a HEAD lists every commit created
\* before the command began, as far back as its limit goes.
THEOREM LogsAreComplete ==
    ASSUME NEW w, Committers = {w}, "refwrite" \notin FailurePoints
    PROVE  RSpec => []LogIsComplete
  <1>1. Ground /\ ReaderInv /\ FollowOK => LogIsComplete
    <2> SUFFICES ASSUME Ground, ReaderInv, FollowOK, cmd = "log", outcome = "ok",
                        got[1] # <<>>, NEW c \in seen
                 PROVE  \/ \E i \in 1 .. Len(got[1]) : got[1][i] = c
                        \/ /\ Len(got[1]) = plan[1].limit
                           /\ Len(c) < Len(got[1][plan[1].limit])
      BY DEF LogIsComplete
    <2> DEFINE h == got[1]
    <2>1. Len(got) = 1 /\ GotOK /\ plan[1].kind = "walk"
      BY PositionsOf DEF Follows
    <2>2. 1 \in 1 .. Len(got)
      BY <2>1
    <2>3. /\ Lined(h, h[1]) /\ (Len(h) = Len(h[1]) \/ Len(h) = plan[1].limit)
          /\ Precedes(c, h[1])
      BY <2>1, <2>2 DEF GotOK
    <2>4. h \in Seq(Saved) /\ Len(h) \in Nat
      BY <2>2, GotElements
    <2>5. Len(h) > 0 /\ h[1] \in Seq(Entry)
      <3>1. Len(h) # 0
        BY <2>4, EmptySeq
      <3>2. 1 \in 1 .. Len(h)
        BY <2>4, <3>1
      <3> QED  BY <2>2, <2>4, <3>1, <3>2, GotElements
    <2>6. c \in Seq(Entry) /\ Len(c) > 0
      BY SavedOnDisk, SavedIsLong DEF ReaderInv, ReaderTypeOK
    <2> HIDE DEF h
    <2>7. /\ Len(h) = Len(h[1]) => \E i \in 1 .. Len(h) : h[i] = c
          /\ (\E i \in 1 .. Len(h) : h[i] = c) \/ (Len(h) > 0 => Len(c) < Len(h[Len(h)]))
      BY <2>3, <2>4, <2>5, <2>6, PlaceInWalk
    <2>8. (\E i \in 1 .. Len(h) : h[i] = c)
            \/ (Len(h) = plan[1].limit /\ Len(c) < Len(h[plan[1].limit]))
      BY <2>3, <2>5, <2>7
    <2> QED  BY <2>8 DEF h
  <1> QED  BY <1>1, FollowInvariant, PTL

\* `dbsnap report` only goes on to a diff with HEAD~1 when the history it read first
\* has two commits, and HEAD never goes back: HEAD~1 is there.
THEOREM ReportsInRange ==
    ASSUME NEW w, Committers = {w}, "refwrite" \notin FailurePoints
    PROVE  RSpec => []ReportInRange
  <1>1. FollowOK => ReportInRange
    BY DEF FollowOK, Follows, ReportOK, ReportInRange
  <1> QED  BY <1>1, FollowInvariant, PTL

\* The sections of a report, each from a HEAD of its own, never go back.
THEOREM ReportsGoForward ==
    ASSUME NEW w, Committers = {w}, "refwrite" \notin FailurePoints
    PROVE  RSpec => []ReportGoesForward
  <1>1. Ground /\ ReaderInv /\ FollowOK => ReportGoesForward
    <2> SUFFICES ASSUME Ground, ReaderInv, FollowOK, cmd = "report", outcome = "ok",
                        got[2] # <<>>
                 PROVE  /\ \A i \in 1 .. Len(got[1]) :
                             \E j \in 1 .. Len(got[2]) : got[2][j] = got[1][i]
                        /\ Len(got) = 4 => IsAncestor(got[2][1], NewSide)
      BY DEF ReportGoesForward
    <2> DEFINE h == got[2]
    <2>1. /\ GotOK /\ plan[2] = Check /\ (Len(got) = 2 \/ Len(got) = 4)
          /\ Len(got) = 4 => plan[4] = At(0)
      BY PositionsOf DEF Follows
    <2>2. 1 \in 1 .. Len(got) /\ 2 \in 1 .. Len(got) /\ 1 \in 1 .. 2 - 1 /\ 2 \in 1 .. 4 - 1
      BY <2>1
    <2>3. plan[2].kind = "check"
      BY <2>1, KindsOfReads
    <2>4. Lined(h, h[1]) /\ Len(h) = Len(h[1]) /\ Behind(2, h[1])
      BY <2>1, <2>2, <2>3 DEF GotOK
    <2>5. h \in Seq(Saved) /\ Len(h) \in Nat
      BY <2>2, GotElements
    <2>6. 1 \in 1 .. Len(h) /\ h[1] \in Seq(Entry)
      <3>1. Len(h) # 0
        BY <2>5, EmptySeq
      <3>2. 1 \in 1 .. Len(h)
        BY <2>5, <3>1
      <3> QED  BY <2>2, <3>2, GotElements
    <2>7. ASSUME NEW i \in 1 .. Len(got[1]) PROVE \E j \in 1 .. Len(h) : h[j] = got[1][i]
      <3>1. got[1][i] \in Saved /\ Precedes(got[1][i], h[1])
        BY <2>2, <2>4, <2>7, GotElements DEF Behind
      <3>2. got[1][i] \in Seq(Entry) /\ Len(got[1][i]) > 0
        BY <3>1, SavedIsLong
      <3> HIDE DEF h
      <3> QED  BY <2>4, <2>5, <2>6, <3>1, <3>2, PlaceInWalk
    <2>8. ASSUME Len(got) = 4 PROVE IsAncestor(h[1], NewSide)
      <3>1. 4 \in 1 .. Len(got) /\ plan[4] = At(0) /\ plan[4].kind = "at"
        BY <2>1, <2>8, KindsOfReads
      <3>2. Len(got[4]) = 1
        BY <2>1, <3>1 DEF GotOK
      <3>3. got[4] # <<>> /\ got[4][1] \in Seq(Entry)
        <4>1. got[4] # <<>> /\ 1 \in 1 .. Len(got[4])
          BY <3>2
        <4> QED  BY <3>1, <4>1, GotElements
      <3>4. Behind(4, got[4][1])
        BY <2>1, <3>1, <3>3 DEF GotOK
      <3>5. Precedes(h[1], got[4][1])
        BY <2>2, <2>6, <3>4 DEF Behind
      <3> QED  BY <2>6, <2>8, <3>3, <3>5, PrecedesIsAncestor DEF NewSide
    <2> QED  BY <2>7, <2>8
  <1> QED  BY <1>1, FollowInvariant, PTL
================================================================================
