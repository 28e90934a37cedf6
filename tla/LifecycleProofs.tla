---------------------------- MODULE LifecycleProofs ----------------------------
(***************************************************************************)
(* Proofs about Lifecycle, for any number of processes, directories and    *)
(* values, and inits cut off anywhere.                                     *)
(***************************************************************************)
EXTENDS Lifecycle, SequenceTheorems, FiniteSetTheorems, TLAPS

\* A command that has read nothing holds no Config.
LEMMA NoConfigs == NoConfig \notin Config
  BY LifecycleAssumptions DEF Config, NoConfig

\* What is left to make from the k-th directory on, and what is made before it.
From(k) == SubSeq(Layout, k, 5)
UpTo(k) == {Layout[i] : i \in 1 .. k - 1}
Whence  == 1 .. 6

LEMMA LayoutParts ==
    /\ From(1) = Layout /\ From(6) = <<>> /\ UpTo(1) = {}
    /\ UpTo(6) = Subdirectories \cup {".dbsnap"}
    /\ \A k \in Whence \ {6} :
         /\ From(k) # <<>> /\ Head(From(k)) = Layout[k] /\ Tail(From(k)) = From(k + 1)
         /\ UpTo(k + 1) = UpTo(k) \cup {Layout[k]}
         /\ Layout[k] \in UpTo(6) /\ (k # 1 => ".dbsnap" \in UpTo(k))
    /\ Layout[1] = ".dbsnap"
  <1> DEFINE Parts == {".dbsnap", "commits", "trees", "tables", "refs"}
  <1>1. Layout \in Seq(Parts) /\ Len(Layout) = 5
    BY SMT DEF Layout
  <1> HIDE DEF Parts
  <1>2. From(1) = Layout /\ From(6) = <<>>
    BY <1>1, SubSeqFull, SubSeqEmpty DEF From
  <1>3. UpTo(1) = {} /\ UpTo(6) = Subdirectories \cup {".dbsnap"} /\ Layout[1] = ".dbsnap"
    BY DEF UpTo, Layout, Subdirectories
  <1>4. ASSUME NEW k \in Whence \ {6}
        PROVE  /\ From(k) # <<>> /\ Head(From(k)) = Layout[k] /\ Tail(From(k)) = From(k + 1)
               /\ UpTo(k + 1) = UpTo(k) \cup {Layout[k]}
               /\ Layout[k] \in UpTo(6) /\ (k # 1 => ".dbsnap" \in UpTo(k))
    <2>1. k \in 1 .. 5
      BY DEF Whence
    <2>2. Head(From(k)) = Layout[k] /\ Tail(From(k)) = From(k + 1)
      BY <2>1, <1>1, HeadTailOfSubSeq DEF From
    <2>3. Len(From(k)) = 5 - k + 1
      BY <2>1, <1>1, SubSeqProperties DEF From
    <2>4. From(k) # <<>>
      BY <2>1, <2>3
    <2>5. UpTo(k + 1) = UpTo(k) \cup {Layout[k]}
      BY <2>1 DEF UpTo
    <2>6. Layout[k] \in UpTo(6) /\ (k # 1 => ".dbsnap" \in UpTo(k))
      BY <2>1, <1>3 DEF UpTo
    <2> QED  BY <2>2, <2>4, <2>5, <2>6
  <1> QED  BY <1>2, <1>3, <1>4

Rests == {From(k) : k \in Whence}

LEMMA RestTypes ==
    /\ Layout \in Rests /\ <<>> \in Rests
    /\ \A k \in Whence : From(k) \in Rests
    /\ \A r \in Rests : r # <<>> => \E k \in Whence \ {6} : r = From(k) /\ k + 1 \in Whence
  <1>1. \A k \in Whence : From(k) \in Rests
    BY DEF Rests
  <1>2. ASSUME NEW r \in Rests, r # <<>>
        PROVE  \E k \in Whence \ {6} : r = From(k) /\ k + 1 \in Whence
    <2>1. PICK k \in Whence : r = From(k)
      BY DEF Rests
    <2>2. k # 6
      BY <2>1, <1>2, LayoutParts
    <2>3. k + 1 \in Whence
      BY <2>2 DEF Whence
    <2> QED  BY <2>1, <2>2, <2>3
  <1>3. 1 \in Whence /\ 6 \in Whence
    BY DEF Whence
  <1> QED  BY <1>1, <1>2, <1>3, LayoutParts
-------------------------------------------------------------------------------
(* Types.  A command past its first steps holds a Config.                     *)

CfgOK(p) == pc[p] \in {"check", "make", "write", "opened"} => cfg[p] \in Config

TypeInv ==
    /\ LifecycleTypeOK
    /\ rest \in [Processes -> Rests]
    /\ \A p \in Processes : CfgOK(p)

\* Any step of process p.
Step(p) ==
    \/ BeginInit(p) \/ BeginCommand(p) \/ CutOff(p)
    \/ RefuseExisting(p) \/ FindAbsent(p) \/ MakeDirectory(p)
    \/ OpenConfig(p) \/ WriteConfig(p)
    \/ LookFurtherUp(p) \/ FindNothing(p) \/ FindConfig(p)
    \/ ReadConfig(p) \/ ConfigUnreadable(p) \/ Offline(p) \/ Connect(p)

LEMMA Steps == Next => \E p \in Processes : Step(p)
  BY DEF Next, Proceed, Step

\* The texts that are in a file, whole or in part.
Texts(text) == {text[i] : i \in DOMAIN text}

\* What is written over config.toml is there from the start, and behind it are
\* texts that were there before, if any.
LEMMA OverwrittenIs ==
    ASSUME NEW text \in Seq(Config), NEW c \in Config
    PROVE  /\ Overwritten(text, c) \in Seq(Config)
           /\ Overwritten(text, c) # <<>>
           /\ Texts(Overwritten(text, c)) \subseteq Texts(text) \cup {c}
           /\ text = <<>> => Overwritten(text, c) = <<c>>
  <1> DEFINE Covered == {i \in DOMAIN text : Size(text[i]) <= Size(c)}
             Tails == SubSeq(text, Cardinality(Covered) + 1, Len(text))
             All == Texts(text) \cup {c}
  <1>0. Overwritten(text, c) = <<c>> \o Tails
    BY DEF Overwritten
  <1>1. Cardinality(Covered) \in Nat
    <2>1. IsFiniteSet(1 .. Len(text)) /\ Covered \in SUBSET (1 .. Len(text))
      BY FS_Interval
    <2> QED  BY <2>1, FS_Subset, FS_CardinalityType
  <1> HIDE DEF Covered
  <1>2. \A i \in Cardinality(Covered) + 1 .. Len(text) : text[i] \in Texts(text)
    BY <1>1 DEF Texts
  <1>3. Tails \in Seq(Texts(text)) /\ (text = <<>> => Tails = <<>>)
    BY <1>1, <1>2, SubSeqProperties, SubSeqEmpty
  <1> HIDE DEF Tails
  <1>4. All \subseteq Config
    BY DEF Texts
  <1>5. <<c>> \in Seq(All) /\ Tails \in Seq(All)
    BY <1>3, SeqMonotonic
  <1> HIDE DEF All
  <1>6. Overwritten(text, c) \in Seq(All) /\ Len(Overwritten(text, c)) # 0
    BY <1>0, <1>5, ConcatProperties
  <1>7. Overwritten(text, c) \in Seq(Config)
    BY <1>4, <1>6, SeqMonotonic
  <1>8. Texts(Overwritten(text, c)) \subseteq All
    BY <1>6, ElementOfSeq DEF Texts
  <1>9. ASSUME text = <<>> PROVE Overwritten(text, c) = <<c>>
    BY <1>0, <1>3, <1>9
  <1> QED  BY <1>6, <1>7, <1>8, <1>9 DEF All

\* What can be read of a file: the schema and the connection string of texts that
\* are in it, of the same one when there is only one.
LEMMA ParsedIs ==
    ASSUME NEW text \in Seq(Config), text # <<>>
    PROVE  /\ \E i, j \in DOMAIN text :
                 Parsed(text) = [schema |-> text[i].schema, url |-> text[j].url]
           /\ Len(text) = 1 => Readable(text) /\ Parsed(text) = text[1]
  <1> DEFINE Keys == {i \in WithUrl(text) : Missing(text, i) = 0}
  <1>1. 1 \in DOMAIN text /\ text[1] \in Config
    BY EmptySeq, ElementOfSeq
  <1>2. text[1].url # NoUrl => 1 \in Keys
    <2>1. Length(text[1].schema) \in Nat
      BY <1>1, LifecycleAssumptions DEF Config
    <2>2. FromUrl(text, 1) < 0
      BY <2>1 DEF FromUrl, Begins, SchemaLine
    <2> QED  BY <1>1, <2>2 DEF WithUrl, Missing
  <1>3. Keys \subseteq DOMAIN text
    BY DEF WithUrl
  <1>4. /\ Keys = {} => Parsed(text) = [schema |-> text[1].schema, url |-> NoUrl]
        /\ Keys # {} => Parsed(text) = [schema |-> text[1].schema,
                                        url |-> text[CHOOSE i \in Keys : TRUE].url]
    BY DEF Parsed
  <1> HIDE DEF Keys
  <1>5. CASE Keys = {}
    <2>1. Parsed(text) = [schema |-> text[1].schema, url |-> text[1].url]
      BY <1>2, <1>4, <1>5
    <2>2. Len(text) = 1 => Readable(text)
      <3>1. Len(text) = 1 => DOMAIN text = {1} /\ 2 .. Len(text) = {}
        OBVIOUS
      <3> QED  BY <3>1 DEF Readable, IsInjective, WithUrl
    <2> QED  BY <1>1, <2>1, <2>2 DEF Config
  <1>6. CASE Keys # {}
    <2>1. PICK j \in Keys : Parsed(text) = [schema |-> text[1].schema, url |-> text[j].url]
      <3>1. (CHOOSE i \in Keys : TRUE) \in Keys
        BY <1>6
      <3> QED  BY <1>4, <1>6, <3>1
    <2>2. Len(text) = 1 => Readable(text)
      <3>1. Len(text) = 1 => DOMAIN text = {1} /\ 2 .. Len(text) = {}
        OBVIOUS
      <3> QED  BY <3>1 DEF Readable, IsInjective, WithUrl
    <2>3. Len(text) = 1 => j = 1
      BY <1>3
    <2> QED  BY <1>1, <1>3, <2>1, <2>2, <2>3 DEF Config
  <1> QED  BY <1>5, <1>6

LEMMA ParsedType ==
    ASSUME NEW text \in Seq(Config), text # <<>> PROVE Parsed(text) \in Config
  <1>1. \A i \in DOMAIN text : text[i] \in Config
    BY ElementOfSeq
  <1>2. PICK i, j \in DOMAIN text :
             Parsed(text) = [schema |-> text[i].schema, url |-> text[j].url]
    BY ParsedIs
  <1>3. text[i] \in Config /\ text[j] \in Config
    BY <1>1
  <1> QED  BY <1>2, <1>3 DEF Config

\* DATABASE_URL or what is stored, a flag or a variable: one of the known strings.
LEMMA UrlTypes ==
    /\ \A flag \in Flags, e \in Environments : Stored(flag, e) \in Flags \cup Environments
    /\ \A c \in Config, e \in Environments : DatabaseUrl(c, e) \in Flags \cup Environments
    /\ \A c \in Config : c.url \in Flags \cup Environments
    /\ \A s \in Schemas, u \in Flags \cup Environments : [schema |-> s, url |-> u] \in Config
  BY DEF Stored, DatabaseUrl, Config

LEMMA TypeInit == Init => TypeInv
  <1> SUFFICES ASSUME Init PROVE TypeInv
    OBVIOUS
  <1>1. rest \in [Processes -> Rests]
    BY RestTypes DEF Init
  <1> QED
    BY <1>1, LifecycleAssumptions DEF Init, TypeInv, CfgOK, LifecycleTypeOK, Dirs, Outcomes, Places

\* Beginning a command, with the parts BeginInit and BeginCommand share.
LEMMA TypeBegin ==
    ASSUME TypeInv, NEW p \in Processes, BeginInit(p) \/ BeginCommand(p)
    PROVE  TypeInv'
  <1> USE DEF TypeInv, LifecycleTypeOK, CfgOK
  <1>1. ASSUME NEW d \in Dirs, NEW e \in Environments, NEW known \in SUBSET Dirs,
               Begin(p, d, e, known)
        PROVE  /\ start' \in [Processes -> Dirs] /\ env' \in [Processes -> Environments]
               /\ before' \in [Processes -> SUBSET Dirs]
               /\ outcome' \in [Processes -> Outcomes]
               /\ url' \in [Processes -> Flags \cup Environments]
               /\ calls' \in 0 .. MaxCalls /\ pc[p] = "idle"
               /\ UNCHANGED <<made, config, rest, given, cutAt, overlapped>>
    <2>1. "none" \in Outcomes /\ NoUrl \in Flags \cup Environments
      BY LifecycleAssumptions DEF Outcomes
    <2>2. calls' \in 0 .. MaxCalls
      BY <1>1, LifecycleAssumptions DEF Begin
    <2> QED  BY <1>1, <2>1, <2>2, Zenon DEF Begin, disk, ghost
  <1>2. CASE BeginInit(p)
    <2> PICK d \in Dirs, s \in Schemas, flag \in Flags, e \in Environments :
               /\ Begin(p, d, NoUrl, {}) /\ dir' = [dir EXCEPT ![p] = d] /\ GoTo(p, "check")
               /\ cfg' = [cfg EXCEPT ![p] = [schema |-> s, url |-> Stored(flag, e)]]
      BY <1>2 DEF BeginInit
    <2>1. [schema |-> s, url |-> Stored(flag, e)] \in Config
      BY UrlTypes
    <2>2. NoUrl \in Environments /\ {} \in SUBSET Dirs
      BY LifecycleAssumptions
    <2>3. pc' = [pc EXCEPT ![p] = "check"] /\ pc' \in [Processes -> Places]
      BY DEF GoTo, Places
    <2>4. cfg' \in [Processes -> Config \cup {NoConfig}] /\ dir' \in [Processes -> Dirs]
      BY <2>1
    <2>5. \A q \in Processes : CfgOK(q)'
      BY <2>1, <2>3
    <2>6. \A q \in Processes : rest'[q] # <<>> => pc'[q] = "make"
      BY <1>1, <2>2, <2>3
    <2>7. LifecycleTypeOK'
      BY <1>1, <2>2, <2>3, <2>4, <2>6, Zenon
    <2> QED  BY <1>1, <2>2, <2>5, <2>7
  <1>3. CASE BeginCommand(p)
    <2> PICK d \in Dirs, e \in Environments :
               /\ Begin(p, d, e, {x \in Dirs : Whole(x)})
               /\ dir' = [dir EXCEPT ![p] = d]
               /\ GoTo(p, "look") /\ UNCHANGED cfg
      BY <1>3 DEF BeginCommand, FirstLookedAt
    <2> QED  BY <1>1 DEF GoTo, Places
  <1> QED  BY <1>2, <1>3

\* The steps that end a command change what the process knows and its outcome.
LEMMA TypeEnd ==
    ASSUME TypeInv, NEW p \in Processes, NEW o \in Outcomes, End(p, o)
    PROVE  /\ pc' = [pc EXCEPT ![p] = "idle"] /\ pc' \in [Processes -> Places]
           /\ outcome' \in [Processes -> Outcomes]
           /\ rest' \in [Processes -> Rests]
           /\ \A q \in Processes : rest'[q] = IF q = p THEN <<>> ELSE rest[q]
           /\ cfg' \in [Processes -> Config \cup {NoConfig}]
           /\ \A q \in Processes \ {p} : cfg'[q] = cfg[q]
  BY RestTypes DEF End, GoTo, TypeInv, LifecycleTypeOK, Places

\* What such a step does not touch keeps its type.
LEMMA TypeEndFrame ==
    ASSUME TypeInv, NEW p \in Processes, NEW o \in Outcomes, End(p, o),
           UNCHANGED <<made, dir, env, start, before, overlapped, calls>>,
           config' \in [Dirs -> Seq(Config)],
           given' \in [Dirs -> Seq(Config)], cutAt' \subseteq Dirs,
           url' \in [Processes -> Flags \cup Environments]
    PROVE  TypeInv'
  <1>1. \A q \in Processes : CfgOK(q)'
    BY TypeEnd DEF TypeInv, CfgOK, LifecycleTypeOK
  <1>2. \A q \in Processes : rest'[q] # <<>> => pc'[q] = "make"
    BY TypeEnd DEF TypeInv, LifecycleTypeOK
  <1>3. LifecycleTypeOK'
    BY <1>2, TypeEnd, Zenon DEF TypeInv, LifecycleTypeOK
  <1> QED  BY <1>1, <1>3, TypeEnd DEF TypeInv

LEMMA TypeEndings ==
    ASSUME TypeInv, NEW p \in Processes,
           \/ RefuseExisting(p) \/ CutOff(p) \/ FindNothing(p) \/ ConfigUnreadable(p)
           \/ Offline(p) \/ Connect(p) \/ WriteConfig(p)
    PROVE  TypeInv'
  <1>0. /\ config \in [Dirs -> Seq(Config)]
        /\ given \in [Dirs -> Seq(Config)] /\ cutAt \subseteq Dirs
        /\ url \in [Processes -> Flags \cup Environments]
        /\ env \in [Processes -> Environments] /\ dir \in [Processes -> Dirs]
        /\ pc[p] \in {"write", "opened"} => cfg[p] \in Config
    BY DEF TypeInv, LifecycleTypeOK, CfgOK
  <1>1. CASE RefuseExisting(p) \/ FindNothing(p) \/ ConfigUnreadable(p) \/ Offline(p)
    <2>1. PICK o \in Outcomes : End(p, o)
      BY <1>1 DEF RefuseExisting, FindNothing, ConfigUnreadable, Offline, Outcomes
    <2>2. UNCHANGED <<made, config, dir, env, start, before, url, given, cutAt, overlapped, calls>>
      BY <1>1 DEF RefuseExisting, FindNothing, ConfigUnreadable, Offline, disk, ghost
    <2> QED  BY <1>0, <2>1, <2>2, TypeEndFrame
  <1>2. CASE CutOff(p)
    <2>1. End(p, "cut off") /\ cutAt' = cutAt \cup {dir[p]} /\ "cut off" \in Outcomes
      BY <1>2 DEF CutOff, Outcomes
    <2>2. UNCHANGED <<made, config, dir, env, start, before, url, given, overlapped, calls>>
      BY <1>2 DEF CutOff, disk
    <2> QED  BY <1>0, <2>1, <2>2, TypeEndFrame
  <1>3. CASE Connect(p)
    <2>1. PICK o \in Outcomes : End(p, o)
      BY <1>3 DEF Connect, Outcomes
    <2>2. UNCHANGED <<made, config, dir, env, start, before, given, cutAt, overlapped, calls>>
      BY <1>3 DEF Connect, disk, ghost
    <2>3. url' \in [Processes -> Flags \cup Environments]
      BY <1>0, <1>3, UrlTypes DEF Connect
    <2> QED  BY <1>0, <2>1, <2>2, <2>3, TypeEndFrame
  <1>4. CASE WriteConfig(p)
    <2>1. End(p, "initialized") /\ "initialized" \in Outcomes
      BY <1>4 DEF WriteConfig, Outcomes
    <2>2. UNCHANGED <<made, dir, env, start, before, url, cutAt, overlapped, calls>>
      BY <1>4 DEF WriteConfig
    <2>3. cfg[p] \in Config /\ dir[p] \in Dirs
      BY <1>0, <1>4 DEF WriteConfig
    <2>4. config' \in [Dirs -> Seq(Config)]
      <3>1. config' = [config EXCEPT ![dir[p]] = Overwritten(config[dir[p]], cfg[p])]
        BY <1>4 DEF WriteConfig
      <3>2. Overwritten(config[dir[p]], cfg[p]) \in Seq(Config)
        BY <1>0, <2>3, OverwrittenIs
      <3> QED  BY <1>0, <3>1, <3>2
    <2>5. given' \in [Dirs -> Seq(Config)]
      BY <1>0, <1>4, <2>3 DEF WriteConfig
    <2> QED  BY <1>0, <2>1, <2>2, <2>4, <2>5, TypeEndFrame
  <1> QED  BY <1>1, <1>2, <1>3, <1>4

LEMMA TypeSteps ==
    ASSUME TypeInv, NEW p \in Processes,
           \/ FindAbsent(p) \/ MakeDirectory(p) \/ OpenConfig(p)
           \/ LookFurtherUp(p) \/ FindConfig(p) \/ ReadConfig(p)
    PROVE  TypeInv'
  <1> USE DEF TypeInv, LifecycleTypeOK, CfgOK
  <1>1. CASE FindAbsent(p)
    <2>1. /\ pc[p] = "check" /\ pc' = [pc EXCEPT ![p] = "make"]
          /\ rest' = [rest EXCEPT ![p] = Layout] /\ overlapped' \subseteq Dirs
          /\ UNCHANGED <<disk, dir, cfg, env, start, before, outcome, url, given, cutAt, calls>>
      BY <1>1 DEF FindAbsent, GoTo
    <2>2. rest' \in [Processes -> Rests] /\ pc' \in [Processes -> Places]
      BY <2>1, RestTypes DEF Places
    <2> QED  BY <2>1, <2>2 DEF disk
  <1>2. CASE MakeDirectory(p)
    <2>1. PICK k \in Whence \ {6} : rest[p] = From(k) /\ k + 1 \in Whence
      BY <1>2, RestTypes DEF MakeDirectory
    <2>2. Head(rest[p]) \in Subdirectories \cup {".dbsnap"} /\ Tail(rest[p]) \in Rests
      <3>1. Head(From(k)) = Layout[k] /\ Layout[k] \in UpTo(6) /\ Tail(From(k)) = From(k + 1)
        BY <2>1, LayoutParts
      <3>2. UpTo(6) = Subdirectories \cup {".dbsnap"} /\ From(k + 1) \in Rests
        BY <2>1, LayoutParts, RestTypes
      <3> QED  BY <2>1, <3>1, <3>2, Zenon
    <2>3. /\ pc[p] = "make" /\ rest' = [rest EXCEPT ![p] = Tail(rest[p])]
          /\ made' = [made EXCEPT ![dir[p]] = made[dir[p]] \cup {Head(rest[p])}]
          /\ UNCHANGED <<config, pc, dir, cfg, env, start, before, outcome, url, ghost, calls>>
      BY <1>2 DEF MakeDirectory
    <2> QED  BY <2>2, <2>3 DEF ghost
  <1>3. CASE OpenConfig(p)
    <2>1. <<>> \in Seq(Config)
      BY EmptySeq
    <2> QED  BY <1>3, <2>1 DEF OpenConfig, GoTo, local, ghost, Places
  <1>4. CASE LookFurtherUp(p)
    <2>1. dir[p] \in Dirs /\ dir[p] # 0 => dir[p] - 1 \in Dirs
      BY LifecycleAssumptions DEF Dirs
    <2> QED  BY <1>4, <2>1 DEF LookFurtherUp, ParentOf, disk, ghost
  <1>5. CASE FindConfig(p)
    BY <1>5 DEF FindConfig, GoTo, disk, local, ghost, Places
  <1>6. CASE ReadConfig(p)
    <2>1. config[dir[p]] \in Seq(Config) /\ config[dir[p]] # <<>>
      BY <1>6 DEF ReadConfig, Whole, Readable
    <2>2. Parsed(config[dir[p]]) \in Config
      BY <2>1, ParsedType
    <2> QED  BY <1>6, <2>2 DEF ReadConfig, GoTo, disk, ghost, Places
  <1> QED  BY <1>1, <1>2, <1>3, <1>4, <1>5, <1>6

LEMMA TypeInvariant == Spec => []TypeInv
  <1>1. TypeInv /\ [Next]_vars => TypeInv'
    <2> SUFFICES ASSUME TypeInv, [Next]_vars PROVE TypeInv'
      OBVIOUS
    <2>1. CASE Next
      BY <2>1, Steps, TypeBegin, TypeEndings, TypeSteps DEF Step
    <2>2. CASE UNCHANGED vars
      BY <2>2 DEF vars, disk, local, ghost, TypeInv, LifecycleTypeOK, CfgOK
    <2> QED  BY <2>1, <2>2
  <1> QED  BY <1>1, TypeInit, PTL DEF Spec

\* LifecycleTypeOK is an invariant: every command that is past its first steps
\* holds a Config, so what it writes or connects to has the right type.
THEOREM LifecycleTypes == Spec => []LifecycleTypeOK
  <1>1. TypeInv => LifecycleTypeOK
    BY DEF TypeInv
  <1> QED  BY <1>1, TypeInvariant, PTL
-------------------------------------------------------------------------------
(* What a step of one process leaves to the others.                           *)

LEMMA OthersStay ==
    ASSUME TypeInv, NEW p \in Processes, Step(p), NEW q \in Processes, q # p
    PROVE  /\ pc'[q] = pc[q] /\ dir'[q] = dir[q] /\ rest'[q] = rest[q] /\ cfg'[q] = cfg[q]
           /\ env'[q] = env[q] /\ start'[q] = start[q] /\ before'[q] = before[q]
           /\ outcome'[q] = outcome[q] /\ url'[q] = url[q]
  <1> USE DEF TypeInv, LifecycleTypeOK, GoTo
  <1>1. CASE BeginInit(p)
    BY <1>1, Zenon DEF BeginInit, Begin
  <1>2. CASE BeginCommand(p)
    BY <1>2, Zenon DEF BeginCommand, Begin
  <1>3. CASE CutOff(p) \/ RefuseExisting(p) \/ FindNothing(p) \/ ConfigUnreadable(p)
              \/ Offline(p)
    BY <1>3 DEF CutOff, RefuseExisting, FindNothing, ConfigUnreadable, Offline, End
  <1>4. CASE Connect(p)
    BY <1>4, Zenon DEF Connect, End
  <1>5. CASE FindAbsent(p) \/ MakeDirectory(p) \/ OpenConfig(p)
    BY <1>5 DEF FindAbsent, MakeDirectory, OpenConfig, local
  <1>6. CASE WriteConfig(p)
    BY <1>6 DEF WriteConfig, End
  <1>7. CASE LookFurtherUp(p) \/ FindConfig(p) \/ ReadConfig(p)
    BY <1>7 DEF LookFurtherUp, FindConfig, ReadConfig, local
  <1> QED  BY <1>1, <1>2, <1>3, <1>4, <1>5, <1>6, <1>7 DEF Step

\* Only the four steps of an init touch the disk or its history.
LEMMA DiskStays ==
    ASSUME NEW p \in Processes, Step(p)
    PROVE  \/ UNCHANGED <<made, config, given>>
           \/ MakeDirectory(p) /\ UNCHANGED <<config, given>>
           \/ OpenConfig(p) /\ UNCHANGED given
           \/ WriteConfig(p) /\ UNCHANGED made
  <1>1. CASE BeginInit(p) \/ BeginCommand(p)
    BY <1>1 DEF BeginInit, BeginCommand, Begin, disk, ghost
  <1>2. CASE CutOff(p) \/ RefuseExisting(p) \/ FindNothing(p) \/ ConfigUnreadable(p)
              \/ Offline(p) \/ Connect(p)
    BY <1>2 DEF CutOff, RefuseExisting, FindNothing, ConfigUnreadable, Offline, Connect,
                disk, ghost
  <1>3. CASE FindAbsent(p) \/ LookFurtherUp(p) \/ FindConfig(p) \/ ReadConfig(p)
    BY <1>3 DEF FindAbsent, LookFurtherUp, FindConfig, ReadConfig, disk, ghost
  <1>4. CASE MakeDirectory(p)
    BY <1>4 DEF MakeDirectory, ghost
  <1>5. CASE OpenConfig(p)
    BY <1>5 DEF OpenConfig, ghost
  <1>6. CASE WriteConfig(p)
    BY <1>6 DEF WriteConfig
  <1> QED  BY <1>1, <1>2, <1>3, <1>4, <1>5, <1>6 DEF Step

\* What WriteConfig does to a directory.
LEMMA WriteConfigDoes ==
    ASSUME TypeInv, NEW p \in Processes, WriteConfig(p)
    PROVE  /\ cfg[p] \in Config /\ dir[p] \in Dirs
           /\ config'[dir[p]] = Overwritten(config[dir[p]], cfg[p])
           /\ config'[dir[p]] \in Seq(Config) /\ config'[dir[p]] # <<>>
           /\ Texts(config'[dir[p]]) \subseteq Texts(config[dir[p]]) \cup {cfg[p]}
           /\ config[dir[p]] = <<>> => config'[dir[p]] = <<cfg[p]>>
           /\ given'[dir[p]] = Append(given[dir[p]], cfg[p])
           /\ \A d \in Dirs : d # dir[p] => config'[d] = config[d] /\ given'[d] = given[d]
  <1>1. /\ pc[p] = "write" /\ cfg[p] \in Config /\ dir[p] \in Dirs
        /\ given \in [Dirs -> Seq(Config)]
        /\ config \in [Dirs -> Seq(Config)]
    BY DEF TypeInv, LifecycleTypeOK, CfgOK, WriteConfig
  <1>2. config' = [config EXCEPT ![dir[p]] = Overwritten(config[dir[p]], cfg[p])]
    BY DEF WriteConfig
  <1>3. config[dir[p]] \in Seq(Config)
    BY <1>1
  <1>4. given' = [given EXCEPT ![dir[p]] = Append(given[dir[p]], cfg[p])]
    BY DEF WriteConfig
  <1> QED  BY <1>1, <1>2, <1>3, <1>4, OverwrittenIs

\* And OpenConfig.
LEMMA OpenConfigDoes ==
    ASSUME TypeInv, NEW p \in Processes, OpenConfig(p)
    PROVE  /\ dir[p] \in Dirs /\ config'[dir[p]] = <<>>
           /\ made'[dir[p]] = made[dir[p]] \cup {"config.toml"}
           /\ \A d \in Dirs : d # dir[p] => config'[d] = config[d] /\ made'[d] = made[d]
  BY DEF TypeInv, LifecycleTypeOK, OpenConfig

\* What is on disk stays: directories, the file, and who was told so.
LEMMA DiskGrows ==
    ASSUME TypeInv, NEW p \in Processes, Step(p), NEW d \in Dirs
    PROVE  /\ made[d] \subseteq made'[d]
           /\ \A i \in DOMAIN given[d] : i \in DOMAIN given'[d] /\ given'[d][i] = given[d][i]
  <1>0. /\ made \in [Dirs -> SUBSET (Subdirectories \cup {".dbsnap", "config.toml"})]
        /\ config \in [Dirs -> Seq(Config)]
        /\ given \in [Dirs -> Seq(Config)]
    BY DEF TypeInv, LifecycleTypeOK
  <1>1. CASE UNCHANGED <<made, config, given>>
    BY <1>1
  <1>2. CASE MakeDirectory(p) /\ UNCHANGED <<config, given>>
    BY <1>0, <1>2 DEF MakeDirectory
  <1>3. CASE OpenConfig(p) /\ UNCHANGED given
    BY <1>0, <1>3 DEF OpenConfig
  <1>4. CASE WriteConfig(p) /\ UNCHANGED made
    <2>1. \A i \in DOMAIN given[d] : i \in DOMAIN given'[d] /\ given'[d][i] = given[d][i]
      <3>1. CASE d = dir[p]
        <4>1. /\ given[d] \in Seq(Config) /\ cfg[p] \in Config
              /\ given'[d] = Append(given[d], cfg[p])
          BY <1>0, <1>4, <3>1, WriteConfigDoes
        <4> QED  BY <4>1
      <3>2. CASE d # dir[p]
        BY <1>4, <3>2, WriteConfigDoes
      <3> QED  BY <3>1, <3>2
    <2> QED  BY <1>4, <2>1
  <1> QED  BY <1>1, <1>2, <1>3, <1>4, DiskStays
-------------------------------------------------------------------------------
(* The layout.  An init at work has made what is not left to make.            *)

InitOK(p) ==
    /\ pc[p] = "make" =>
          \E k \in Whence : rest[p] = From(k) /\ UpTo(k) \subseteq made[dir[p]]
    /\ pc[p] = "write" => UpTo(6) \cup {"config.toml"} \subseteq made[dir[p]]

LayoutOK(d) ==
    /\ HasConfigFile(d) => UpTo(6) \subseteq made[d]
    /\ given[d] # <<>> \/ config[d] # <<>> => HasConfigFile(d)
    /\ made[d] # {} => Exists(d)

LayoutInv ==
    /\ \A p \in Processes : InitOK(p)
    /\ \A d \in Dirs : LayoutOK(d)

LEMMA LayoutInit == Init => LayoutInv
  BY DEF Init, LayoutInv, InitOK, LayoutOK, HasConfigFile

LEMMA MakeDirectoryDoes ==
    ASSUME TypeInv, LayoutInv, NEW p \in Processes, MakeDirectory(p)
    PROVE  /\ pc[p] = "make" /\ pc' = pc /\ dir' = dir
           /\ \E k \in Whence : rest'[p] = From(k) /\ UpTo(k) \subseteq made'[dir[p]]
           /\ Exists(dir[p])'
           /\ \A d \in Dirs : HasConfigFile(d)' => HasConfigFile(d)
           /\ \A d \in Dirs : d # dir[p] => made'[d] = made[d]
  <1>1. /\ pc[p] = "make" /\ rest[p] # <<>> /\ rest'[p] = Tail(rest[p])
        /\ made'[dir[p]] = made[dir[p]] \cup {Head(rest[p])} /\ pc' = pc /\ dir' = dir
        /\ \A d \in Dirs : d # dir[p] => made'[d] = made[d]
    BY DEF MakeDirectory, TypeInv, LifecycleTypeOK
  <1>2. PICK k \in Whence : rest[p] = From(k) /\ UpTo(k) \subseteq made[dir[p]]
    BY <1>1 DEF LayoutInv, InitOK
  <1>3. k \in Whence \ {6}
    BY <1>1, <1>2, LayoutParts
  <1>4. k + 1 \in Whence
    BY <1>3 DEF Whence
  <1>5. rest'[p] = From(k + 1) /\ UpTo(k + 1) \subseteq made'[dir[p]]
    BY <1>1, <1>2, <1>3, LayoutParts
  <1>6. ".dbsnap" \in made'[dir[p]]
    <2>1. CASE k = 1
      BY <1>1, <1>2, <1>3, <2>1, LayoutParts
    <2>2. CASE k # 1
      BY <1>1, <1>2, <1>3, <2>2, LayoutParts
    <2> QED  BY <2>1, <2>2
  <1>7. Head(rest[p]) # "config.toml"
    <2>1. Head(rest[p]) = Layout[k] /\ Layout[k] \in UpTo(6)
      BY <1>2, <1>3, LayoutParts
    <2>2. "config.toml" \notin UpTo(6)
      BY LayoutParts DEF Subdirectories
    <2> QED  BY <2>1, <2>2
  <1>8. \A d \in Dirs : HasConfigFile(d)' => HasConfigFile(d)
    BY <1>1, <1>7 DEF HasConfigFile
  <1> QED  BY <1>1, <1>4, <1>5, <1>6, <1>8 DEF Exists

\* The initialising process itself.
LEMMA InitStep ==
    ASSUME TypeInv, LayoutInv, NEW p \in Processes, Step(p)
    PROVE  InitOK(p)'
  <1> USE DEF GoTo
  <1>0. pc \in [Processes -> Places] /\ rest \in [Processes -> Rests] /\ dir \in [Processes -> Dirs]
    BY DEF TypeInv, LifecycleTypeOK
  <1>1. CASE BeginInit(p) \/ BeginCommand(p)
    <2>1. pc'[p] \in {"check", "look"}
      BY <1>0, <1>1 DEF BeginInit, BeginCommand
    <2> QED  BY <2>1 DEF InitOK
  <1>2. CASE \/ CutOff(p) \/ RefuseExisting(p) \/ FindNothing(p) \/ ConfigUnreadable(p)
             \/ Offline(p) \/ Connect(p) \/ WriteConfig(p)
    <2>1. pc'[p] = "idle"
      BY <1>0, <1>2 DEF CutOff, RefuseExisting, FindNothing, ConfigUnreadable, Offline,
                        Connect, WriteConfig, End
    <2> QED  BY <2>1 DEF InitOK
  <1>3. CASE LookFurtherUp(p) \/ FindConfig(p) \/ ReadConfig(p)
    <2>1. pc'[p] \in {"look", "read", "opened"}
      BY <1>0, <1>3 DEF LookFurtherUp, FindConfig, ReadConfig
    <2> QED  BY <2>1 DEF InitOK
  <1>4. CASE FindAbsent(p)
    <2>1. pc'[p] = "make" /\ rest'[p] = Layout
      BY <1>0, <1>4 DEF FindAbsent
    <2>2. 1 \in Whence
      BY DEF Whence
    <2> QED  BY <2>1, <2>2, LayoutParts DEF InitOK
  <1>5. CASE MakeDirectory(p)
    BY <1>5, MakeDirectoryDoes DEF InitOK
  <1>6. CASE OpenConfig(p)
    <2>1. /\ pc[p] = "make" /\ rest[p] = <<>> /\ pc'[p] = "write" /\ dir' = dir
          /\ made'[dir[p]] = made[dir[p]] \cup {"config.toml"}
      BY <1>0, <1>6, OpenConfigDoes DEF OpenConfig, local
    <2>3. PICK k \in Whence : rest[p] = From(k) /\ UpTo(k) \subseteq made[dir[p]]
      BY <2>1 DEF LayoutInv, InitOK
    <2>4. k = 6
      BY <2>1, <2>3, LayoutParts
    <2> QED  BY <2>1, <2>3, <2>4 DEF InitOK
  <1> QED  BY <1>1, <1>2, <1>3, <1>4, <1>5, <1>6 DEF Step

LEMMA LayoutStep ==
    ASSUME TypeInv, LayoutInv, NEW p \in Processes, Step(p)
    PROVE  LayoutInv'
  <1>1. ASSUME NEW q \in Processes, q # p PROVE InitOK(q)'
    <2>1. InitOK(q) /\ dir[q] \in Dirs
      BY DEF LayoutInv, TypeInv, LifecycleTypeOK
    <2>2. pc'[q] = pc[q] /\ dir'[q] = dir[q] /\ rest'[q] = rest[q]
      BY <1>1, OthersStay
    <2>3. made[dir[q]] \subseteq made'[dir[q]]
      BY <2>1, DiskGrows
    <2> QED  BY <2>1, <2>2, <2>3 DEF InitOK
  <1>2. ASSUME NEW d \in Dirs PROVE LayoutOK(d)'
    <2>0. LayoutOK(d) /\ InitOK(p) /\ dir[p] \in Dirs
          /\ made[d] \subseteq made'[d] /\ (HasConfigFile(d) => HasConfigFile(d)')
      BY <1>2, DiskGrows DEF LayoutInv, TypeInv, LifecycleTypeOK, HasConfigFile
    <2>1. CASE UNCHANGED <<made, config, given>>
      BY <2>0, <2>1 DEF LayoutOK, HasConfigFile, Exists
    <2>2. CASE MakeDirectory(p) /\ UNCHANGED <<config, given>>
      BY <2>0, <2>2, MakeDirectoryDoes DEF LayoutOK, HasConfigFile, Exists
    <2>3. CASE OpenConfig(p) /\ UNCHANGED given
      <3>1. CASE d = dir[p]
        <4>1. pc'[p] = "write" /\ dir' = dir
          BY <2>3 DEF OpenConfig, GoTo, local, TypeInv, LifecycleTypeOK
        <4>2. UpTo(6) \cup {"config.toml"} \subseteq made'[d]
          BY <3>1, <4>1, InitStep DEF InitOK
        <4>3. ".dbsnap" \in UpTo(6)
          BY LayoutParts
        <4> QED  BY <4>2, <4>3 DEF LayoutOK, HasConfigFile, Exists
      <3>2. CASE d # dir[p]
        BY <2>0, <2>3, <3>2, OpenConfigDoes DEF LayoutOK, HasConfigFile, Exists
      <3> QED  BY <3>1, <3>2
    <2>4. CASE WriteConfig(p) /\ UNCHANGED made
      <3>1. CASE d = dir[p]
        <4>1. UpTo(6) \cup {"config.toml"} \subseteq made[d]
          BY <2>0, <2>4, <3>1 DEF InitOK, WriteConfig
        <4> QED  BY <2>0, <2>4, <4>1 DEF LayoutOK, HasConfigFile, Exists
      <3>2. CASE d # dir[p]
        BY <2>0, <2>4, <3>2, WriteConfigDoes DEF LayoutOK, HasConfigFile, Exists
      <3> QED  BY <3>1, <3>2
    <2> QED  BY <2>1, <2>2, <2>3, <2>4, DiskStays
  <1> QED  BY <1>1, <1>2, InitStep DEF LayoutInv

LEMMA LayoutInvariant == Spec => []LayoutInv
  <1>1. TypeInv /\ LayoutInv /\ [Next]_vars => LayoutInv'
    <2>1. CASE UNCHANGED vars
      BY <2>1 DEF vars, disk, local, ghost, LayoutInv, InitOK, LayoutOK, HasConfigFile, Exists
    <2> QED  BY <2>1, Steps, LayoutStep
  <1> QED  BY <1>1, LayoutInit, TypeInvariant, PTL DEF Spec

\* Whatever discover finds has the directories commit() writes to.  The file alone
\* is not inductive: what counts is that an init has made all that is not left to
\* make, and that no other one takes anything away.
THEOREM LayoutIsComplete == Spec => []LayoutBeforeConfig
  <1>1. LayoutInv => LayoutBeforeConfig
    BY LayoutParts DEF LayoutInv, LayoutOK, LayoutBeforeConfig
  <1> QED  BY <1>1, LayoutInvariant, PTL
-------------------------------------------------------------------------------
(* One init at a time.  While inits do not overlap, the one at work knows what *)
(* config.toml holds.                                                         *)

OneInit(d) ==
    d \notin overlapped =>
        /\ \A p, q \in InitsAt(d) : p = q
        /\ \A p \in InitsAt(d) :
             given[d] = <<>> /\ config[d] = <<>>
        /\ given[d] # <<>> => Len(given[d]) = 1 /\ config[d] = given[d]

LeftBehind(d) == HalfMade(d) => d \in cutAt \/ (d \in overlapped /\ Len(config[d]) > 1)

InitInv == \A d \in Dirs : OneInit(d) /\ LeftBehind(d)

\* Who is at work in a directory after a step of p, and what p is not part of.
LEMMA InitsAtStep ==
    ASSUME TypeInv, NEW p \in Processes, Step(p), NEW d \in Dirs
    PROVE  /\ p \notin InitsAt(d) => InitsAt(d)' \ {p} = InitsAt(d)
           /\ p \in InitsAt(d) => InitsAt(d)' \cup {p} = InitsAt(d)
           /\ \A q \in InitsAt(d) \ {p} : pc'[q] = pc[q]
           /\ p \in InitsAt(d)' => p \in InitsAt(d) \/ FindAbsent(p)
           /\ FindAbsent(p) => /\ p \notin InitsAt(d)
                               /\ p \in InitsAt(d)' <=> d = dir[p]
           /\ p \in InitsAt(d) => \/ CutOff(p) \/ WriteConfig(p)
                                  \/ (MakeDirectory(p) \/ OpenConfig(p)) /\ p \in InitsAt(d)'
           /\ CutOff(p) \/ WriteConfig(p) => p \notin InitsAt(d)'
           /\ MakeDirectory(p) \/ OpenConfig(p) \/ CutOff(p) \/ WriteConfig(p) =>
                 (p \in InitsAt(d) <=> d = dir[p])
  <1> USE DEF GoTo
  <1>0. pc \in [Processes -> Places] /\ dir \in [Processes -> Dirs]
    BY DEF TypeInv, LifecycleTypeOK
  <1> DEFINE Works == pc[p] \in {"make", "write"}
             WorksThen == pc'[p] \in {"make", "write"}
  <1>1. \A q \in Processes \ {p} : pc'[q] = pc[q] /\ dir'[q] = dir[q]
    BY OthersStay
  <1>2. \/ FindAbsent(p) /\ ~Works /\ WorksThen /\ dir' = dir
        \/ (MakeDirectory(p) \/ OpenConfig(p)) /\ Works /\ WorksThen /\ dir' = dir
        \/ (CutOff(p) \/ WriteConfig(p)) /\ Works /\ ~WorksThen
        \/ ~Works /\ ~WorksThen
    <2>1. CASE BeginInit(p) \/ BeginCommand(p)
      BY <1>0, <2>1 DEF BeginInit, BeginCommand, Begin
    <2>2. CASE RefuseExisting(p) \/ FindNothing(p) \/ ConfigUnreadable(p) \/ Offline(p)
               \/ Connect(p)
      BY <1>0, <2>2 DEF RefuseExisting, FindNothing, ConfigUnreadable, Offline, Connect, End
    <2>3. CASE CutOff(p) \/ WriteConfig(p)
      BY <1>0, <2>3 DEF CutOff, WriteConfig, End
    <2>4. CASE LookFurtherUp(p) \/ FindConfig(p) \/ ReadConfig(p)
      BY <1>0, <2>4 DEF LookFurtherUp, FindConfig, ReadConfig
    <2>5. CASE FindAbsent(p)
      BY <1>0, <2>5 DEF FindAbsent
    <2>6. CASE MakeDirectory(p) \/ OpenConfig(p)
      BY <1>0, <2>6 DEF MakeDirectory, OpenConfig, local
    <2> QED  BY <2>1, <2>2, <2>3, <2>4, <2>5, <2>6 DEF Step
  <1>3. /\ CutOff(p) \/ WriteConfig(p) => Works /\ ~WorksThen
        /\ MakeDirectory(p) \/ OpenConfig(p) => Works
        /\ FindAbsent(p) => ~Works /\ WorksThen
    BY <1>0 DEF CutOff, WriteConfig, MakeDirectory, OpenConfig, FindAbsent, End
  <1>4. /\ p \in InitsAt(d) <=> Works /\ dir[p] = d
        /\ p \in InitsAt(d)' <=> WorksThen /\ dir'[p] = d
        /\ \A q \in Processes \ {p} : q \in InitsAt(d)' <=> q \in InitsAt(d)
    BY <1>1 DEF InitsAt
  <1>5. InitsAt(d) \subseteq Processes /\ InitsAt(d)' \subseteq Processes
    BY DEF InitsAt
  <1> HIDE DEF Works, WorksThen
  <1> QED  BY <1>1, <1>2, <1>3, <1>4, <1>5

\* What the steps of an init do to the variables of OneInit and LeftBehind.
LEMMA InitVariables ==
    ASSUME NEW p \in Processes, Step(p)
    PROVE  /\ ~FindAbsent(p) => overlapped' = overlapped
           /\ ~CutOff(p) => cutAt' = cutAt
           /\ CutOff(p) => cutAt' = cutAt \cup {dir[p]}
           /\ FindAbsent(p) => /\ ~Exists(dir[p])
                               /\ overlapped' = IF InitsAt(dir[p]) = {} THEN overlapped
                                                ELSE overlapped \cup {dir[p]}
                               /\ UNCHANGED <<made, config, given>>
                               /\ pc[p] = "check" /\ pc' = [pc EXCEPT ![p] = "make"]
           /\ CutOff(p) => UNCHANGED <<made, config, given>>
  <1> USE DEF GoTo, disk, ghost
  <1>1. CASE BeginInit(p) \/ BeginCommand(p)
    BY <1>1 DEF BeginInit, BeginCommand, Begin, FindAbsent, CutOff
  <1>2. CASE RefuseExisting(p) \/ FindNothing(p) \/ ConfigUnreadable(p) \/ Offline(p)
               \/ Connect(p) \/ WriteConfig(p)
    BY <1>2 DEF RefuseExisting, FindNothing, ConfigUnreadable, Offline, Connect, WriteConfig,
                FindAbsent, CutOff
  <1>3. CASE LookFurtherUp(p) \/ FindConfig(p) \/ ReadConfig(p)
    BY <1>3 DEF LookFurtherUp, FindConfig, ReadConfig, FindAbsent, CutOff
  <1>4. CASE MakeDirectory(p) \/ OpenConfig(p)
    BY <1>4 DEF MakeDirectory, OpenConfig, FindAbsent, CutOff
  <1>5. CASE FindAbsent(p) \/ CutOff(p)
    BY <1>5 DEF FindAbsent, CutOff
  <1> QED  BY <1>1, <1>2, <1>3, <1>4, <1>5 DEF Step

LEMMA InitInvInit == Init => InitInv
  BY DEF Init, InitInv, OneInit, LeftBehind, HalfMade, InitsAt

\* A step that p takes in directory d as an init at work there, or begins there.
LEMMA InitInvStep ==
    ASSUME TypeInv, LayoutInv, InitInv, NEW p \in Processes, Step(p), NEW d \in Dirs
    PROVE  OneInit(d)' /\ LeftBehind(d)'
  <1>0. /\ OneInit(d) /\ LeftBehind(d) /\ LayoutOK(d) /\ InitOK(p)
        /\ dir[p] \in Dirs /\ pc \in [Processes -> Places]
        /\ config \in [Dirs -> Seq(Config)]
    BY DEF InitInv, LayoutInv, TypeInv, LifecycleTypeOK
  <1>1. InitsAt(d) \subseteq Processes /\ InitsAt(d)' \subseteq Processes
    BY DEF InitsAt
  <1>2. CASE d # dir[p] \/ (~FindAbsent(p) /\ p \notin InitsAt(d))
    <2>1. InitsAt(d)' = InitsAt(d) /\ p \notin InitsAt(d)
      BY <1>0, <1>1, <1>2, InitsAtStep DEF InitsAt
    <2>2. \A q \in InitsAt(d) : pc'[q] = pc[q]
      BY <2>1, InitsAtStep
    <2>3. config'[d] = config[d] /\ given'[d] = given[d]
      <3>1. CASE OpenConfig(p) /\ UNCHANGED given
        <4>1. d # dir[p]
          BY <1>2, <3>1, InitsAtStep
        <4> QED  BY <3>1, <4>1, OpenConfigDoes
      <3>2. CASE WriteConfig(p)
        <4>1. d # dir[p]
          BY <1>2, <3>2, InitsAtStep
        <4> QED  BY <3>2, <4>1, WriteConfigDoes
      <3> QED  BY <3>1, <3>2, DiskStays
    <2>4. (made[d] # {} <=> made'[d] # {}) \/ d = dir[p]
      <3>1. CASE MakeDirectory(p)
        BY <3>1, MakeDirectoryDoes
      <3>2. CASE OpenConfig(p)
        BY <3>2, OpenConfigDoes
      <3> QED  BY <3>1, <3>2, DiskStays
    <2>5. made[d] # {} <=> made'[d] # {}
      <3>1. ASSUME d = dir[p] PROVE made'[d] = made[d]
        <4>1. ~MakeDirectory(p) /\ ~OpenConfig(p)
          BY <1>2, <3>1, InitsAtStep
        <4> QED  BY <4>1, DiskStays
      <3> QED  BY <2>4, <3>1
    <2>6. (d \in overlapped <=> d \in overlapped') /\ (d \in cutAt => d \in cutAt')
      BY <1>2, InitVariables
    <2> QED
      BY <1>0, <2>1, <2>2, <2>3, <2>5, <2>6 DEF OneInit, LeftBehind, HalfMade, Whole
  <1>3. CASE d = dir[p] /\ FindAbsent(p)
    <2>1. /\ InitsAt(d)' = InitsAt(d) \cup {p} /\ p \notin InitsAt(d)
          /\ \A q \in InitsAt(d) : pc'[q] = pc[q]
      BY <1>1, <1>3, InitsAtStep
    <2>2. /\ ~Exists(d) /\ UNCHANGED <<made, config, given>> /\ pc'[p] = "make"
          /\ overlapped' = IF InitsAt(d) = {} THEN overlapped ELSE overlapped \cup {d}
      BY <1>0, <1>3, InitVariables
    <2>3. config[d] = <<>> /\ given[d] = <<>>
      BY <1>0, <2>2, LayoutParts DEF LayoutOK, HasConfigFile, Exists
    <2>4. OneInit(d)'
      <3>1. CASE InitsAt(d) = {}
        BY <2>1, <2>2, <2>3, <3>1 DEF OneInit
      <3>2. CASE InitsAt(d) # {}
        BY <2>2, <3>2 DEF OneInit
      <3> QED  BY <3>1, <3>2
    <2> QED  BY <2>1, <2>4 DEF LeftBehind, HalfMade
  <1>4. CASE d = dir[p] /\ MakeDirectory(p)
    <2>0. p \in InitsAt(d) /\ ~CutOff(p) /\ ~WriteConfig(p)
      BY <1>0, <1>4, InitsAtStep DEF MakeDirectory, CutOff, WriteConfig, End, GoTo
    <2>1. InitsAt(d)' = InitsAt(d) /\ pc' = pc
      <3>1. p \in InitsAt(d)' /\ InitsAt(d)' \cup {p} = InitsAt(d)
        BY <2>0, InitsAtStep
      <3> QED  BY <1>4, <3>1, MakeDirectoryDoes
    <2>2. UNCHANGED <<config, given, overlapped>>
      BY <1>4 DEF MakeDirectory, ghost
    <2> QED  BY <1>0, <2>0, <2>1, <2>2 DEF OneInit, LeftBehind, HalfMade
  <1>5. CASE d = dir[p] /\ OpenConfig(p)
    <2>0. p \in InitsAt(d) /\ ~CutOff(p) /\ ~WriteConfig(p)
      BY <1>0, <1>5, InitsAtStep DEF OpenConfig, CutOff, WriteConfig, End, GoTo, local
    <2>1. InitsAt(d)' = InitsAt(d) /\ p \in InitsAt(d)
      <3>1. p \in InitsAt(d)' /\ InitsAt(d)' \cup {p} = InitsAt(d)
        BY <2>0, InitsAtStep
      <3> QED  BY <2>0, <3>1
    <2>2. UNCHANGED <<given, overlapped>>
      BY <1>5 DEF OpenConfig, ghost
    <2>3. config'[d] = <<>>
      BY <1>5, OpenConfigDoes
    <2>4. OneInit(d)'
      <3> SUFFICES ASSUME d \notin overlapped
                   PROVE  /\ \A q \in InitsAt(d) : q = p
                          /\ given[d] = <<>>
        BY <2>1, <2>2, <2>3 DEF OneInit
      <3> QED  BY <1>0, <2>1 DEF OneInit
    <2> QED  BY <2>1, <2>4 DEF LeftBehind, HalfMade
  <1>6. CASE d = dir[p] /\ CutOff(p)
    <2>1. /\ InitsAt(d)' \cup {p} = InitsAt(d) /\ p \notin InitsAt(d)'
          /\ \A q \in InitsAt(d)' : pc'[q] = pc[q]
      BY <1>1, <1>6, InitsAtStep
    <2>2. d \in cutAt' /\ UNCHANGED <<config, given>> /\ (d \in overlapped <=> d \in overlapped')
      BY <1>6, InitVariables DEF CutOff
    <2>3. OneInit(d)'
      BY <1>0, <2>1, <2>2 DEF OneInit
    <2> QED  BY <2>2, <2>3 DEF LeftBehind
  <1>7. CASE d = dir[p] /\ WriteConfig(p)
    <2>1. /\ InitsAt(d)' \cup {p} = InitsAt(d) /\ p \notin InitsAt(d)' /\ p \in InitsAt(d)
          /\ pc[p] = "write" /\ overlapped' = overlapped
      BY <1>1, <1>7, InitsAtStep DEF WriteConfig
    <2>2. /\ cfg[p] \in Config /\ config'[d] \in Seq(Config) /\ config'[d] # <<>>
          /\ config[d] = <<>> => config'[d] = <<cfg[p]>>
          /\ given'[d] = Append(given[d], cfg[p])
      BY <1>7, WriteConfigDoes
    <2>3. Len(config'[d]) = 1 => Readable(config'[d])
      BY <2>2, ParsedIs
    <2>4. CASE d \notin overlapped
      <3>1. InitsAt(d)' = {} /\ given[d] = <<>> /\ config[d] = <<>>
        BY <1>0, <2>1, <2>4 DEF OneInit
      <3>2. given'[d] = <<cfg[p]>> /\ config'[d] = <<cfg[p]>>
        BY <2>2, <3>1
      <3>3. Len(config'[d]) = 1 /\ config'[d] = given'[d]
        BY <3>2
      <3> QED  BY <2>3, <3>1, <3>3 DEF OneInit, LeftBehind, HalfMade, Whole
    <2>5. CASE d \in overlapped
      <3>1. Len(config'[d]) \in Nat /\ Len(config'[d]) # 0
        BY <2>2, EmptySeq
      <3>2. Len(config'[d]) = 1 \/ Len(config'[d]) > 1
        <4>1. \A n \in Nat : n # 0 => n = 1 \/ n > 1
          OBVIOUS
        <4> QED  BY <3>1, <4>1, Zenon
      <3> QED  BY <2>1, <2>3, <2>5, <3>2 DEF OneInit, LeftBehind, HalfMade, Whole
    <2> QED  BY <2>4, <2>5
  <1> QED
    BY <1>2, <1>3, <1>4, <1>5, <1>6, <1>7, InitsAtStep

LEMMA InitInvariant == Spec => []InitInv
  <1>1. TypeInv /\ LayoutInv /\ InitInv /\ [Next]_vars => InitInv'
    <2>1. CASE UNCHANGED vars
      BY <2>1 DEF vars, disk, local, ghost, InitInv, OneInit, LeftBehind, HalfMade, InitsAt,
                  Whole
    <2> QED  BY <2>1, Steps, InitInvStep DEF InitInv
  <1> QED  BY <1>1, InitInvInit, TypeInvariant, LayoutInvariant, PTL DEF Spec

\* In a directory where inits did not overlap at most one ever succeeds, and
\* config.toml stays as that one was told: while an init is at work nobody has
\* succeeded, and once .dbsnap exists nobody begins.
THEOREM InitsAreFinal == Spec => []InitIsFinal
  <1>1. InitInv => InitIsFinal
    BY DEF InitInv, OneInit, InitIsFinal
  <1> QED  BY <1>1, InitInvariant, PTL

\* A .dbsnap directory without a valid config.toml that no init is working on was
\* left by an init that was cut off, or mixed by two that overlapped.
THEOREM HalfMadeHasCause == Spec => []HalfMadeWasCut
  <1>1. InitInv => HalfMadeWasCut
    BY DEF InitInv, LeftBehind, HalfMadeWasCut
  <1> QED  BY <1>1, InitInvariant, PTL

\* And no step of any command makes a repository of it: init refuses a directory
\* that has a .dbsnap, whatever is in it.
THEOREM HalfMadeForever == Spec => HalfMadeStays
  <1>1. TypeInv /\ LayoutInv /\ [Next]_vars =>
            [\A d \in Dirs : HalfMade(d) => HalfMade(d)']_vars
    <2> SUFFICES ASSUME TypeInv, LayoutInv, NEW p \in Processes, Step(p),
                        NEW d \in Dirs, HalfMade(d)
                 PROVE  HalfMade(d)'
      BY Steps
    <2>1. InitsAt(d) = {} /\ made[d] # {} /\ Exists(d)
      BY DEF HalfMade, LayoutInv, LayoutOK
    <2>2. ~(FindAbsent(p) /\ d = dir[p])
      BY <2>1, InitVariables
    <2>3. InitsAt(d)' = {}
      BY <2>1, <2>2, InitsAtStep
    <2>4. made'[d] # {}
      BY <2>1, DiskGrows
    <2>5. config'[d] = config[d]
      <3>1. CASE OpenConfig(p) /\ UNCHANGED given
        <4>1. d # dir[p]
          BY <2>1, <3>1, InitsAtStep
        <4> QED  BY <3>1, <4>1, OpenConfigDoes
      <3>2. CASE WriteConfig(p)
        <4>1. d # dir[p]
          BY <2>1, <3>2, InitsAtStep
        <4> QED  BY <3>2, <4>1, WriteConfigDoes
      <3> QED  BY <3>1, <3>2, DiskStays
    <2> QED  BY <2>3, <2>4, <2>5 DEF HalfMade, Whole
  <1> QED  BY <1>1, TypeInvariant, LayoutInvariant, PTL DEF Spec, HalfMadeStays
-------------------------------------------------------------------------------
(* Commands other than init: where they look, and what they read there.       *)

\* Every text in config.toml is what some successful init of the directory was told.
Told(g, c) == \E i \in DOMAIN g : g[i] = c

GivenOK(d) == \A c \in Texts(config[d]) : Told(given[d], c)

\* c has a schema and a connection string that were told, in the directory d both
\* to the same init unless inits overlapped there.
ToldApart(d, c) ==
    \E i, j \in DOMAIN given[d] :
        /\ c = [schema |-> given[d][i].schema, url |-> given[d][j].url]
        /\ d \notin overlapped => i = j

Connected(p) == outcome[p] \in {"connected", "no engine", "no connection string"}

SearchOK(p) ==
    /\ \A x \in before[p] : HasConfigFile(x)
    /\ before[p] \cap PassedOver(p) = {}
    /\ pc[p] = "opened" => ToldApart(dir[p], cfg[p])
    /\ Connected(p) => pc[p] = "idle" /\
          IF env[p] \notin {NoUrl, ""} THEN url[p] = env[p]
          ELSE \E i \in DOMAIN given[dir[p]] : given[dir[p]][i].url = url[p]

SearchInv ==
    /\ \A d \in Dirs : GivenOK(d)
    /\ \A p \in Processes : SearchOK(p)

LEMMA SearchInit == Init => SearchInv
  BY DEF Init, SearchInv, GivenOK, Texts, SearchOK, Connected

LEMMA ToldStays ==
    ASSUME TypeInv, NEW p \in Processes, Step(p), NEW d \in Dirs
    PROVE  /\ \A c : Told(given[d], c) => Told(given'[d], c)
           /\ \A u : (\E i \in DOMAIN given[d] : given[d][i].url = u)
                       => (\E i \in DOMAIN given'[d] : given'[d][i].url = u)
           /\ \A c : ToldApart(d, c) => ToldApart(d, c)'
  <1>1. \A i \in DOMAIN given[d] : i \in DOMAIN given'[d] /\ given'[d][i] = given[d][i]
    BY DiskGrows
  <1>2. d \in overlapped => d \in overlapped'
    BY InitVariables
  <1> QED  BY <1>1, <1>2 DEF Told, ToldApart

LEMMA GivenStep ==
    ASSUME TypeInv, NEW p \in Processes, Step(p), NEW d \in Dirs, GivenOK(d)
    PROVE  GivenOK(d)'
  <1>1. CASE config'[d] = config[d]
    BY <1>1, ToldStays DEF GivenOK
  <1>2. CASE OpenConfig(p) /\ UNCHANGED given
    <2>1. config'[d] = config[d] \/ config'[d] = <<>>
      BY <1>2, OpenConfigDoes
    <2> QED  BY <1>1, <2>1 DEF GivenOK, Texts
  <1>3. CASE WriteConfig(p)
    <2>1. CASE d = dir[p]
      <3>1. /\ Texts(config'[d]) \subseteq Texts(config[d]) \cup {cfg[p]} /\ cfg[p] \in Config
            /\ given'[d] = Append(given[d], cfg[p]) /\ given[d] \in Seq(Config)
        BY <1>3, <2>1, WriteConfigDoes DEF TypeInv, LifecycleTypeOK
      <3>2. Len(given[d]) + 1 \in DOMAIN given'[d] /\ given'[d][Len(given[d]) + 1] = cfg[p]
        BY <3>1
      <3>3. Told(given'[d], cfg[p])
        BY <3>2 DEF Told
      <3> QED  BY <3>1, <3>3, ToldStays DEF GivenOK
    <2>2. CASE d # dir[p]
      BY <1>1, <1>3, <2>2, WriteConfigDoes
    <2> QED  BY <2>1, <2>2
  <1> QED  BY <1>1, <1>2, <1>3, DiskStays

\* What a command reads was told: the texts in the file were, and there is only one
\* where inits did not overlap.
LEMMA ReadIsTold ==
    ASSUME TypeInv, InitInv, NEW d \in Dirs, GivenOK(d), Whole(d)
    PROVE  ToldApart(d, Parsed(config[d]))
  <1>1. config[d] \in Seq(Config) /\ config[d] # <<>> /\ given[d] \in Seq(Config)
    BY DEF TypeInv, LifecycleTypeOK, Whole, Readable
  <1>2. PICK i, j \in DOMAIN config[d] :
             Parsed(config[d]) = [schema |-> config[d][i].schema, url |-> config[d][j].url]
    BY <1>1, ParsedIs
  <1>3. PICK k, l \in DOMAIN given[d] :
             given[d][k] = config[d][i] /\ given[d][l] = config[d][j]
    BY <1>2 DEF GivenOK, Texts, Told
  <1>4. CASE d \in overlapped
    BY <1>2, <1>3, <1>4 DEF ToldApart
  <1>5. CASE d \notin overlapped
    <2>1. Len(given[d]) = 1
      BY <1>3, <1>5 DEF InitInv, OneInit
    <2>2. k = l
      BY <1>1, <1>3, <2>1
    <2> QED  BY <1>2, <1>3, <2>2 DEF ToldApart
  <1> QED  BY <1>4, <1>5

\* A process another one has left alone.
LEMMA SearchOthers ==
    ASSUME TypeInv, NEW p \in Processes, Step(p), NEW q \in Processes, q # p, SearchOK(q)
    PROVE  SearchOK(q)'
  <1>1. /\ pc'[q] = pc[q] /\ dir'[q] = dir[q] /\ cfg'[q] = cfg[q] /\ env'[q] = env[q]
        /\ start'[q] = start[q] /\ before'[q] = before[q]
        /\ outcome'[q] = outcome[q] /\ url'[q] = url[q]
    BY OthersStay
  <1>2. before[q] \subseteq Dirs /\ dir[q] \in Dirs
    BY DEF TypeInv, LifecycleTypeOK
  <1>3. \A x \in before[q] : HasConfigFile(x)'
    BY <1>2, DiskGrows DEF SearchOK, HasConfigFile
  <1>4. PassedOver(q)' = PassedOver(q)
    BY <1>1 DEF PassedOver
  <1>5. pc'[q] = "opened" => ToldApart(dir[q], cfg[q])'
    <2>1. ToldApart(dir[q], cfg[q]) =>
            \E i, j \in DOMAIN given'[dir[q]] :
               /\ cfg[q] = [schema |-> given'[dir[q]][i].schema, url |-> given'[dir[q]][j].url]
               /\ dir[q] \notin overlapped' => i = j
      BY <1>2, ToldStays DEF ToldApart
    <2> QED  BY <1>1, <2>1 DEF SearchOK, ToldApart
  <1>6. (\E i \in DOMAIN given[dir[q]] : given[dir[q]][i].url = url[q])
          => (\E i \in DOMAIN given'[dir'[q]] : given'[dir'[q]][i].url = url'[q])
    BY <1>1, <1>2, ToldStays
  <1>7. Connected(q)' = Connected(q)
    BY <1>1 DEF Connected
  <1> QED  BY <1>1, <1>3, <1>4, <1>5, <1>6, <1>7 DEF SearchOK

\* The process itself.  What it remembers was complete when it began; it goes up
\* only from where there is no file.
LEMMA SearchOwn ==
    ASSUME TypeInv, LayoutInv, InitInv, NEW p \in Processes, Step(p), SearchOK(p),
           \A d \in Dirs : GivenOK(d)
    PROVE  SearchOK(p)'
  <1> USE DEF GoTo
  <1>0. /\ pc \in [Processes -> Places] /\ dir \in [Processes -> Dirs] /\ dir[p] \in Dirs
        /\ before \in [Processes -> SUBSET Dirs] /\ start \in [Processes -> Dirs]
        /\ outcome \in [Processes -> Outcomes] /\ url \in [Processes -> Flags \cup Environments]
        /\ env \in [Processes -> Environments] /\ cfg \in [Processes -> Config \cup {NoConfig}]
        /\ Dirs \subseteq Int /\ before[p] \subseteq Dirs
    BY DEF TypeInv, LifecycleTypeOK, Dirs
  <1>1. ASSUME before'[p] = before[p] PROVE \A x \in before'[p] : HasConfigFile(x)'
    BY <1>0, <1>1, DiskGrows DEF SearchOK, HasConfigFile
  <1>2. CASE BeginInit(p)
    <2>1. before'[p] = {} /\ pc'[p] = "check" /\ outcome'[p] = "none"
      BY <1>0, <1>2 DEF BeginInit, Begin
    <2> QED  BY <2>1 DEF SearchOK, Connected
  <1>3. CASE BeginCommand(p)
    <2>1. PICK d \in Dirs, e \in Environments :
               /\ Begin(p, d, e, {x \in Dirs : Whole(x)})
               /\ dir' = [dir EXCEPT ![p] = d] /\ GoTo(p, "look")
      BY <1>3 DEF BeginCommand, FirstLookedAt
    <2>2. /\ before'[p] = {x \in Dirs : Whole(x)} /\ dir'[p] = d /\ start'[p] = d
          /\ pc'[p] = "look" /\ outcome'[p] = "none" /\ made' = made
      BY <1>0, <2>1 DEF Begin, disk
    <2>3. \A x \in before'[p] : HasConfigFile(x)'
      BY <2>2 DEF Whole, Readable, HasConfigFile, LayoutInv, LayoutOK
    <2>4. PassedOver(p)' = {}
      BY <1>0, <2>2 DEF PassedOver
    <2> QED  BY <2>2, <2>3, <2>4 DEF SearchOK, Connected
  <1>4. CASE LookFurtherUp(p)
    <2>1. /\ dir'[p] = dir[p] - 1 /\ ~HasConfigFile(dir[p]) /\ pc[p] = "look"
          /\ UNCHANGED <<pc, before, start, outcome>>
      BY <1>0, <1>4 DEF LookFurtherUp, ParentOf, disk
    <2>2. before'[p] \cap PassedOver(p)' = {}
      <3> SUFFICES ASSUME NEW x \in before[p] PROVE x \notin PassedOver(p)'
        BY <2>1
      <3>1. x # dir[p] /\ x \in Int /\ dir[p] \in Int
        BY <1>0, <2>1 DEF SearchOK
      <3>2. x \notin PassedOver(p)
        BY DEF SearchOK
      <3>3. dir'[p] < x => dir[p] < x
        BY <2>1, <3>1
      <3> QED  BY <2>1, <3>2, <3>3 DEF PassedOver
    <2> QED  BY <1>1, <2>1, <2>2 DEF SearchOK, Connected
  <1>5. CASE FindNothing(p)
    <2>1. /\ dir' = dir /\ dir[p] = 0 /\ ~HasConfigFile(0) /\ pc'[p] = "idle"
          /\ UNCHANGED <<before, start>> /\ outcome'[p] = "not a repository"
      BY <1>0, <1>5 DEF FindNothing, End, disk
    <2>2. before'[p] \cap PassedOver(p)' = {}
      <3> SUFFICES ASSUME NEW x \in before[p] PROVE x \notin PassedOver(p)'
        BY <2>1
      <3>1. x # 0 /\ x \in Dirs
        BY <1>0, <2>1 DEF SearchOK
      <3>2. x > 0
        BY <3>1 DEF Dirs
      <3>3. x \notin PassedOver(p)
        BY DEF SearchOK
      <3> QED  BY <1>0, <2>1, <3>1, <3>2, <3>3 DEF PassedOver
    <2> QED  BY <1>1, <2>1, <2>2 DEF SearchOK, Connected
  <1>6. CASE FindAbsent(p) \/ MakeDirectory(p) \/ OpenConfig(p) \/ FindConfig(p)
    <2>1. /\ pc'[p] \in {"make", "write", "read"} /\ pc[p] # "idle"
          /\ UNCHANGED <<dir, before, start, outcome>>
      BY <1>0, <1>6 DEF FindAbsent, MakeDirectory, OpenConfig, FindConfig, local
    <2> QED  BY <1>1, <2>1 DEF SearchOK, PassedOver, Connected
  <1>7. CASE CutOff(p) \/ RefuseExisting(p) \/ ConfigUnreadable(p) \/ Offline(p)
             \/ WriteConfig(p)
    <2>1. /\ UNCHANGED <<dir, before, start>> /\ pc'[p] = "idle"
          /\ outcome'[p] \in {"cut off", "already exists", "bad config", "opened", "initialized"}
      BY <1>0, <1>7 DEF CutOff, RefuseExisting, ConfigUnreadable, Offline, WriteConfig, End
    <2> QED  BY <1>1, <2>1 DEF SearchOK, PassedOver, Connected
  <1>8. CASE ReadConfig(p)
    <2>1. /\ UNCHANGED <<config, given, overlapped, dir, before, start, outcome>>
          /\ pc[p] = "read" /\ Whole(dir[p]) /\ cfg'[p] = Parsed(config[dir[p]])
      BY <1>0, <1>8 DEF ReadConfig, disk, ghost
    <2>2. ToldApart(dir[p], Parsed(config[dir[p]]))
      BY <1>0, <2>1, ReadIsTold
    <2> QED  BY <1>1, <2>1, <2>2 DEF SearchOK, PassedOver, Connected, ToldApart
  <1>9. CASE Connect(p)
    <2>1. /\ UNCHANGED <<given, dir, before, start, env>> /\ pc[p] = "opened" /\ pc'[p] = "idle"
          /\ url'[p] = DatabaseUrl(cfg[p], env[p])
          /\ outcome'[p] \in {"connected", "no engine", "no connection string"}
      BY <1>0, <1>9 DEF Connect, End, ghost
    <2>2. \E i \in DOMAIN given[dir[p]] : given[dir[p]][i].url = cfg[p].url
      <3>1. PICK i, j \in DOMAIN given[dir[p]] :
                 cfg[p] = [schema |-> given[dir[p]][i].schema, url |-> given[dir[p]][j].url]
        BY <2>1 DEF SearchOK, ToldApart
      <3> QED  BY <3>1
    <2>3. PassedOver(p)' \subseteq PassedOver(p)
      BY <2>1 DEF PassedOver
    <2> QED  BY <1>1, <2>1, <2>2, <2>3 DEF SearchOK, DatabaseUrl
  <1> QED
    BY <1>2, <1>3, <1>4, <1>5, <1>6, <1>7, <1>8, <1>9 DEF Step

LEMMA SearchInvariant == Spec => []SearchInv
  <1>1. TypeInv /\ LayoutInv /\ InitInv /\ SearchInv /\ [Next]_vars => SearchInv'
    <2>1. SearchInv /\ UNCHANGED vars => SearchInv'
      <3> SUFFICES ASSUME SearchInv, UNCHANGED vars PROVE SearchInv'
        OBVIOUS
      <3> USE DEF vars, disk, local, ghost
      <3>1. \A d \in Dirs : GivenOK(d)'
        BY DEF SearchInv, GivenOK, Texts, Told
      <3>2. ASSUME NEW p \in Processes PROVE SearchOK(p)'
        <4>1. ToldApart(dir[p], cfg[p])' <=> ToldApart(dir[p], cfg[p])
          BY DEF ToldApart
        <4>2. PassedOver(p)' = PassedOver(p) /\ Connected(p)' = Connected(p)
          BY DEF PassedOver, Connected
        <4>3. \A x : HasConfigFile(x)' <=> HasConfigFile(x)
          BY DEF HasConfigFile
        <4> QED  BY <4>1, <4>2, <4>3 DEF SearchInv, SearchOK
      <3> QED  BY <3>1, <3>2 DEF SearchInv
    <2>2. ASSUME TypeInv, LayoutInv, InitInv, SearchInv, NEW p \in Processes, Step(p)
          PROVE  SearchInv'
      <3>1. \A d \in Dirs : GivenOK(d)'
        BY <2>2, GivenStep DEF SearchInv
      <3>2. ASSUME NEW q \in Processes PROVE SearchOK(q)'
        BY <2>2, <3>2, SearchOthers, SearchOwn DEF SearchInv
      <3> QED  BY <3>1, <3>2 DEF SearchInv
    <2> QED  BY <2>1, <2>2, Steps
  <1> QED
    BY <1>1, SearchInit, TypeInvariant, LayoutInvariant, InitInvariant, PTL DEF Spec

\* discover takes the nearest repository: none that was complete when the command
\* began is passed over, because config.toml never goes away again.
THEOREM NearestIsFound == Spec => []FindsNearest
  <1>1. SearchInv => FindsNearest
    BY DEF SearchInv, SearchOK, FindsNearest
  <1> QED  BY <1>1, SearchInvariant, PTL

\* The Config a command works with has a schema and a connection string that
\* successful inits of its directory were told, both the same one unless inits
\* overlapped; it connects to DATABASE_URL or to that string, never to a piece of
\* one: a text that is cut in the middle of a string cannot be parsed.
THEOREM ConnectionIsGiven == Spec => []ConnectsAsGiven
  <1>1. SearchInv => ConnectsAsGiven
    BY DEF SearchInv, SearchOK, ToldApart, Connected, ConnectsAsGiven
  <1> QED  BY <1>1, SearchInvariant, PTL
================================================================================
