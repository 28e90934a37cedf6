------------------------------- MODULE Lifecycle -------------------------------
(***************************************************************************)
(* How a repository comes to be and how commands find it: Store::init,     *)
(* Store::discover and Store::open over nested directories, and the choice *)
(* of the database to connect to.  Several dbsnap processes work on the    *)
(* same directories and take no lock; an init may be cut off anywhere.     *)
(***************************************************************************)
EXTENDS Integers, Sequences, FiniteSets, FiniteSetsExt, Functions

CONSTANTS
    Processes,    \* dbsnap processes
    Depth,        \* directories 0 .. Depth, each the parent of the next
    Schemas,      \* values of --schema
    Flags,        \* values of --database-url; NoUrl: not given
    Environments, \* values of DATABASE_URL; NoUrl: not set
    Length(_),    \* characters of a schema or connection string
    MaxCalls,     \* bound: commands begun by all processes together
    MayBeCut      \* whether an init may fail or be killed on the way

VARIABLES
    made,        \* for each directory, what exists of its .dbsnap directory
    config,      \* the texts in its .dbsnap/config.toml: the last one written, then
                 \* what longer ones left behind its end; none: empty or no file
    pc,          \* where each process is; "idle" between commands
    dir,         \* init: the parent of .dbsnap; discover: the directory it looks at
    rest,        \* init: directories still to make
    cfg,         \* the Config to write, or the one that was read
    env,         \* DATABASE_URL of the command
    outcome,     \* how the last command ended
    url,         \* the connection string it used
    start,       \* the directory the command was run in
    before,      \* the repositories that were complete when it began
    given,       \* for each directory, the Configs of the inits that succeeded
    cutAt,       \* directories where an init was cut off
    overlapped,  \* directories where one init began in the middle of another
    calls        \* commands begun so far

disk  == <<made, config>>
local == <<dir, rest, cfg, env, start, before>>
ghost == <<given, cutAt, overlapped>>
vars  == <<disk, pc, local, outcome, url, ghost, calls>>
-------------------------------------------------------------------------------
Dirs == 0 .. Depth

\* Not given, or not set; "" is a DATABASE_URL that is set to nothing.
NoUrl == "no url"

\* What a command holds before it has read a Config.
NoConfig == [schema |-> "not read", url |-> NoUrl]

\* What init makes before config.toml: create_dir_all of commits makes .dbsnap.
LayoutWithoutRefs == <<".dbsnap", "commits", "trees", "tables">>
Layout == <<".dbsnap", "commits", "trees", "tables", "refs">>

Config == [schema : Schemas, url : Flags \cup Environments]

\* No flag need be given and no variable set.
ASSUME LifecycleAssumptions ==
    /\ Depth \in Nat /\ MaxCalls \in Nat
    /\ NoUrl \in Flags \cap Environments
    /\ NoConfig.schema \notin Schemas
    /\ \A x \in Schemas \cup Flags \cup Environments : Length(x) \in Nat

Init ==
    /\ made = [d \in Dirs |-> {}] /\ config = [d \in Dirs |-> <<>>]
    /\ pc   = [p \in Processes |-> "idle"]
    /\ dir  = [p \in Processes |-> 0] /\ rest = [p \in Processes |-> <<>>]
    /\ cfg  = [p \in Processes |-> NoConfig] /\ env = [p \in Processes |-> NoUrl]
    /\ outcome = [p \in Processes |-> "none"] /\ url = [p \in Processes |-> NoUrl]
    /\ start = [p \in Processes |-> 0] /\ before = [p \in Processes |-> {}]
    /\ given = [d \in Dirs |-> <<>>] /\ cutAt = {} /\ overlapped = {} /\ calls = 0

GoTo(p, s) == pc' = [pc EXCEPT ![p] = s]

\* The command ends.  What an init knew goes with it; where a command looked and
\* what it found stay for the properties until the process begins another.
End(p, o) ==
    /\ GoTo(p, "idle") /\ outcome' = [outcome EXCEPT ![p] = o]
    /\ rest' = [rest EXCEPT ![p] = <<>>] /\ cfg' = [cfg EXCEPT ![p] = NoConfig]

\* A command is run in directory d; e is the DATABASE_URL it will look at, and
\* known the repositories to remember.
Begin(p, d, e, known) ==
    /\ pc[p] = "idle" /\ calls < MaxCalls /\ calls' = calls + 1
    /\ start' = [start EXCEPT ![p] = d] /\ env' = [env EXCEPT ![p] = e]
    /\ before' = [before EXCEPT ![p] = known]
    /\ outcome' = [outcome EXCEPT ![p] = "none"] /\ url' = [url EXCEPT ![p] = NoUrl]
    /\ UNCHANGED <<disk, rest, ghost>>
-------------------------------------------------------------------------------
(* config.toml.  When two inits opened it before either wrote, the end of a    *)
(* longer text stays behind a shorter one and TOML reads what is there: a key  *)
(* it does not know is skipped, one that comes twice is an error, and so is    *)
(* the end of a string.                                                       *)

\* The line `schema = "..."`, and `database_url = "..."` when there is one.
SchemaLine(c) == 12 + Length(c.schema)
UrlLine(c) == IF c.url = NoUrl THEN 0 ELSE 18 + Length(c.url)
Size(c) == SchemaLine(c) + UrlLine(c)

NeverWritten(text, c) == text

\* The texts in the file after c is written over them from the start.
Overwritten(text, c) ==
    LET covered == Cardinality({i \in DOMAIN text : Size(text[i]) <= Size(c)})
    IN  <<c>> \o SubSeq(text, covered + 1, Len(text))

\* The i-th text is there from this character on, counted from its second line.
Begins(text, i) == IF i = 1 THEN 0 ELSE Size(text[i - 1])
FromUrl(text, i) == Begins(text, i) - SchemaLine(text[i])

\* Those that still have a connection string: behind an empty line, or with so
\* many characters missing of the twelve of `database_url`.
WithUrl(text) ==
    {i \in DOMAIN text : text[i].url # NoUrl /\ (i = 1 \/ FromUrl(text, i) \in -1 .. 11)}
Missing(text, i) == IF FromUrl(text, i) < 0 THEN 0 ELSE FromUrl(text, i)

Readable(text) ==
    /\ text # <<>>
    /\ \A i \in 2 .. Len(text) :
          i \in WithUrl(text) \/ Begins(text, i) = Size(text[i]) - 1
    /\ IsInjective([i \in WithUrl(text) |-> Missing(text, i)])

\* What toml::from_str makes of a text it can read.
Parsed(text) ==
    LET keys == {i \in WithUrl(text) : Missing(text, i) = 0}
    IN  [schema |-> text[1].schema,
         url |-> IF keys = {} THEN NoUrl ELSE text[CHOOSE i \in keys : TRUE].url]

Whole(d) == Readable(config[d])
-------------------------------------------------------------------------------
(* dbsnap init *)

\* --database-url is declared with env = "DATABASE_URL": a set variable, even
\* an empty one, stands in for a flag that is not given.
Stored(flag, e) == IF flag # NoUrl THEN flag ELSE e

BeginInit(p) ==
    \E d \in Dirs, s \in Schemas, flag \in Flags, e \in Environments :
        /\ Begin(p, d, NoUrl, {}) /\ dir' = [dir EXCEPT ![p] = d] /\ GoTo(p, "check")
        /\ cfg' = [cfg EXCEPT ![p] = [schema |-> s, url |-> Stored(flag, e)]]

NeverExists(d) == FALSE
Exists(d) == ".dbsnap" \in made[d]

RefuseExisting(p) ==
    /\ pc[p] = "check" /\ Exists(dir[p])
    /\ End(p, "already exists")
    /\ UNCHANGED <<disk, dir, env, start, before, url, ghost, calls>>

InitsAt(d) == {p \in Processes : pc[p] \in {"make", "write"} /\ dir[p] = d}

FindAbsent(p) ==
    /\ pc[p] = "check" /\ ~Exists(dir[p])
    /\ GoTo(p, "make") /\ rest' = [rest EXCEPT ![p] = Layout]
    /\ overlapped' = IF InitsAt(dir[p]) = {} THEN overlapped
                                            ELSE overlapped \cup {dir[p]}
    /\ UNCHANGED <<disk, dir, cfg, env, start, before, outcome, url, given, cutAt, calls>>

\* create_dir_all takes a directory that exists for made.
MakeDirectory(p) ==
    /\ pc[p] = "make" /\ rest[p] # <<>>
    /\ made' = [made EXCEPT ![dir[p]] = @ \cup {Head(rest[p])}]
    /\ rest' = [rest EXCEPT ![p] = Tail(@)]
    /\ UNCHANGED <<config, pc, dir, cfg, env, start, before, outcome, url, ghost, calls>>

\* fs::write creates or truncates config.toml, and then writes it.
OpenConfig(p) ==
    /\ pc[p] = "make" /\ rest[p] = <<>>
    /\ made' = [made EXCEPT ![dir[p]] = @ \cup {"config.toml"}]
    /\ config' = [config EXCEPT ![dir[p]] = <<>>]
    /\ GoTo(p, "write")
    /\ UNCHANGED <<local, outcome, url, ghost, calls>>

WriteConfig(p) ==
    /\ pc[p] = "write"
    /\ config' = [config EXCEPT ![dir[p]] = Overwritten(@, cfg[p])]
    /\ given' = [given EXCEPT ![dir[p]] = Append(@, cfg[p])]
    /\ End(p, "initialized")
    /\ UNCHANGED <<made, dir, env, start, before, url, cutAt, overlapped, calls>>

\* An I/O error, or the process is killed: what is on disk stays there.
CutOff(p) ==
    /\ MayBeCut /\ pc[p] \in {"make", "write"}
    /\ End(p, "cut off") /\ cutAt' = cutAt \cup {dir[p]}
    /\ UNCHANGED <<disk, dir, env, start, before, url, given, overlapped, calls>>
-------------------------------------------------------------------------------
(* Every other command: context::open, and context::connect if it needs the   *)
(* database.                                                                 *)
Stays(d) == d
OneUp(d) == d - 1
OneUpIfAny(d) == IF d = 0 THEN d ELSE d - 1
ParentOf(d) == d - 1
FirstLookedAt(d) == d

BeginCommand(p) ==
    \E d \in Dirs, e \in Environments :
        /\ Begin(p, d, e, {x \in Dirs : Whole(x)})
        /\ dir' = [dir EXCEPT ![p] = FirstLookedAt(d)]
        /\ GoTo(p, "look") /\ UNCHANGED cfg

HasConfigFile(d) == "config.toml" \in made[d]

LookFurtherUp(p) ==
    /\ pc[p] = "look" /\ ~HasConfigFile(dir[p]) /\ dir[p] # 0
    /\ dir' = [dir EXCEPT ![p] = ParentOf(@)]
    /\ UNCHANGED <<disk, pc, rest, cfg, env, start, before, outcome, url, ghost, calls>>

FindNothing(p) ==
    /\ pc[p] = "look" /\ ~HasConfigFile(dir[p]) /\ dir[p] = 0
    /\ End(p, "not a repository")
    /\ UNCHANGED <<disk, dir, env, start, before, url, ghost, calls>>

FindConfig(p) ==
    /\ pc[p] = "look" /\ HasConfigFile(dir[p])
    /\ GoTo(p, "read")
    /\ UNCHANGED <<disk, local, outcome, url, ghost, calls>>

ReadConfig(p) ==
    /\ pc[p] = "read" /\ Whole(dir[p])
    /\ cfg' = [cfg EXCEPT ![p] = Parsed(config[dir[p]])] /\ GoTo(p, "opened")
    /\ UNCHANGED <<disk, dir, rest, env, start, before, outcome, url, ghost, calls>>

\* An empty text has no `schema`, and one of two may end in a broken line or have
\* a key twice: the parse fails.
ConfigUnreadable(p) ==
    /\ pc[p] = "read" /\ ~Whole(dir[p])
    /\ End(p, "bad config")
    /\ UNCHANGED <<disk, dir, env, start, before, url, ghost, calls>>

\* log, diff, export, report and verify need no database.
Offline(p) ==
    /\ pc[p] = "opened" /\ End(p, "opened")
    /\ UNCHANGED <<disk, dir, env, start, before, url, ghost, calls>>

StoredFirst(c, e) == IF c.url # NoUrl THEN c.url ELSE e

\* context::database_url: a DATABASE_URL that is set and not empty wins.
DatabaseUrl(c, e) == IF e \notin {NoUrl, ""} THEN e ELSE c.url

\* Engine::from_url by the scheme of the connection string.
EngineOf(u) ==
    CASE u \in {"postgres://db", "postgresql://db"} -> "postgres"
      [] u \in {"mysql://db", "mariadb://db"}       -> "mysql"
      [] OTHER                                      -> "unsupported"

Connect(p) ==
    /\ pc[p] = "opened"
    /\ LET u == DatabaseUrl(cfg[p], env[p]) IN
         /\ url' = [url EXCEPT ![p] = u]
         /\ End(p, IF u = NoUrl THEN "no connection string"
                   ELSE IF EngineOf(u) = "unsupported" THEN "no engine" ELSE "connected")
    /\ UNCHANGED <<disk, dir, env, start, before, ghost, calls>>

Proceed(p) ==
    \/ RefuseExisting(p)
    \/ FindAbsent(p)
    \/ MakeDirectory(p)
    \/ OpenConfig(p)
    \/ WriteConfig(p)
    \/ LookFurtherUp(p)
    \/ FindNothing(p)
    \/ FindConfig(p)
    \/ ReadConfig(p)
    \/ ConfigUnreadable(p)
    \/ Offline(p)
    \/ Connect(p)

Next == \E p \in Processes : BeginInit(p) \/ BeginCommand(p) \/ Proceed(p) \/ CutOff(p)

Spec == Init /\ [][Next]_vars
-------------------------------------------------------------------------------
(* Properties *)

Subdirectories == {"commits", "trees", "tables", "refs"}

Places == {"idle", "check", "make", "write", "look", "read", "opened"}

Outcomes == {"none", "already exists", "initialized", "cut off", "not a repository",
             "bad config", "opened", "no connection string", "no engine", "connected"}

\* The type of every variable; only an init at work has something left to make.
LifecycleTypeOK ==
    /\ made \in [Dirs -> SUBSET (Subdirectories \cup {".dbsnap", "config.toml"})]
    /\ config \in [Dirs -> Seq(Config)]
    /\ pc \in [Processes -> Places]
    /\ dir \in [Processes -> Dirs] /\ start \in [Processes -> Dirs]
    /\ cfg \in [Processes -> Config \cup {NoConfig}]
    /\ env \in [Processes -> Environments]
    /\ outcome \in [Processes -> Outcomes]
    /\ url \in [Processes -> Flags \cup Environments]
    /\ before \in [Processes -> SUBSET Dirs]
    /\ given \in [Dirs -> Seq(Config)]
    /\ cutAt \subseteq Dirs /\ overlapped \subseteq Dirs /\ calls \in 0 .. MaxCalls
    /\ \A p \in Processes : rest[p] # <<>> => pc[p] = "make"

\* Whatever discover finds has the directories commit() writes to, complete
\* config.toml or not: no init makes the file before its last directory, and
\* none that overlaps or is cut off takes one away.
LayoutBeforeConfig ==
    \A d \in Dirs : HasConfigFile(d) => Subdirectories \subseteq made[d]

\* In a directory where inits did not overlap, at most one ever succeeds, and
\* config.toml stays as that one was told.
InitIsFinal ==
    \A d \in Dirs \ overlapped :
        given[d] # <<>> => Len(given[d]) = 1 /\ config[d] = given[d]

\* A .dbsnap directory without a config.toml that can be read, and that no init is
\* working on, was left by an init that was cut off, or two that overlapped left
\* the end of one text behind another.
HalfMade(d) == made[d] # {} /\ InitsAt(d) = {} /\ ~Whole(d)
HalfMadeWasCut ==
    \A d \in Dirs :
        HalfMade(d) => d \in cutAt \/ (d \in overlapped /\ Len(config[d]) > 1)

\* And no dbsnap command makes a repository of it any more: init refuses the
\* directory for ever, discover passes it over or fails on it.
HalfMadeStays == [][\A d \in Dirs : HalfMade(d) => HalfMade(d)']_vars

\* discover takes the nearest repository: it passes over none that was complete
\* when the command began, whatever other inits do during its walk.
PassedOver(p) ==
    {d \in Dirs : d <= start[p] /\ (dir[p] < d \/ outcome[p] = "not a repository")}
FindsNearest == \A p \in Processes : before[p] \cap PassedOver(p) = {}

\* The Config a command works with has the schema one successful init of the
\* directory was told and the connection string one was told, if not always the
\* same: the same one wherever inits did not overlap.  What it connects to is
\* DATABASE_URL, or else a string such an init was told, never a piece of one.
ConnectsAsGiven ==
    \A p \in Processes :
        LET told == given[dir[p]] IN
        /\ pc[p] = "opened" =>
              \E i, j \in DOMAIN told :
                 /\ cfg[p] = [schema |-> told[i].schema, url |-> told[j].url]
                 /\ dir[p] \notin overlapped => i = j
        /\ outcome[p] \in {"connected", "no engine", "no connection string"} =>
              IF env[p] \notin {NoUrl, ""} THEN url[p] = env[p]
              ELSE \E i \in DOMAIN told : told[i].url = url[p]
===============================================================================
