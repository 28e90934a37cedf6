---------------------------- MODULE HistoryReaders ----------------------------
(***************************************************************************)
(* The commands that only read a repository (log, status, export, verify,  *)
(* diff, report) while `dbsnap commit` runs beside them on the same        *)
(* directory: CommitProtocol with one reading process.  No lock is taken,  *)
(* HEAD is read anew for every reference, and the objects behind it are    *)
(* read one file at a time.                                                *)
(***************************************************************************)
EXTENDS CommitProtocol, SequencesExt

CONSTANTS
    Commands,      \* the commands the reader may run
    Abbreviations, \* beginnings of a hash the user may type
    Short(_)       \* the prefix in Abbreviations that a commit's hash begins with

ASSUME ReaderAssumptions ==
    /\ Commands \subseteq {"log", "status", "export", "verify", "diff", "report"}
    /\ MaxRuns \in Nat

VARIABLES
    cmd,       \* the command; "none" before it begins
    plan,      \* the reads it makes, in order
    phase,     \* how far the current read has come
    cur,       \* the commit it has reached
    up,        \* parents still to climb: the N of HEAD~N
    chain,     \* the commits a walk has read, newest first
    toRead,    \* objects whose files have still to be read, in order
    listed,    \* commits a listing of commits/ is sure to return
    got,       \* for each finished read, the commits it read
    outcome,   \* how the command ended; "none" until then
    blamed,    \* the files that could not be read and ended the command
    seen       \* the commits created before the command began

reader == <<cmd, plan, phase, cur, up, chain, toRead, listed, got, outcome, blamed, seen>>
-------------------------------------------------------------------------------
(* What a command reads.  A walk follows HEAD to the root commit, and shows *)
(* the newest `limit` commits of it; a check also reads every tree and table*)
(* on the way; a peek reads the commit and tree of HEAD.  At(n), ByHash(c)  *)
(* and ByPrefix(p) resolve HEAD~n, a full hash and the beginning of a hash, *)
(* and load the tables recorded there.                                      *)
NoLimit == MaxRuns      \* no history is longer

Walk(n)     == [kind |-> "walk", limit |-> n]
Peek        == [kind |-> "peek"]
Check       == [kind |-> "check"]
At(n)       == [kind |-> "at", up |-> n]
ByHash(c)   == [kind |-> "hash", commit |-> c]
ByPrefix(p) == [kind |-> "prefix", prefix |-> p]

StartsFromHead(r) == r.kind \in {"walk", "peek", "check", "at"}

LogPlans    == {<<Walk(1)>>, <<Walk(NoLimit)>>}
StatusPlan  == <<Peek, At(0)>>
VerifyPlan  == <<Check, At(0)>>      \* with --live

\* The user types the hash of a commit some command has reported, or whatever
\* prefix.
ExportPlans == {<<At(1)>>} \cup {<<ByHash(c)>> : c \in created}
                           \cup {<<ByPrefix(p)>> : p \in Abbreviations}

NewSideFirst == <<At(0), At(1)>>
DiffPlan     == <<At(1), At(0)>>

\* With the default references, or from a given commit to HEAD.
DiffPlans   == {DiffPlan} \cup {<<ByHash(c), At(0)>> : c \in created}
ReportPlans == {<<Walk(NoLimit), Check>> \o d : d \in DiffPlans}

PlansOf(c) ==
    CASE c = "log"    -> LogPlans
      [] c = "status" -> {StatusPlan}
      [] c = "export" -> ExportPlans
      [] c = "verify" -> {VerifyPlan}
      [] c = "diff"   -> DiffPlans
      [] c = "report" -> ReportPlans

\* report.rs leaves the diff out when no reference was given and the history it
\* has read is too short.
AnyHistory(h) == Len(h) >= 1
WantDiff(h) == Len(h) >= 2

\* What is left of the plan after a read of the commits h.  status compares
\* nothing with the live database when there is no HEAD.
Continue(h) ==
    IF cmd = "report" /\ got = <<>> /\ StartsFromHead(plan[3]) /\ ~WantDiff(h)
    THEN SubSeq(plan, 1, 2)
    ELSE IF cmd = "status" /\ h = <<>> THEN SubSeq(plan, 1, Len(got) + 1)
    ELSE plan

ReaderInit ==
    /\ cmd = "none" /\ plan = <<>> /\ phase = "idle" /\ cur = <<>> /\ up = 0
    /\ chain = <<>> /\ toRead = <<>> /\ listed = {} /\ got = <<>>
    /\ outcome = "none" /\ blamed = {} /\ seen = {}

Begin ==
    /\ cmd = "none"
    /\ \E c \in Commands : cmd' = c /\ plan' \in PlansOf(c)
    /\ phase' = "ref" /\ seen' = created
    /\ UNCHANGED <<cur, up, chain, toRead, listed, got, outcome, blamed>>

\* The read the command is at.
Current == plan[Len(got) + 1]

Rewind(p) == /\ phase' = p /\ cur' = <<>> /\ up' = 0 /\ chain' = <<>>
             /\ toRead' = <<>> /\ listed' = {} /\ UNCHANGED <<cmd, seen>>

\* The command ends, because of the files in bad if there are any.
End(o, bad) == Rewind("idle") /\ outcome' = o /\ blamed' = bad

Fails(o, bad) == End(o, bad) /\ UNCHANGED <<plan, got>>

\* The current read has read the commits h: on to the next, or the end.
Arrive(h) ==
    /\ got' = Append(got, h) /\ plan' = Continue(h)
    /\ IF Len(got) + 1 = Len(Continue(h))
       THEN End("ok", {})
       ELSE Rewind("ref") /\ UNCHANGED <<outcome, blamed>>

Phase(kind) ==
    CASE kind = "at"             -> "climb"
      [] kind = "peek"           -> "peek"
      [] kind \in {"walk", "check"} -> "chain"

\* Store::head.  An absent or empty HEAD is an empty repository to log, status
\* and verify, and an error to whoever resolves a reference from it.
FindHead ==
    /\ phase = "ref" /\ StartsFromHead(Current) /\ head # <<>>
    /\ cur' = head /\ up' = IF Current.kind = "at" THEN Current.up ELSE 0
    /\ phase' = Phase(Current.kind)
    /\ UNCHANGED <<cmd, plan, chain, toRead, listed, got, outcome, blamed, seen>>

FindNoCommits ==
    /\ phase = "ref" /\ Current.kind \in {"walk", "peek", "check"} /\ head = <<>>
    /\ Arrive(<<>>)

FindNoHead ==
    /\ phase = "ref" /\ Current.kind = "at" /\ head = <<>>
    /\ Fails("noHead", {})

\* A full hash is taken as it is.
TakeHash ==
    /\ phase = "ref" /\ Current.kind = "hash"
    /\ cur' = Current.commit /\ phase' = "climb"
    /\ UNCHANGED <<cmd, plan, up, chain, toRead, listed, got, outcome, blamed, seen>>

(* resolve_prefix lists commits/ with read_dir.  A file that is created in   *)
(* the meantime may be among the entries or not; one that exists is.         *)
CommitsOnDisk == {o[2] : o \in {x \in files : x[1] = "commits"}}

Matching == {c \in CommitsOnDisk : Short(c) = Current.prefix}

BeginListing ==
    /\ phase = "ref" /\ Current.kind = "prefix"
    /\ listed' = Matching /\ phase' = "list"
    /\ UNCHANGED <<cmd, plan, cur, up, chain, toRead, got, outcome, blamed, seen>>

Listings == {m \in SUBSET Matching : listed \subseteq m}

AnyOf(m) == m # {}
OnlyOneIn(m) == Cardinality(m) = 1

MatchOne ==
    /\ phase = "list"
    /\ \E m \in Listings : OnlyOneIn(m) /\ cur' \in m
    /\ listed' = {} /\ phase' = "climb"
    /\ UNCHANGED <<cmd, plan, up, chain, toRead, got, outcome, blamed, seen>>

MatchNone ==
    /\ phase = "list" /\ {} \in Listings
    /\ Fails("noMatch", {})

MatchSeveral ==
    /\ phase = "list"
    /\ \E m \in Listings : Cardinality(m) > 1
    /\ Fails("ambiguous", {})

\* Store::resolve reads one commit for every parent it climbs.
AlwaysParent(c) == TRUE
HasParent(c) == ParentOf(c) # <<>>

Climb ==
    /\ phase = "climb" /\ up > 0
    /\ CommitObj(cur) \in intact /\ HasParent(cur)
    /\ cur' = ParentOf(cur) /\ up' = up - 1
    /\ UNCHANGED <<cmd, plan, phase, chain, toRead, listed, got, outcome, blamed, seen>>

ClimbPastRoot ==
    /\ phase = "climb" /\ up > 0
    /\ CommitObj(cur) \in intact /\ ~HasParent(cur)
    /\ Fails("pastRoot", {})

\* snapshots_of_commit reads the commit, its tree and then every table of the
\* tree; status reads no table.
Tables(c) == SetToSeq({TableObj(t) : t \in TreeOf(c)})
TreeAndTables(c) == <<TreeObj(TreeOf(c))>> \o Tables(c)

Resolve ==
    /\ phase = "peek" \/ (phase = "climb" /\ up = 0)
    /\ toRead' = <<CommitObj(cur)>> \o (IF phase = "peek" THEN <<TreeObj(TreeOf(cur))>>
                                                      ELSE TreeAndTables(cur))
    /\ phase' = "load" /\ chain' = <<cur>>
    /\ UNCHANGED <<cmd, plan, cur, up, listed, got, outcome, blamed, seen>>

\* Store::chain reads commits until one has no parent.
StopsBeforeRoot(c) == Len(c) <= 2
AtRoot(c) == ~HasParent(c)

\* chain.truncate: the whole walk is read, whatever the limit.
Newest(h, n) == SubSeq(h, 1, IF Len(h) > n THEN n ELSE Len(h))

FollowParent ==
    /\ phase = "chain" /\ CommitObj(cur) \in intact /\ ~AtRoot(cur)
    /\ cur' = ParentOf(cur) /\ chain' = Append(chain, cur)
    /\ UNCHANGED <<cmd, plan, phase, up, toRead, listed, got, outcome, blamed, seen>>

ReachRoot ==
    /\ phase = "chain" /\ CommitObj(cur) \in intact /\ AtRoot(cur)
    /\ LET h == Append(chain, cur) IN
         IF Current.kind = "walk" THEN Arrive(Newest(h, Current.limit))
         ELSE /\ chain' = h /\ phase' = "load"
              /\ toRead' = FlattenSeq([i \in 1 .. Len(h) |-> TreeAndTables(h[i])])
              /\ UNCHANGED <<cmd, plan, cur, up, listed, got, outcome, blamed, seen>>

\* A file that is cut short fails the command.
CommitUnreadable ==
    /\ phase = "chain" \/ (phase = "climb" /\ up > 0)
    /\ CommitObj(cur) \notin intact
    /\ Fails("unreadable", {CommitObj(cur)})

SameAgain == toRead
NextToRead == Tail(toRead)

ReadObject ==
    /\ phase = "load" /\ toRead # <<>> /\ Head(toRead) \in intact
    /\ toRead' = NextToRead
    /\ UNCHANGED <<cmd, plan, phase, cur, up, chain, listed, got, outcome, blamed, seen>>

ObjectUnreadable ==
    /\ phase = "load" /\ toRead # <<>> /\ Head(toRead) \notin intact
    /\ Fails("unreadable", {Head(toRead)})

Loaded == phase = "load" /\ toRead = <<>> /\ Arrive(chain)

Read ==
    \/ FindHead
    \/ FindNoCommits
    \/ FindNoHead
    \/ TakeHash
    \/ BeginListing
    \/ MatchOne
    \/ MatchNone
    \/ MatchSeveral
    \/ Climb
    \/ ClimbPastRoot
    \/ Resolve
    \/ FollowParent
    \/ ReachRoot
    \/ CommitUnreadable
    \/ ReadObject
    \/ ObjectUnreadable
    \/ Loaded

RInit == Init /\ ReaderInit

RNext ==
    \/ Next /\ UNCHANGED reader
    \/ (Begin \/ Read) /\ UNCHANGED vars

\* A command that has begun is scheduled until it ends; nothing is assumed of
\* the commits beside it.
ReadFairly == WF_<<vars, reader>>(Read /\ UNCHANGED vars)

RSpec == RInit /\ [][RNext]_<<vars, reader>> /\ ReadFairly
-------------------------------------------------------------------------------
(* Properties *)

\* The type of every variable; a read past its reference has a commit.
ReaderTypeOK ==
    /\ cmd \in Commands \cup {"none"}
    /\ phase \in {"idle", "ref", "list", "climb", "peek", "chain", "load"}
    /\ cur \in History /\ chain \in Seq(History) /\ got \in Seq(Seq(History))
    /\ toRead \in Seq(Objects) /\ listed \subseteq History /\ seen \subseteq created
    /\ outcome \in {"none", "ok", "noHead", "pastRoot", "noMatch", "ambiguous",
                    "unreadable"}
    /\ blamed \subseteq Objects /\ (outcome = "unreadable" <=> blamed # {})
    /\ phase \in {"climb", "peek", "chain", "load"} => cur # <<>>

IsAncestor(c, d) == IsPrefix(c, d)

\* Files a call has left cut short: nobody is writing them any more.
Abandoned ==
    {o \in files \ intact : \A w \in Committers : ~(io[w] = "write" /\ obj[w] = o)}

\* A reader beside one committing process only fails on files that an earlier
\* call was cut off from writing, never on one that is being written or that is
\* missing.  The exception is a prefix the user made up: it may match the file
\* of a commit nobody has reported yet.
FailsOnlyOnAbandoned ==
    \A o \in blamed :
        o \in Abandoned \/ (Current.kind = "prefix" /\ o[1] = "commits" /\ o[2] \notin seen)

\* The two sides of the diff a command has made.
Compared == outcome = "ok" /\ (cmd = "diff" \/ (cmd = "report" /\ Len(got) = 4))
OldSide == got[Len(got) - 1][1]
NewSide == got[Len(got)][1]

\* `dbsnap diff` and `dbsnap report` read HEAD once per side, so HEAD may move in
\* between.  With the default references the old side is a strict ancestor of
\* the new one all the same, and a commit the user names is one or the same.
DiffGoesForward ==
    Compared => /\ IsAncestor(OldSide, NewSide)
                /\ plan[Len(plan) - 1].kind = "at" => OldSide # NewSide

\* A walk that finds a HEAD lists every commit created before the command
\* began; with a limit, every one that is not older than what it shows.
LogIsComplete ==
    (cmd = "log" /\ outcome = "ok" /\ got[1] # <<>>) =>
        \A c \in seen :
            \/ \E i \in 1 .. Len(got[1]) : got[1][i] = c
            \/ /\ Len(got[1]) = plan[1].limit
               /\ Len(c) < Len(got[1][plan[1].limit])

\* `dbsnap report` decides from the history it read first whether HEAD~1
\* exists, and reads HEAD again for the diff: that never goes past the root.
ReportInRange == cmd = "report" => outcome # "pastRoot"

\* The sections of a report, each from a HEAD of its own, never go back: unless
\* HEAD was being rewritten just then, verify has checked every commit of the
\* timeline, and the diff's new side is the newest commit checked or a later one.
ReportGoesForward ==
    (cmd = "report" /\ outcome = "ok" /\ got[2] # <<>>) =>
        /\ \A i \in 1 .. Len(got[1]) : \E j \in 1 .. Len(got[2]) : got[2][j] = got[1][i]
        /\ Len(got) = 4 => IsAncestor(got[2][1], NewSide)

\* A prefix resolves to a commit only if no other commit the user can know has
\* it; it is rejected as ambiguous only when two commit files share it, and as
\* unknown only when no known commit has it.
Known(p) == {c \in seen : Short(c) = p}
PrefixIsFaithful ==
    \A i \in DOMAIN plan : plan[i].kind = "prefix" =>
        /\ i \in DOMAIN got => /\ Short(got[i][1]) = plan[i].prefix
                               /\ Known(plan[i].prefix) \subseteq {got[i][1]}
        /\ outcome = "noMatch" => Known(plan[i].prefix) = {}
        /\ outcome = "ambiguous" =>
             \E c, d \in CommitsOnDisk : c # d /\ Short(c) = plan[i].prefix
                                               /\ Short(d) = plan[i].prefix

\* Every command ends, also while commits go on beside it: what it has still to
\* read is fixed by the HEADs it has found.
CommandEnds == (cmd # "none") ~> (outcome # "none")
===============================================================================
