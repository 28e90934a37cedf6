# dbsnap in TLA+

A model of `dbsnap`, the content-addressed snapshot tool in this repository: how a
repository comes to be and is found, what `dbsnap commit` does to the `.dbsnap/`
directory step by step, what the reading commands see beside it, what `verify` can
and cannot notice, and what the live comparison, the exports and the reports say.
TLC checks the models on small instances; TLAPS proves every safety property that the
passing runs check, and the printed dates, for every instance.

## The system

| Component | State | Operations |
|---|---|---|
| Object store and HEAD (`dbsnap-storage`) | files under `tables/`, `trees/`, `commits/` named by the hash of their content; `refs/HEAD`; `config.toml` | three writers of the form "return if the path exists, else `fs::write`"; three readers; `set_head`, `head`; `resolve` (HEAD, HEAD~N, hash, prefix); `chain`; `init`, `open`, `discover` |
| Engine (`dbsnap-engine`) | none of its own | `commit`, `history`, `status`, `snapshots_at`, `diff`, `live_diff`, `verify`, `export` |
| Hash hierarchy (`dbsnap-core`, `dbsnap-hashing`) | none | row, schema, table, tree and commit hashes; the key of a row |
| Integrity (`dbsnap-integrity`) | the growing report | `verify_chain`, `verify_table` |
| Diff (`dbsnap-diff`) | none | `diff_tables`, `column_changes`, `diff_snapshots` |
| Capture (`dbsnap-postgres`, `dbsnap-mysql`) | the database, which others change | list tables; per table introspect schema, then read rows |
| Export (`dbsnap-export`) | none | JSON and SQL text of table snapshots |
| HTML report (`dbsnap-report`), terminal output | none | rendering of a diff, a verify report, a history |
| CLI (`dbsnap-cli`) | flags, `DATABASE_URL` | finding the repository and the database; the order of engine calls in each command |
| Clock and dates (`dbsnap-core/time.rs`) | none | seconds since 1970 to a calendar date |

**Interaction.** Each command is a process of its own. A process calls the engine,
the engine the store, the store the file system; two processes on one directory
share nothing but its files, and no lock is taken anywhere. `commit` awaits the
capture and then runs file operations in sequence; every one may end the call with
`?`, and the process may be killed at any point. Nothing is rolled back and
nothing is cleaned up by a later call. `init` is such a sequence too: five
directories, then `config.toml`; all other commands look upwards for that one
file. The writing of that file is two steps as well.

**What is hard.** Overlapping commits (existence check and write are apart, so are
the read and the write of HEAD); a call cut off between or inside writes, and the
next call that believes the paths it finds; readers between two steps of a writer
and between two moves of HEAD; combinations of alterations that each satisfy one
of the checks of `verify`; and the corner cases of the diff (schema changes,
duplicate rows, columns on one side only).

**What makes each part correct.**

- commit: references never dangle; a created commit can be read in full and stays
  in the history of HEAD; no commit repeats its parent's tree; the store only
  grows; one committing process is an append to a log of states.
- lifecycle: a repository is found only when it is complete enough to commit to;
  what an `init` was told stays; a command uses a schema and a connection string
  that were told, together unless inits overlapped.
- readers: they fail only on a store that is really damaged; a diff goes forward
  in time; a walk lists everything recorded before.
- verify: satisfied when, and only when, the store says what was recorded.
- capture: exact when nobody else writes; otherwise at least forward in time, each
  row with its key.
- exports and reports: the export of plain rows replays to them; an updated row is
  shown as different as far as a cell reaches.
- dates: each day is followed by the next one of the calendar.
- live comparison: names only rows that were written; empty only when nothing
  differs; its changes rebuild the live rows.

The hazards are listed line by line in `PROJECT.json`, with the properties that
cover them.

## Modules

| Module | Models | Uses |
|---|---|---|
| `Ledger` | abstract specification: an append-only log of states, no two neighbours equal | |
| `CommitProtocol` | `Repository::commit` over `Store`, several processes, calls cut off | refines `Ledger` |
| `Lifecycle` | `init`, `discover`, `open`, the choice of the connection string; several processes, inits cut off | |
| `HistoryReaders` | log, status, export, verify, diff, report beside commits | extends `CommitProtocol` |
| `Snapshots` | the hash hierarchy, as operators | |
| `Integrity` | `verify_chain` over an altered store | extends `Snapshots` |
| `Database` | the database outside: tables, SQL statements, and the contract of `SnapshotSource` | extends `Snapshots` |
| `Capture` | `capture` of both sources while other sessions commit | extends `Database` |
| `Diff` | `dbsnap-diff`, as operators | extends `Database` |
| `Export` | the JSON and SQL export, and PostgreSQL replaying the latter, as operators | extends `Diff` |
| `Rendering` | the change lists of the HTML report and the terminal, as operators | extends `Export` |
| `LiveDiff` | `live_diff` after SQL statements, with its export and its rendering | extends `Rendering` |
| `Calendar` | `civil_from_days`, `format_unix_utc`, and the Gregorian calendar | |
| `CommitProtocolProofs` | theorems | extends `CommitProtocol` |
| `LifecycleProofs` | theorems | extends `Lifecycle` |
| `ReaderProofs` | theorems | extends `HistoryReaders`, `CommitProtocolProofs`, `Collections` |
| `IntegrityProofs` | theorems | extends `Integrity`, `Collections` |
| `CaptureProofs` | theorems | extends `Capture`, `Collections` |
| `LiveDiffProofs` | theorems | extends `LiveDiff`, `Collections` |
| `CalendarProofs` | theorems | extends `Calendar` |
| `Collections` | lemmas about numbers, sequences and finite sets | |
| `MC...` | the constants of TLC's instances | |

### Lifecycle

Directories `0 .. Depth` are nested. `made` says which parts of `.dbsnap` exist in
each, `config` the texts in `config.toml`: none (no file, or one between the two
halves of `fs::write`), one, or, when several inits had it open at once and a
shorter text was written over a longer one, the last text with what the others
left behind its end. Texts are measured in characters (`Length`), and that decides
what `toml::from_str` makes of such a file. What is left may be the whole line
`database_url` of another text, the same line without its first characters (an
unknown key, which is skipped), a closing newline, or a piece that is no TOML
(`Readable`, `Parsed`). An `init` checks for `.dbsnap`, makes `commits`,
`trees`, `tables` and `refs`, and writes the file; `CutOff` ends it anywhere with
what it has made left behind. Every other command looks for `config.toml` from the
directory it was run in upwards, one directory per step while inits go on, reads
the file, and may pick a connection string: `DATABASE_URL` if it is set and not
empty, else the stored one, which is the flag or the variable of `init`'s time
(clap's `env`), so an empty variable is stored as an empty string. The scheme of
the string picks the engine. `given`, `cutAt`, `overlapped` and `before` are
history variables. Schemas and connection strings hold no quotes, backslashes,
`#` or line breaks; TOML writes these otherwise.

### CommitProtocol

A process goes through the stages of `commit()`: `tables` (the loop), `tree`,
`head` (read HEAD), `compare` (read the parent, compare trees, compose), `commit`,
`ref` and `refwrite` (the two halves of `set_head`). Storing one object is a
machine of its own (`io`): check the path, open (create or truncate), write.
`fs::write` is open-and-truncate followed by the content, so a file is in `files`
from the open on and in `intact` only after the write; HEAD becomes empty (`<<>>`)
and then gets the hash.

`Fail(w)` stands for a `?` on an I/O error and for the death of the process: the
local state is gone, the files stay. `FailurePoints` names the stages where it may
happen. A failed `read_commit` of the parent is `ParentUnreadable`.

Hashes are symbolic. A table hash is a model value; a captured state is the set of
its table hashes and stands for its tree hash, which is a function of it. A commit
hash folds in the parent's hash, so it is the whole ancestry: a sequence of
`[tree, meta]` entries. `meta` stands for message, author and timestamp; two calls
may have the same (the clock has seconds), and then two processes do write the
same commit path.

Deviations: the table loop may store tables in any order (the code takes the order
of the capture, which is by name), so the model has more behaviours; the content
of a file arrives in one step, readers that meet it earlier find it unreadable; a
hash written to HEAD arrives whole. There is no loss of flushed data: the code
never syncs, and a power failure that loses completed writes is outside the model.

### HistoryReaders

One reading process follows a `plan` of reads. `Walk(n)` is history with
`--limit`, `Check` verify (commits, trees and tables), `Peek` status (commit and
tree of HEAD); `At(n)`, `ByHash(c)` and `ByPrefix(p)` resolve `HEAD~n`, a full
hash and the beginning of a hash and then load the tables recorded there. Each
read starts from HEAD anew as the code does, and reads its objects one file per
step, in the code's order (the tables of a tree in some fixed one). A full hash is
one that some call has reported; a prefix may be anything, and `resolve_prefix`
lists `commits/` in two steps: it returns what existed at its beginning and any
part of what has appeared since. Prefixes of fewer than four characters are
refused before anything is read and are left out. `report` decides after the first
read whether to diff.

`blamed` are the files a failed command could not read; `seen` what had been
created when it began. `verify` runs with `--live`. In `status` a database is
reachable; the code prints and swallows an error of its live comparison, here it
is the outcome.

### Snapshots, Integrity

A hash is a record of its domain tag and of exactly the data the code feeds the
hasher: equal hashes mean equal input (no collisions of BLAKE3). The concatenation
of columns and primary-key names in `schema_hash` has no element counts; it is
taken to be unambiguous, which it is for names shorter than 64 KiB. `Integrity`
starts from the store `commit()` leaves for a history, applies up to
`MaxAlterations` changes of well-formed objects (contents exchanged, rows, keys,
schemas, counts, parents or trees replaced, files removed; HEAD set to another
commit or removed), then runs `verify_chain`: first the whole chain, then commit
by commit, tree, tables. Files that are not well-formed JSON act as missing ones
(the read fails). What `verify` is asked to notice is stated against `recorded`,
the store before the alterations: satisfied when, and only when, every object
behind HEAD says what it said then. A HEAD set back to an ancestor has a true
history behind it, and both properties agree that `verify` passes it. Altered
parents may form a cycle; then `chain()` reads on for ever (and keeps what it has
read), which is why `VerifyEnds` asks for an acyclic chain.

### Diff, Export, Rendering, LiveDiff

`Diff` is the diff as operators; lists the code sorts are sets. `LiveDiff` starts
with a recorded database and runs INSERT, DELETE, UPDATE of one column, ADD
COLUMN, a change of type that leaves the JSON alone, DROP and CREATE TABLE; the
properties speak of what `live_diff` would report in each state, and of what an
export or a rendering made of it would say. A capture sees one state of the
database here (see `Capture` for when it does).

A JSON value is a string of the model: text, a number (`+7`), a boolean, a
structure or null. `Export` turns it into the literal `sql_literal` writes and
then, on the side of PostgreSQL, into what a column of type `text`, `varchar`,
`integer`, `boolean`, `jsonb` or `text[]` stores of that literal, or a refusal,
which is one of the whole INSERT. `text[]` stands for all types that render as JSON
without being `jsonb` (arrays, composite types, hstore). `Rendering` is what is
left of two values when they are printed: the HTML report cuts a text of more than
120 characters (`Over120`), the terminal one of more than 60 (`Over60`), and null
and the text that looks like it coincide.

### Calendar

`CivilFromDays` and `FormatUnixUtc` follow the arithmetic of `time.rs` for the
seconds `format_unix_utc` lets through (positive, so the branch for days before
the era is never taken). `NextDay` is the Gregorian calendar. Dates print as
numbers of year, month and day; padding is left out. No state machine uses them,
so there is no run: the theorems cover every day, and nothing overflows, since the
largest quotient of an `i64` by 86400 leaves room for the shift.

### Database, Capture

`Capture` sends the queries of `snapshot_all` one by one: list the tables; per
table the columns, the key, the rows. Between any two of them another session may
commit a transaction: insert, delete, move a row between tables, add or rename a
column, add a key column with generated values, change a key, drop or re-create a
table. The engines differ where their
queries do: PostgreSQL's key query fails for a missing table (the cast to
`regclass`), and its rows are whole rows as they are now; MySQL's rows have the
columns found before, and its query fails when one of them is gone. Both fail when
a column they order by is gone. In PostgreSQL's `to_jsonb(t)` a column named `t`
comes before the alias (`Shadows`): the data of a row is then the value of that
column (`Scalar`), none of the key columns is in it, and a NULL fails the query. Such
values are scalars here; an object would be taken for the row itself. `log` holds the states of the database since the
capture began, `ddl` whether a table was defined anew. A lost connection is not
modelled: it ends the capture with an error before `commit()` has written
anything.

`QuietCaptureIsExact` is what the other modules take for granted of a capture
(`Captured`): that nobody else writes, which `TornCapture` shows is needed, and that
PostgreSQL has no table with a column `t`.

## Runs

| Run | Instance | Shows |
|---|---|---|
| `CommitConcurrent` | 2 processes, 4 calls, cut off at most between the tree and the commit, 2 states that share a table, 2 metas, fair | `WriteOrder`, `NoRedundantCommit`, `TornIsInFlight`, `CreatedReadable`, `Settles` |
| `Lifecycle` | 2 processes, 3 calls, 2 nested directories, 3 schemas of 2 lengths, inits cut off anywhere | `LayoutBeforeConfig`, `InitIsFinal`, `HalfMadeWasCut`, `HalfMadeStays`, `FindsNearest`, `ConnectsAsGiven` |
| `Readers` | 1 committing process (cut off at tables, commit or ref), 1 reader, all six commands | `CreatedInHistory`, `AppendOnly`, `ImplementsLedger`; `FailsOnlyOnAbandoned`, `DiffGoesForward`, `LogIsComplete`, `ReportInRange`, `ReportGoesForward`, `PrefixIsFaithful`, `CommandEnds` |
| `Verify` | 4 histories of up to 3 commits, 2 alterations | `VerifyIsSound`, `VerifyIsComplete`, `VerifyEnds` |
| `LiveDiff` | a keyed table with or without a keyless one, one with a two-column key, one with jsonb and array columns, one with numbers and booleans; 3 statements | `EmptyMeansSameRows`, `ReportsOnlyTouched`, `ChangesRebuildRow`, `ReportIsReversible`, `ExportIsFaithful`, `UpdatesAreShown` |
| `Capture` | both sources, up to 2 tables of 4 kinds, one with a column `t`, 2 transactions | `QuietCaptureIsExact`, `CaptureMovesForward`, `RowFitsSchema` |
| `TornObject` | 1 process, writes of objects cut off | `CreatedReadable` fails |
| `LostHead` | 1 process, rewrite of HEAD cut off | `CreatedInHistory` fails |
| `LostUpdate` | 2 processes, no failures | `CreatedInHistory` fails |
| `SchemaDrift` | as `LiveDiff` | `EmptyMeansSameTree` fails |
| `TornCapture` | as `Capture` | `CaptureIsOneState` fails |
| `LossyExport` | as `LiveDiff`, 1 statement | `ExportRecreatesRows` fails |

Each module also has a type invariant (`TypeOK`, `...TypeOK`) that its run checks.
`CHECK_DEADLOCK FALSE` everywhere: the number of calls, alterations and statements
is bounded and a command ends.

**The six disagreements** (`findings` in `PROJECT.json`):

1. `TornObject`. A write of an object is cut off; the path exists. The next commit
   of the same content skips it, moves HEAD and reports Created. The commit cannot
   be exported or diffed, `verify` ends in an error, and no later commit of that
   content repairs the file.
2. `LostHead`. `set_head` is cut off after the truncation. The next commit finds
   no HEAD and becomes a new root.
3. `LostUpdate`. Two commits read the same HEAD; both report Created; the first
   one's commit is in no history afterwards.
4. `SchemaDrift`. `verify --live` reports a match after a change of a column's
   type, though the next commit would record another tree; so it does when one of
   two equal rows of a table without a primary key is gone.
5. `TornCapture`. A transaction that moves a row from one table to another between
   two reads leaves the row in both snapshots (or in none).
6. `LossyExport`. An array becomes a `jsonb` literal, which PostgreSQL assigns to no
   array column; a bare jsonb number, boolean or string reads differently or is
   refused. `ExportIsFaithful` says which rows are recreated.

Also visible in the models, without a run of their own:

- `status`, `log` and `verify` between the two halves of `set_head` say that there
  are no commits (`FindNoCommits`), and `report` then has an empty section; `log
  --limit 0` says so too.
- A PostgreSQL table with a column `t` is captured as the values of this column, each
  row without its key and in a keyed table under one identity, even if nobody else is
  connected; a NULL among them fails the capture. `QuietCaptureIsExact`,
  `CaptureMovesForward` and `RowFitsSchema` except it by name.
- A key column that is added between two queries of the MySQL source leaves all rows
  of its table with one identity and without that column.
- When two inits overlap, one of them without a connection string and with a schema
  as long as the other's or one character shorter, `config.toml` may end as a valid
  Config with the schema of the one and the connection string of the other
  (`ConnectsAsGiven` says what is still true); with other lengths it may end
  unreadable (`HalfMadeWasCut`).
- An `init` that was cut off is not taken up by a second one, and its directory is
  an error or a gap to every other command for good (`HalfMadeStays`).
- A jsonb null and an SQL NULL are one value from the capture on. Identifiers are
  quoted for PostgreSQL whatever the source. An unknown `--table` gives an empty
  export.
- An updated row whose values differ only past the cut, or only as null and a text
  that prints alike, is listed with two equal cells (`UpdatesAreShown` names the
  cases).

So `CreatedInHistory` holds when commits neither overlap nor are cut off while
HEAD is rewritten, and each of the two conditions is needed. `CreatedReadable`
holds when no call is cut off, also for overlapping commits: a second writer
truncates what the first had written, but writes the same content again before its
call ends.

**Bounds.** Four calls (`MaxRuns`) are one to record a state, one to change it,
one to return to it or to overlap, and one to meet what they left. Two processes
are the pairs of every race here; a third could only repeat one of the two roles.
Two states that share a table let one call skip what another stored. Two `metas`
tell equal and different commits of one tree apart. `MaxChain = 4` is one more
than the longest history: only a cycle is longer, and on a cycle `chain()` never
ends, so the model stops there without a verdict. Two alterations are the smallest
number that can deceive two checks at once (a table and the entry that names it),
and one can be of HEAD. Three calls in `Lifecycle` are two inits that overlap or
of which the first is cut off, and a command that meets what they left; of two
directories either may be the repository, both or none. Two schemas of equal length
and a shorter one let the end of a text be a line, a piece of one, or nothing; the
theorems are about any number of texts and any lengths. Two abbreviations (`Short`
maps a commit to one) let a prefix match none, one and several commits. Three
statements allow a row to be added, changed and removed, or a column added and
then filled. Two transactions during a capture are a drop and a re-creation, or a
change of definition on either side of a query.

**Fairness.** No fairness is assumed of beginning a call, of a statement or of an
alteration. `Settles` has weak fairness of `Proceed(w)`: a process that has begun
a call is scheduled until it returns; nothing in `commit()` blocks on another
process. `CommandEnds` has that of the reader's steps only (`ReadFairly`): commits
may go on or stop beside it. `VerifyEnds` has that of the steps of `verify`.

## Proofs

`CommitProtocolProofs` is about any number of processes, any sets of tables and
states, any metas, and calls cut off at any stage. The one assumption on the
constants is `StatesAreTableSets` (a state is a set of table hashes).

- `TypeCorrect`, `WritesAreOrdered`, `CommitsDiffer`: `TypeOK`, `WriteOrder` and
  `NoRedundantCommit` are invariants. `WriteOrder` is not inductive: that the next
  file has its references on disk depends on what the call has done. `IInv` adds,
  per process, that captured tables not in `todo` are stored, that the tree is
  stored once the call has passed it, that `parent` names an existing commit, that
  `draft` extends it with another tree, and that the object being written is one
  of those the stage allows. Since no file is ever removed, the facts about one
  process survive the steps of the others (`Frame`); each action has a lemma, and
  the induction puts them together (`IInvInvariant`).
- `TornFilesHaveWriters`: without failures, whatever is half-written has a writer
  at work.

Its second part is about one process: what it opens does not exist yet, so
`AppendOnly` holds even when calls are cut off anywhere (`SingleAppendOnly`). When
HEAD is never cut off, `Tip` (HEAD, or the parent while HEAD is being rewritten)
is the log: every created commit is a prefix of it (`SingleKeepsHistory`) and each
step appends a state or stutters (`SingleImplementsLedger`).

Its third part is about any number of processes again. `WriteOrder` speaks of one
step of reference. `Closed` says of every commit file that everything down to the
root exists: the one new commit of a step leads to itself, its tree and tables and
whatever its parent leads to, so the steps of the protocol do the induction.
`CreatedIsClosed` holds wherever calls are cut off: no file a created commit leads
to is missing, though one may be torn. `CreatedAreReadable` assumes that no call is
cut off and adds `TornFilesHaveWriters`: with nobody at work nothing is torn.

`ReaderProofs` puts one reader beside the commits (`ReaderAssumptions`: the commands
are the six that exist, `MaxRuns` is a natural). Commits do not notice it
(`CommitsGoOn`), so what is proved of them is ground to stand on (`Ground`).

- `ReaderTypes` and `PrefixesAreFaithful` hold beside any number of processes, cut
  off anywhere. The properties speak of the outcome; `ReaderInv` says of every
  stage of a read that what it has reached or still has to read exists, which
  reads each command can have planned, and, for a prefix, that the listing in hand
  contains what was known when it was begun.
- `ReadersFailOnAbandoned` is beside one process, cut off anywhere. `SettledOK`:
  whatever the reader still has to read is a file nobody is at work on, or that of
  a commit a prefix has led to before it was reported. With two processes the
  second may truncate what the first has finished, so the condition is needed.
- `DiffsGoForward`, `LogsAreComplete`, `ReportsInRange` and `ReportsGoForward` are
  beside one process that is never cut off while it rewrites HEAD; `LostUpdate` and
  `LostHead` show what becomes of the history otherwise. Each read begins at a HEAD
  of its own, so `FollowOK` compares them all with one line, `Tip`, which only
  grows: what earlier reads returned is behind the HEAD a later one finds, a walk
  is a connected piece of the line down from its HEAD, and HEAD~1 of a HEAD that
  had a parent has one for good.

`IntegrityProofs` is about any histories of captured tables and any number of
alterations (`IntegrityAssumptions`: the bounds are naturals, the histories are
sequences of sets of tables as a capture makes them). `Base` holds the shapes of
the objects and the chain as it is read and taken down.

- `SatisfiedOnlyByTheRecord` (`VerifyIsSound`): `WalkOK` says that, as long as
  nothing was reported, some set of commits from HEAD down has been checked in full
  but for the entries still to do, and that it is closed under parents but for the
  next. At the end it is closed altogether, so the history of HEAD is within it;
  each of its objects is named by its hash, which fixes its content.
- `TheRecordSatisfies` (`VerifyIsComplete`): `TrustOK` says that, while the history
  of HEAD is as recorded, the walk only meets recorded objects, which have no fault.
- The lemmas on the hash of a table (`HashesByKey`, `SameHash`) say what `ByKey`,
  the sort by key fed to the hasher, keeps: each row hash as often as it occurs.

`CaptureProofs` is about any tables of either engine and any number of transactions
between the queries. `CaptureAssumptions` says that the names in `TableOrder` are
different and the databases to begin with are databases: names of tables are
unique, a row has the columns of its table, a key is among them, and MySQL has no
table without columns (so an instance with `"mysql"` among its engines has none,
one with PostgreSQL alone may).

- Every statement leaves a database a database (`OthersStep`); that is also the
  first part of `CaptureInv`. The second follows the list of tables: a name leaves
  `todo` when its snapshot is taken. `ListsAll` says that `list_tables` names every
  table once.
- `CapturesMoveForward`: `Steady` holds while no table is defined anew, columns `t`
  of PostgreSQL excepted. Names taken
  and names to do are together those of the database, what was found of the current
  table is its definition, so neither query can fail and the rows belong to it
  (`SnapshotIsTable`); and there are moments, none before its predecessor, at which
  each snapshot was the table. `QuietCapturesAreExact` is the case of one moment.
- `RowsFitSchemas` needs none of this: a query that answers has every column it
  mentions, whatever happened before it, or is shadowed.

`LiveDiffProofs` is about any databases, any number of statements and any values of
the columns' types. `LiveAssumptions` says that the databases are databases and
that what a statement may write to a column fits its type.

- `ReportsReverse` and `ChangesRebuildRows` need no invariant: they are facts about
  `DiffTables` and `ColumnChanges` for any two snapshots.
- `ReportsNameTouched`, `EmptyIsSame` and `LiveTypes` rest on `LiveInv`: the
  database stays one, and it descends from the recorded one. `Descends` says that
  its tables keep the keys they had and that a row which is on one side only was
  written by some statement. Both sides are needed, since a row may leave and
  return.
- `ExportsAreFaithful` goes through the types of the columns: each value fits its
  type in each reachable state, and for those of plain types, and for objects in
  jsonb columns, `StoredAs` gives the value back (`LiteralStored`), so that no column
  refuses the INSERT. `UpdatesShown` rests on `ShownApart`: two different values of
  one kind look the same only when both are cut.

`LifecycleProofs` is about any number of processes, flags, environments and nested
directories, and inits cut off anywhere. `LifecycleAssumptions` says that the
bounds and the lengths of texts are naturals, that a flag or variable may be absent,
and that the marker for a Config not read yet is no schema. Which lengths schemas
and strings have is left open: nothing is assumed of what a mixed text reads as.
Each property rests on an invariant that speaks of the commands at work:

- `LifecycleTypes`: a process past its first steps holds a Config.
- `LayoutIsComplete`: that `config.toml` exists says nothing of how far another
  init has come. `LayoutInv` adds that what an init has not left to make is made,
  and nothing is ever taken away.
- `InitsAreFinal`, `HalfMadeHasCause`: `InitInv` adds that, while inits of a
  directory do not overlap, at most one is at work and until it is done the file
  is absent or empty; what is otherwise unfinished was left by one that was cut
  off, or holds more than one text. `HalfMadeForever` follows, since nobody begins where `.dbsnap` exists.
- `NearestIsFound`, `ConnectionIsGiven`: `SearchInv` adds that a repository which
  was there when a search began still has its `config.toml` and so cannot have been
  passed, and that any whole Config on disk, or read from it, is what a successful
  init of that directory was told, and that each text left in a file was told to one.

`CalendarProofs` has no assumption. `CalendarBegins`: day 0 is 1 January 1970.
`CalendarFollows`: for every natural `n`, the date of day `n + 1` is `NextDay` of
that of day `n`; the two determine every date the code prints. The proof follows
the code's own counting: years begin in March, so within one nothing depends on
leap years (`NextOfYear`, `NextWithinYear`); at its end the leap rule is that of
the civil year that begins in it (`LeapEveryEra`, `NextYear`); within an era of
146097 days each day is the next one of its year or the first of the next year
(`NextOfEra`), and after the last the next era begins (`LastOfEra`). `TimeOfDay`:
the hour, minute and second of a timestamp add up to it.

`Collections` has what the proofs share. The induction theorems of the library take
an operator as a parameter, which no backend can instantiate; `NatSetInduction` is
about a set of numbers instead, from the fact that inclusion of finite sets is well
founded. `Iterated` uses it to show that a recursive function on an interval exists
and follows its equation, which is what `Listed`, `ByKey` and `CommitsOf` need.

Only model-checked: liveness (`Settles`, `CommandEnds`, `VerifyEnds`), which is out
of the provers' reach, and the six runs that expect a violation.

## Not modelled

Connections and quoting of identifiers in the sources; layout, markup, colours and
wording of exports, reports and terminal output; argument parsing beyond the flags
above; exit codes; reading the clock; `fsync`; BLAKE3, zstd and JSON as such.
Unexpected bytes in HEAD are an error in the code and do not occur without an
alteration. Permissions, symbolic links and a directory removed under a running
command are left out of `Lifecycle`. Of PostgreSQL's side of an export, columns that
take no value (`GENERATED ALWAYS`), tables without columns, domains, checks and
foreign keys (and so the order of the tables) are left out, and of the capture a
column `t` whose values are objects.

## Plan

In order of importance; all but the last are done.

1. `CommitProtocol` with `Ledger`, and its proofs.
2. `HistoryReaders`.
3. `Snapshots`, `Integrity`.
4. `Diff`, `LiveDiff`.
5. Proofs for overlapping and for single commits.
6. `Database`, `Capture`.
7. `Lifecycle`; references by hash and by prefix while commits arrive.
8. Termination of the walks and of every command; alterations of HEAD.
9. `Export`, `Rendering`; `Calendar` with its proofs.
10. Proofs of the invariants of `Lifecycle`, and of `CreatedReadable` without
    failures.
11. Proofs about the readers, `verify`, the capture, the live comparison and the
    exports.
12. That the bytes fed to the hashes determine the data (`schema_hash` writes no
    element counts).
