\* Any reading command beside one committing process, whose calls may be cut
\* off before HEAD is rewritten.
SPECIFICATION RSpec
CONSTANTS
    t1 = t1
    t2 = t2
    Committers = {w1}
    TableHashes = {t1, t2}
    States <- MCStates
    Metas = {m1}
    MaxRuns = 4
    FailurePoints = {"tables", "commit", "ref"}
    Abbreviations = {0, 1}
    Short <- MCShort
    Commands = {"log", "status", "export", "verify", "diff", "report"}
INVARIANTS
    ReaderTypeOK
    FailsOnlyOnAbandoned
    DiffGoesForward
    LogIsComplete
    ReportInRange
    ReportGoesForward
    PrefixIsFaithful
    CreatedInHistory
PROPERTIES
    AppendOnly
    ImplementsLedger
    CommandEnds
CHECK_DEADLOCK FALSE
