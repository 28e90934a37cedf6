\* Two processes commit at the same time; calls are cut off between writes at most.
SPECIFICATION FairSpec
CONSTANTS
    t1 = t1
    t2 = t2
    Committers = {w1, w2}
    TableHashes = {t1, t2}
    States <- MCStates
    Metas = {m1, m2}
    MaxRuns = 4
    FailurePoints = {"head", "compare"}
INVARIANTS
    TypeOK
    WriteOrder
    NoRedundantCommit
    TornIsInFlight
    CreatedReadable
PROPERTIES
    Settles
CHECK_DEADLOCK FALSE
