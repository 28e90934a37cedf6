\* Two processes commit at the same time and no call is cut off.
SPECIFICATION Spec
CONSTANTS
    t1 = t1
    t2 = t2
    Committers = {w1, w2}
    TableHashes = {t1, t2}
    States <- MCStates
    Metas = {m1}
    MaxRuns = 3
    FailurePoints = {}
INVARIANTS
    CreatedInHistory
CHECK_DEADLOCK FALSE
