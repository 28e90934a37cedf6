\* A write of an object is cut off and the call is repeated.
SPECIFICATION Spec
CONSTANTS
    t1 = t1
    t2 = t2
    Committers = {w1}
    TableHashes = {t1, t2}
    States <- MCStates
    Metas = {m1}
    MaxRuns = 3
    FailurePoints = {"tables", "tree", "commit"}
INVARIANTS
    CreatedReadable
CHECK_DEADLOCK FALSE
