\* The write of refs/HEAD is cut off and the next call starts a new root.
SPECIFICATION Spec
CONSTANTS
    t1 = t1
    t2 = t2
    Committers = {w1}
    TableHashes = {t1, t2}
    States <- MCStates
    Metas = {m1}
    MaxRuns = 3
    FailurePoints = {"refwrite"}
INVARIANTS
    CreatedInHistory
CHECK_DEADLOCK FALSE
