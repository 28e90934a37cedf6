\* Three commands of two processes in two nested directories: inits with schemas of
\* different and of the same length, with and without a connection string.
SPECIFICATION Spec
CONSTANTS
    Processes = {p1, p2}
    Depth = 1
    Schemas = {"public", "tenant", "sales"}
    Flags <- MCFlags
    Environments <- MCEnvironments
    Length <- MCLength
    MaxCalls = 3
    MayBeCut = TRUE
SYMMETRY Symmetry
INVARIANTS
    LifecycleTypeOK
    LayoutBeforeConfig
    InitIsFinal
    HalfMadeWasCut
    FindsNearest
    ConnectsAsGiven
PROPERTIES
    HalfMadeStays
CHECK_DEADLOCK FALSE
