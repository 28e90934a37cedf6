\* Transactions that only change rows are enough to tear the capture.
SPECIFICATION Spec
CONSTANTS
    Engines = {"postgres", "mysql"}
    TableOrder <- MCTableOrder
    Databases <- MCDatabases
    Rows <- MCRows
    Keys <- MCKeys
    NewNames = {"renamed", "t"}
    Serial <- MCSerial
    MaxStatements = 2
INVARIANTS
    CaptureIsOneState
CHECK_DEADLOCK FALSE
