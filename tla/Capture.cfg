\* Up to two transactions of other sessions at any point of the capture.
SPECIFICATION Spec
CONSTANTS
    Engines = {"postgres", "mysql"}
    TableOrder <- MCTableOrder
    Databases <- MCDatabases
    Rows <- MCRows
    Keys <- MCKeys
    NewNames = {"renamed", "t"}
    Serial <- MCSerial
    MaxStatements = 2
INVARIANTS
    CaptureTypeOK
    QuietCaptureIsExact
    CaptureMovesForward
    RowFitsSchema
CHECK_DEADLOCK FALSE
