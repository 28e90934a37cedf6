\* Any three statements after HEAD was recorded.
SPECIFICATION Spec
CONSTANTS
    Databases <- MCDatabases
    Keys = {"1", "2"}
    ValuesOf <- MCValuesOf
    MaxStatements = 3
INVARIANTS
    LiveTypeOK
    EmptyMeansSameRows
    ReportsOnlyTouched
    ChangesRebuildRow
    ReportIsReversible
    ExportIsFaithful
    UpdatesAreShown
CHECK_DEADLOCK FALSE
