\* One statement that gives a column a value is enough.
SPECIFICATION Spec
CONSTANTS
    Databases <- MCDatabases
    Keys = {"1", "2"}
    ValuesOf <- MCValuesOf
    MaxStatements = 1
INVARIANTS
    ExportRecreatesRows
CHECK_DEADLOCK FALSE
