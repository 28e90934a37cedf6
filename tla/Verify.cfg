\* verify after up to two alterations of the object files.
SPECIFICATION Spec
CONSTANTS
    Histories <- MCHistories
    Datas <- MCDatas
    Schemas <- MCSchemas
    Metas = {"m1", "m2"}
    MaxAlterations = 2
    MaxChain = 4
INVARIANTS
    IntegrityTypeOK
    VerifyIsSound
    VerifyIsComplete
PROPERTIES
    VerifyEnds
CHECK_DEADLOCK FALSE
