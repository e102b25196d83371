SPECIFICATION Spec
CONSTANTS
    File = {f1, f2}
    LastNight = 4
    RETENTION_DAYS = 1
INVARIANTS
    TypeOK
    RowsHaveFiles
PROPERTIES
    PairKept
SYMMETRY
    MCFiles
CHECK_DEADLOCK FALSE
