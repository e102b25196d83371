SPECIFICATION Spec
CONSTANTS
    Process = {p1, p2}
    Restorer = {p1, p2}
    MaxPk = 2
INVARIANTS
    NoBlankRef
SYMMETRY
    MCProcesses
CHECK_DEADLOCK FALSE
