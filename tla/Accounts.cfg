SPECIFICATION AccSpec
CONSTANTS
    MEMBER = {m1}
    MANAGER = {}
    ADMIN = {a1}
    None = None
    Task = {t1}
    Worker = {w1}
    Staff = {a1}
    Idle = Idle
    NoRow = NoRow
    PriorityInput <- MCPriorityInput
    WatcherInput <- MCWatcherInput
    FormInput <- MCFormInput
    MaxSaves = 2
INVARIANTS
    AccTypeOK
    OrphansMadeLater
    OnlyUserDeletionIsUnlogged
CHECK_DEADLOCK FALSE
