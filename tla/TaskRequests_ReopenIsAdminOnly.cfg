SPECIFICATION Spec
CONSTANTS
    MEMBER = {m1}
    MANAGER = {g1}
    ADMIN = {a1}
    None = None
    Task = {t1}
    Worker = {w1, w2}
    Staff = {}
    Idle = Idle
    NoRow = NoRow
    PriorityInput <- MCPriorityInput
    WatcherInput <- MCWatcherInput
    FormInput = {}
    MaxSaves = 3
PROPERTIES
    ReopenIsAdminOnly
