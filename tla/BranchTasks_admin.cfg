SPECIFICATION AppSpec
CONSTANTS
    m1 = m1
    a1 = a1
    MEMBER = {m1}
    MANAGER = {}
    ADMIN = {a1}
    None = None
    Task = {t1}
    Worker = {w1}
    Staff = {a1}
    Idle = Idle
    NoRow = NoRow
    PriorityInput = {2, 4}
    WatcherInput = {{m1}}
    FormInput <- MCFormInput
    MaxSaves = 3
    AlertInput = {}
    AdminKind = {"status_changed"}
INVARIANTS
    AuditCurrent
PROPERTIES
    LifecycleSpec
    WatchersTold
CHECK_DEADLOCK FALSE
