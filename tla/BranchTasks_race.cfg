SPECIFICATION AppSpec
CONSTANTS
    m1 = m1
    a1 = a1
    MEMBER = {m1}
    MANAGER = {}
    ADMIN = {a1}
    None = None
    Task = {t1}
    Worker = {w1, w2}
    Staff = {}
    Idle = Idle
    NoRow = NoRow
    PriorityInput = {2}
    WatcherInput = {{}}
    FormInput = {}
    MaxSaves = 3
    AlertInput = {"due_soon"}
    AdminKind = {}
INVARIANTS
    AppTypeOK
    StatusSaveAccepted
    WaitingHasBlocker
    AssigneeGranted
    AssigneeTold
PROPERTIES
    FreshStepsLegal
    NoticesWithdrawnOnlyByReassignment
    AlertsMoveWithTheTask
SYMMETRY
    MCWorkers
