SPECIFICATION Spec
CONSTANTS
    Process = {p1, p2, p3}
    User = {1, 2}
    Reachable = {1, 2}
    AssignInput <- MCAssignInput
    WatcherInput <- MCWatcherInput
    Nobody = Nobody
INVARIANTS
    TypeOK
    DeadlocksExplained
    AlertsMailedOnce
    KeptNoticesMailed
PROPERTIES
    WatchersToldAtCommit
SYMMETRY
    MCProcesses
CHECK_DEADLOCK FALSE
