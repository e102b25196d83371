SPECIFICATION Spec
CONSTANTS
    Process = {p1, p2}
    User = {1, 2}
    Reachable = {1, 2}
    AssignInput <- MCAssignInput
    WatcherInput <- MCWatcherInput
    Nobody = Nobody
PROPERTIES
    NoticeSurvivesMail
CHECK_DEADLOCK FALSE
