SPECIFICATION FairSpec
CONSTANTS
    MEMBER = {}
    MANAGER = {g1}
    ADMIN = {}
    None = None
    Task = {t1, t2}
    NoTask = NoTask
    Deleted = Deleted
    DueInput <- MCDueInput
    LastDay = 3
    MaxKills = 1
INVARIANTS
    TypeOK
    RunComplete
PROPERTIES
    SecondRunIsNoop
    OverdueReachesEveryone
