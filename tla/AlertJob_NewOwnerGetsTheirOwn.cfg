SPECIFICATION FairSpec
CONSTANTS
    MEMBER = {m1}
    MANAGER = {g1}
    ADMIN = {}
    None = None
    Task = {t1}
    NoTask = NoTask
    Deleted = Deleted
    DueInput <- MCDueInput
    LastDay = 3
    MaxKills = 0
PROPERTIES
    NewOwnerGetsTheirOwn
