SPECIFICATION Spec
CONSTANTS
    MEMBER = {m1}
    MANAGER = {g1}
    ADMIN = {}
    None = None
    Task = {1, 2}
    NoRow = NoRow
    Branch = {b1, b2}
    full_name <- MCFullName
    DueInput <- MCDueInput
    PriorityInput <- MCPriorityInput
    LastDay = 1
    DaysPerMonth = 1
    KpiDays = 0
    KpiMonths = 1
    OrderingInput <- MCOrderingInput
    SizeInput <- MCSizeInput
    PageSize = 1
    MaxPageSize = 2
    HtmlPageSize = 1
INVARIANTS
    TypeOK
    OverdueAgrees
    OpenAgrees
    ClosedAgrees
    PagesAreTheExport
PROPERTIES
    CancelKeepsKpis
SYMMETRY
    MCBranches
