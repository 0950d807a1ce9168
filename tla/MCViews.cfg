CONSTANTS
    r1 = r1
    r2 = r2
    r3 = r3
    Rows = {r1, r2, r3}
    Costs <- ThreeCosts
    Books = {m, k}
    Cards = {k}
    Connected = {k}
    Categories = {c}
    NoCategory = NoCategory
    Days = {3, 4, 7}
    Moved = {4}
    Undated = Undated
    DaysInMonth = 4
    Opening = {r3}
    Limits = {1, 2}
    MaxDay = 7
    MaxSteps = 3
SPECIFICATION ViewsSpec
SYMMETRY Swap
INVARIANTS
    DashboardAgrees
    ReportsAgree
PROPERTIES
    ChangesFromMonthOn
CHECK_DEADLOCK FALSE
