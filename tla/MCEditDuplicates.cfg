CONSTANTS
    AutoRows = {a1, a2, a3}
    ManualRows = {}
    Charges = {c1}
    Lines = {}
    LineDay <- NoLineDay
    Exact = {c1}
    NoCharge = NoCharge
    Frequency = "monthly"
    Start = 31
    End = 62
    Days <- FirstDays
    Horizon = 61
    MaxEdits = 1
SPECIFICATION Spec
SYMMETRY RowSymmetry
INVARIANTS
    OneRowPerOccurrence
CHECK_DEADLOCK FALSE
