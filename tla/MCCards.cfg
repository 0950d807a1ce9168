CONSTANTS
    Rows = {r1}
    Charges = {f1}
    Bills = {b1, b2}
    NoBill = NoBill
    Days = {31, 58, 59}
    DueDates = {41, 69}
    CloseDays = {3, 28, 31}
    DueDays = {10, 25}
    Today = 60
    MaxEdits = 2
SPECIFICATION Spec
INVARIANTS
    EffectiveDates
    BillsPartition
CHECK_DEADLOCK FALSE
