CONSTANTS
    AutoRows = {a1, a2, a3, a4, a5}
    ManualRows = {h1}
    Charges = {c1}
    Lines = {l1}
    LineDay <- MonthLineDay
    Exact = {c1, l1}
    NoCharge = NoCharge
    Frequency = "monthly"
    Start = 29
    End = 59
    Days <- MonthDays
    Horizon = 59
    MaxEdits = 1
SPECIFICATION FairSpec
INVARIANTS
    OneRowPerOccurrence
    OneRowPerCharge
    ForecastOnce
PROPERTIES
    FollowsCalendar
    DueOccurrencesSettle
CHECK_DEADLOCK FALSE
