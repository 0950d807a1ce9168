CONSTANTS
    Rows = {r1, r2, r3, r4}
    Accounts = {a1, a2, a3}
    Connected = {a1, a2, a3}
    NoAccount = NoAccount
    Days = {0, 2}
    Amounts = {100}
    Entered = {"manual"}
    Pairs = {p1, p2}
    NoPair = NoPair
    Sessions = {s1}
SPECIFICATION SerialSpec
SYMMETRY Symmetry
INVARIANTS
    PairsComplete
    DetectionFaithful
PROPERTIES
    KeepsMatching
CHECK_DEADLOCK FALSE
