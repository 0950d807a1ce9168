CONSTANTS
    Users = {owner, friend}
    Owner = owner
    Nobody = Nobody
    Members = {m1, m2, m3}
    Entries = {r1}
    Settlements = {s1}
    Amounts = {2, 3}
    Payments = {1}
    Percents = {30, 40, 70, 100}
    MaxEdits = 6
SYMMETRY Symmetry
SPECIFICATION GroupSpec
INVARIANTS
    GroupTypeOK
    SharesCover
    MoneyAddsUp
CHECK_DEADLOCK FALSE
