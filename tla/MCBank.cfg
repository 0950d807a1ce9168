CONSTANTS
    a1 = a1
    a2 = a2
    out = out
    again = again
    s1 = s1
    s2 = s2
    Sessions = {s1, s2}
    Worker = s1
    Callback = Callback
    Accounts = {a1, a2}
    First = a1
    After <- InOrder
    NoAccount = NoAccount
    Charges = {out, inn, again}
    Phantoms = {again}
    Foreign = {inn}
    AccountOf <- Payment
    Amount <- Signed
    History <- Held
    MaxFaults = 2
    MaxListed = 1
SPECIFICATION SmallSpec
INVARIANTS
    TypeOK
    AddsUpBetweenSyncs
    DeletedStaysDeleted
PROPERTIES
    Arrives
CHECK_DEADLOCK FALSE
