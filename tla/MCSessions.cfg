CONSTANTS
    b1 = b1
    Bills = {b1, b2}
    Rows = {r1, r2, r3, r4, r5}
    Generators = {g1, g2}
    Syncs = {y1}
    Charges = {c1}
    NoCharge = NoCharge
    Fulfils <- PaysFirst
    Last = 1
    Nobody = Nobody
    MaxAborts = 1
SPECIFICATION FairSpec
INVARIANTS
    NothingLost
PROPERTIES
    EverythingDue
CHECK_DEADLOCK FALSE
