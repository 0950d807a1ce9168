SPECIFICATION FairChat
CONSTANTS
    Turns = {1, 2}
    MaxIters = 2
    Limit = 4
    MaxCalls <- FirstCalls
    MaxRows = 13
    MaxCuts = 1
INVARIANTS
    Transcript
PROPERTIES
    TurnEnds
CHECK_DEADLOCK FALSE
