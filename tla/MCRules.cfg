SPECIFICATION RulesSpec
CONSTANTS
    Spaces = {1, 2}
    RowIds = {1}
    RuleIds = {1, 2}
    CatIds = {"food", "home", "new"}
    PayeeIds = {"p", "q"}
    ByHand = {"p"}
    CatNames = {"Food", "Home"}
    RuleNames = {"R", "S"}
    Conditions <- TwoConditions
    Actions <- TwoActions
    Priorities = {1, 2}
    Words = {"tag"}
    Marks = {"shop", "else"}
    FirstCats <- OneEach
    Pack <- OnePack
    Universal <- OneDefault
    MaxChanges = 4
INVARIANTS
    RulesDecide
PROPERTIES
    RulesTravel
CHECK_DEADLOCK FALSE
