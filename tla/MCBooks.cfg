CONSTANTS
    Batch = batch
    Refreshers = {batch, button}
    Quantities = {1, 2}
    Prices = {1, 2}
    MaxDay = 2
    MaxTrades = 3
    MaxMarketEdits = 5
    Worths = {2}
    Reports = {2, 3}
    FormDays = {0, 1, 2}
    Typed = {3}
    Rates = {1, 2}
    Step = 1
    RunLimit = 1
    BoughtOn = 1
    BoughtFor = 4
    MaxValuedEdits = 3
    Statements <- SixStatements
    Bill = "phone"
    StatementDays = {1, 2}
    Near = 1
    MaxImportEdits = 5
    Txs = {a, b}
    MaxPerTx = 1
    MaxFlight = 2
    MaxReceiptEdits = 5
    Tabs = {left, right}
    Spaces = {1, 2}
    First = 1
    MaxEdits = 5
    Totals = {1, 5, 10, 11, 99, 100, 101, 250}
    Counts = {2, 3, 4, 7, 12}
    Purchases = {1, 28, 30, 31, 59, 60, 345}
    Cycles <- FourCycles
    Overrides = {0, 69}
    Today = 60
    Targets = {3}
    Sums = {2}
    Dates = {0, 4}
    MonthDays = 2
    MaxGoalEdits = 3
SPECIFICATION BooksSpec
INVARIANTS
    OneRowPerMovement
    ReceiptsKept
    ConsentsKept
    InstalmentsRight
PROPERTIES
    AssetsShown
    GrowthCatchesUp
    ImportsKept
    GoalKept
CHECK_DEADLOCK FALSE
