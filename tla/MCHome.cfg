CONSTANTS
    u1 = u1
    u2 = u2
    Users = {u1, u2, u3}
    Workspaces = {1, 2, 3}
    Founder = u1
    Joiner = u2
    MaxFlight = 2
    MaxHouseholdEdits = 4
    Txs = {t1}
    Hourly = hourly
    Button = button
    Offsets = {0, 1}
    WindowDays = 2
    Period = 3
    MaxDay = 2
    MaxEdits = 3
    Ids = {p1}
    Home = home
    Other = other
    Chat = chat
    Tab = tab
    Kinds = {"categorize", "category", "budget", "entry", "amend", "stop", "drop", "bill", "goal", "rule"}
    MaxProposalEdits = 5
    pix = pix
    smudged = smudged
    Owner = u1
    Secured = TRUE
    CaptureKeys = {pix, buy, smudged}
    Senders = {u1, u2, stranger}
    Accounts = {1, 2}
    MaxCaptureEdits = 3
    MaxRequests = 3
SPECIFICATION HomeSpec
INVARIANTS
    AtMostTwoLegs
PROPERTIES
    HouseholdGoverned
    AlertedOnce
    AlertsFire
    ProposalsKept
    CapturedOnce
CHECK_DEADLOCK FALSE
