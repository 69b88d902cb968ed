SPECIFICATION PagesSpec
CONSTANTS
    FormNames <- MCFormNames
    Watched <- MCWatched
    MaxOpens = 2
    MaxUpsets = 1
    MaxSubmits = 2
    MaxMissed = 1
    RowIds = {1, 2}
    Alike = {2}
    PageSizes = {1, 2}
    NoRows = NoRows
    MaxDeletes = 2
    MaxPage = 2
    MaxElsewhere = 1
    NoNav = NoNav
    MaxAttempts = 4
    MaxWalks = 3
    Books <- MCBooks
    Today = 3
    DaysPerMonth = 2
    MonthlyBudget = 2
    Presets <- MCPresets
    FirstPreset = "twoMonths"
    NoCategory = NoCategory
    NoPeriod = NoPeriod
    NoAnswer = NoAnswer
    Ticks = 2
    MaxMoves = 2
    Entities = {1, 2}
    Sip = {2}
    Mine = 1
    Unread = Unread
    MaxShown = 2
    MaxStrangers = 1
    MaxSlips = 1
    MaxDone = 2
CHECK_DEADLOCK FALSE
INVARIANTS
    FormsSafe
    TablesSafe
    SessionSafe
    DashSafe
    EntitySafe
PROPERTIES
    InputIsKept
