SPECIFICATION Spec
CONSTANTS
    Legacy = "v5"
    Challenger = {"c1", "c2"}
    Rebootstrap = FALSE
    Shared = TRUE
    MaxStops = 2
    MaxRegistryEdits = 3
    Row = {1, 2, 3, 4, 5, 6, 7, 8}
    DecidedIn <- MCDecidedIn
    ExitIn <- MCExitIn
    Return <- MCReturn
    Stored = 5
    Variant = {1, 2, 3}
    HorizonsOf <- MCHorizonsOf
    WindowOf <- MCWindowOf
    Picks <- MCPicks
    Data <- MCData
    ModelYear = 4
    MinTrain = 1
    FinalistCount = 2
    MaxOverlap = 75
    Screener = {"s"}
    MaxEdits = 2
    MarketCompany = {"a"}
    Ticker = {"x", "y"}
    Spy = "spy"
    MarketWindow = 1
    MaxSession = 3
    Event = {"e1", "e2", "e3"}
    Company = {"a", "b"}
    CompanyOf <- MCCompanyOf
    Sessions = {1, 2, 4, 5, 6, 7}
    MaxDay = 7
    Horizons = {1, 2}
    Fence = {1, 2}
    YearOf <- MCYearOf
    TestYear = 3
    MaxHalts = 1
    Candidate <- MCCandidate
    Seeded = {"s1", "s2"}
    DayOf <- MCDayOf
    Horizon = {5, 20}
    Predictions <- MCPredictions
    Window = 2
    Threshold = 90
    MaxDate = 3
    MaxCrashes = 1
    Trade = {1, 2, 3, 4, 5}
    TradeCompany <- MCTradeCompany
    EntryDay <- MCEntryDay
    ExitDay <- MCExitDay
    Plans <- MCPlans
    Worlds <- MCWorlds
    Pair = {"a", "c"}
    Capital = 100
    Alloc = 25
    MaxOpen = 2
    MaxTranches = 2
    MaxGross = 100
    MinAlloc = 10
    TopAlloc = 40
    NearCap = 30
    Throttle <- MCThrottle
    Quality <- MCQuality
    LastDay = 6
    Quarters = {1, 2}
    Rows <- MCRows
    Late <- MCLate
    Pages <- MCPages
    Rank <- MCRank
    Traceable = {"a", "c"}
    Path = {1, 2}
    Most = 1
    MaxJobs = 4
    Strategy = {1, 2, 3, 4}
    Evidence <- MCEvidence
    Confidence = {1, 2}
    MinShadow = 20
    MinActive = 75
    Gate <- MCGate
    MaxActive = 3
    MaxEach = 40
    MaxTotal = 90
    MaxFaults = 1
    None = None
    Torn = Torn
    Unused = Unused
INVARIANTS
    TypeOK
    StrategiesSound
    FinishedIsComplete
    Reproducible
    NoLookAhead
    SameResult
PROPERTY
    JobsKeepRuntime
CHECK_DEADLOCK FALSE
