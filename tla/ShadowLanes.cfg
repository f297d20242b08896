SPECIFICATION FairSpec
CONSTANTS
    None = None
    Unused = Unused
    Filing = {1, 2, 3, 4}
    PostedAt <- MCPostedAt
    Modelled = {1, 2, 4}
    CompanyOf <- MCCompanyOf
    PageSize = 2
    NewestFirst = TRUE
    EdgeBlocks = TRUE
    Award = {1, 2, 3}
    Transaction = {1, 2, 3, 4}
    AwardOf <- MCAwardOf
    Uei <- MCUei
    Named <- MCNamed
    Resembling = {3}
    SharedAliases <- MCSharedAliases
    Company = {"A", "B"}
    Doubtful = {2}
    ChangedOn <- MCChangedOn
    ActionDay <- MCActionDay
    MaxLag = 3
    Overlap = 1
    Legacy = {1, 4}
    ListingMoves = TRUE
    Batches = {"b1"}
    SecurityOf <- MCSecurityOf
    ExecutionOn <- MCExecutionOn
    Chosen <- MCChosen
    SourceOf <- MCSourceOf
    Benchmark = "spy"
    Horizons = {1, 2}
    Limit = 2
    Lookback = 1
    MaxTime = 6
    MaxSession = 3
    MaxAborts = 1
INVARIANTS
    TypeOK
    EvidenceOnce
    OutdatedExcluded
    LabelsAreFacts
PROPERTIES
    CursorCovers
    PendingEnds
    NoOrphan
    InvalidatedLeaves
CHECK_DEADLOCK FALSE
