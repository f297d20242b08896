SPECIFICATION Spec
CONSTANTS
    None = None
    Cik <- MCCik
    Filing <- MCFiling
    Day <- MCDay
    Feeds <- SharedFeeds
    WithEvents <- MCWithEvents
    Lookback = 1
    MaxDay = 3
    MaxCrashes = 2
    Overlap = FALSE
INVARIANTS
    TypeOK
    OneStoredOutcome
    ResolvedIsDurable
PROPERTIES
    NothingPassed
    NothingForgotten
