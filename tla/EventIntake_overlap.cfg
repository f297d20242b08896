SPECIFICATION Spec
CONSTANTS
    None = None
    Cik <- MCCik
    Filing <- TwoFilings
    Day <- TwoDays
    Feeds <- OneFeed
    WithEvents <- TwoFilings
    Lookback = 1
    MaxDay = 2
    MaxCrashes = 0
    Overlap = TRUE
INVARIANT
    ResolvedIsDurable
