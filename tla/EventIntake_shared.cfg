SPECIFICATION FairSpec
CONSTANTS
    None = None
    Cik <- MCCik
    Filing <- TwoFilings
    Day <- TwoDays
    Feeds <- OwnThenBoth
    WithEvents <- TwoFilings
    Lookback = 1
    MaxDay = 4
    MaxCrashes = 0
    Overlap = FALSE
PROPERTY
    IntakeProceeds
