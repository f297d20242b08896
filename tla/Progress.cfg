SPECIFICATION FairSpec
CONSTANTS
    Cik = {1, 2}
    Filing = {1, 2}
    Day <- MCDay
    Feeds <- MCFeeds
    WithEvents = {1,2}
    Lookback = 1
    MaxDay = 3
    None = None
    Company = {"acme"}
    Horizon <- MCHorizon
    MaxSession = 4
    Unused = Unused
INVARIANT FillsOnTheirSession
PROPERTIES
    IntakeProceeds
    EntriesSettle
    PositionsClose
