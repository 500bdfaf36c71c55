SPECIFICATION WifiFairSpec
CONSTANTS
    NUM_SCANS = 2
    MaxTicks = 2
    MaxForeign = 1
    MaxOpens = 1
    MaxResults = 2
INVARIANTS
    WifiNotTaken
    WifiGivenBack
PROPERTIES
    RoundsEnd
CHECK_DEADLOCK FALSE
