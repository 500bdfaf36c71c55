SPECIFICATION WifiFairSpec
CONSTANTS
    NUM_SCANS = 2
    MaxTicks = 1
    MaxForeign = 0
    MaxOpens = 1
    MaxResults = 2
PROPERTIES
    TriggerReturns
CHECK_DEADLOCK FALSE
