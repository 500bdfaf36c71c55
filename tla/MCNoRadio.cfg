SPECIFICATION FairSpec
CONSTANTS
    MaxRequests = 1
    MaxPolls = 0
    Profiles <- TwoProfiles
    AlwaysOn = {}
PROPERTIES
    NoDevicesLeftCompletes
CHECK_DEADLOCK FALSE
