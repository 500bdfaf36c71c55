SPECIFICATION FairSpec
CONSTANTS
    MaxRequests = 3
    MaxPolls = 1
    Profiles <- TwoProfiles
    AlwaysOn = {"LAN"}
PROPERTIES
    ImplementsScanService
    RequestsSettle
CHECK_DEADLOCK FALSE
