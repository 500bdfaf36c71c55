SPECIFICATION FairSpec
CONSTANTS
    MaxRequests = 2
    MaxSeries = 2
    UsbRadios <- AskingRadio
INVARIANTS
    RequestsFindIdle
    NoSurprises
PROPERTIES
    SeriesComplete
    WaitsInVain
    WaitsEnd
CHECK_DEADLOCK FALSE
