SPECIFICATION FairSpec
CONSTANTS
    Frames <- TwoFrames
    Beacons <- OneBeacon
    Channels = {6}
    LQIs = {7}
    MaxSends = 2
    MaxFaults = 2
INVARIANTS
    InStep
    ResultsAreBeacons
    InitMissesNothing
    InitMakesQuiet
PROPERTIES
    ScanEnds
    InitEnds
CHECK_DEADLOCK FALSE
