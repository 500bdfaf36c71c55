SPECIFICATION Spec
CONSTANTS
    MaxRequests = 2
    MaxPolls = 3
    Profiles <- AllProfiles
    AlwaysOn = {"LAN", "Bluetooth"}
INVARIANTS
    StageOwnsWork
    RadiosAccountedFor
    InitBeforeScan
    AnswerFitsRequest
PROPERTIES
    NoRadioForgotten
CHECK_DEADLOCK FALSE
