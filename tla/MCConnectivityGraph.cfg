SPECIFICATION Spec
CONSTANTS
    N = 4
    MACs = {2, 3, 7, 9}
    Names = {"n"}
    HomeMAC = 2
    PhoneWifi = 9
    PhoneBt = 7
INVARIANTS
    TypeOK
    DevicesAreComponents
    OneDevicePerMAC
    FlatteningLosesNothing
CHECK_DEADLOCK FALSE
