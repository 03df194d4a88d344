SPECIFICATION Spec
CONSTANTS
    Addr = {a1}
    Rssi <- MCRssi
    NewRssi <- MCNewRssi
    MaxAttempts = 1
    SkipAddrs = {}
    Enabled = {"BLE", "BTC"}
    ToolsOn = {"GATT", "LMP2thprint", "SDP"}
    Apps = {p1, p2, p3}
    NONE = NONE
    Lines <- AllLines
    MaxLines = 4
    MaxFaults = 0
SYMMETRY AppSymmetry
INVARIANTS
    TypeOK
    NoDeadlock
    AttemptsBounded
PROPERTIES
    ImplementsToolSchedule
    BtcDeviceLostOnlyHere
