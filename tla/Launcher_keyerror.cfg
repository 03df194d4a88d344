SPECIFICATION Spec
CONSTANTS
    Addr = {a1}
    Rssi <- MCRssi
    NewRssi <- MCNewRssi
    MaxAttempts = 2
    SkipAddrs = {}
    Enabled = {"BLE"}
    ToolsOn = {"GATT"}
    Apps = {p1}
    NONE = NONE
    Lines <- NewAndDelLines
    MaxLines = 3
    MaxFaults = 0
INVARIANT
    BleThreadSurvives
