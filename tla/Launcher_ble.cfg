SPECIFICATION FairSpec
CONSTANTS
    Addr = {a1, a2}
    Rssi <- MCRssi
    NewRssi <- MCNewRssi
    MaxAttempts = 2
    SkipAddrs = {}
    Enabled = {"BLE"}
    ToolsOn = {"GATT"}
    Apps = {p1}
    NONE = NONE
    Lines <- BleLines
    MaxLines = 4
    MaxFaults = 1
PROPERTIES
    
    NoBleDeviceLost
