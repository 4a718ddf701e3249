CONSTANTS
    StableThreshold = 3
    InitialModes <- Modes
    Users <- LcdAndWeb
    Faults = TRUE
    EthReturns = TRUE
    MaxCoreCrashes = 2
    MaxMqttCrashes = 2
    Fitted <- WithAndWithout
    MaxEdits = 2
    MaxOrders = 2
    MaxFaults = 2
SPECIFICATION ModemFairSpec
INVARIANTS PppIsPutDown RebootsPaidFor
PROPERTIES SwitchBackNeedsStability EditsReachCloud
CHECK_DEADLOCK FALSE
