CONSTANTS
    StableThreshold = 2
    InitialModes <- Modes
    Users <- Nobody
    Faults = FALSE
    EthReturns = TRUE
    MaxCoreCrashes = 1
    MaxMqttCrashes = 0
SPECIFICATION Spec
INVARIANTS SomeoneSends
CHECK_DEADLOCK FALSE
