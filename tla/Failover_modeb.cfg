CONSTANTS
    StableThreshold = 3
    InitialModes <- ModeB
    Users <- OnTheWeb
    Faults = FALSE
    EthReturns = TRUE
    MaxCoreCrashes = 2
    MaxMqttCrashes = 2
SPECIFICATION FairSpec
INVARIANTS MonitorAgrees SomeoneSendsInModeB
PROPERTIES NetworkFollowsLink
CHECK_DEADLOCK FALSE
