CONSTANTS
    StableThreshold = 2
    InitialModes <- ModeB
    Users <- Nobody
    Faults = FALSE
    EthReturns = TRUE
    MaxCoreCrashes = 1
    MaxMqttCrashes = 1
    N = 3
    Broken <- LastBroken
    MaxReturns = 1
    MaxRefusals = 1
    MaxFailures = 1
    MaxCopies = 6
SPECIFICATION FairSpec
INVARIANTS LossBounded CopiesPaidFor
PROPERTIES FirstInOrder EventuallySent
CHECK_DEADLOCK FALSE
