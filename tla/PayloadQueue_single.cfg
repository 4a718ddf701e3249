CONSTANTS
    core = core
    integration = integration
    mqtt = mqtt
    serial = serial
    zone1 = zone1
    c1 = c1
    c2 = c2
    Procs <- CoreAndIntegration
    Senders <- MqttAndSerial
    MAX_PENDING = 2
    ScanLimit = 1
    MaxRows = 3
    MaxBusy = 3
    Fitted <- AllPanels
    Points <- OneZone
    Threads <- Connections
    MaxOutbox = 2
    MaxChanges = 3
    MaxRestarts = 1
    MaxFaults = 1
SPECIFICATION AmcSpec
INVARIANT FirstActivationOnly
PROPERTIES ImplementsBacklog SentInOrder ZoneEventsSurviveRestarts ReportsFollowPanel SilenceIsTold
CHECK_DEADLOCK FALSE
