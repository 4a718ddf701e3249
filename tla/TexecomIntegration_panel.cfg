CONSTANTS
    TexecomZones <- TwoZones
    CMD_RETRIES = 2
    BATTERY_HISTORY_LEN = 2
    Topics <- AnyTopic
    MaxWire = 2
    MaxHappenings = 2
SPECIFICATION TexecomSpec
INVARIANTS PanelEventsAreTold
PROPERTIES HeartbeatIsTrue
CHECK_DEADLOCK FALSE
