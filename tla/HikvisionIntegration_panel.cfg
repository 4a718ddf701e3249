CONSTANTS
    zone1 = zone1
    zone2 = zone2
    Zones <- TwoZones
    Subjects <- AnySubject
    MaxStream = 2
    MaxChanges = 4
    MaxRestarts = 1
    MaxFaults = 1
    MaxOccasions = 5
SPECIFICATION FairSpec
INVARIANTS MemoryIsTold
PROPERTIES ToldIsTrue LinkIsTold
CHECK_DEADLOCK FALSE
