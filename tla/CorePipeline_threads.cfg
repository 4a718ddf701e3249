CONSTANTS
    p1 = p1
    p2 = p2
    timer = timer
    here = here
    there = there
    Timers <- OneTimer
    Integrations <- TwoIntegrations
    MAX_BUFFER_ROWS = 1
    Size = 2
    Faults = TRUE
    N = 3
    MaxCrashes = 1
    Fixes <- TwoFixes
    MAX_STARTUP_ATTEMPTS = 2
    Subjects <- AllSubjects
    MaxFaults = 1
    MaxRestarts = 1
SPECIFICATION ManagersFairSpec
INVARIANTS HandedInOrder OvershootBounded VanishesOnlyByOverflow ConfirmedIsAFix
PROPERTIES EventuallyDrained ModemDataIsTold
CHECK_DEADLOCK FALSE
