SPECIFICATION Spec
CONSTANTS
    BaseDelay = 500
    MaxDelay = 30000
    Window = 60000
    MaxInWindow = 6
    HealthyAfter = 15000
    Lifetimes = {0, 4000, 12000, 15000}
    Delays = {250}
    SpawnFails = TRUE
INVARIANTS NeverGivesUp NoOrphan
PROPERTIES Restarted CrashLoopEnds
CHECK_DEADLOCK FALSE
