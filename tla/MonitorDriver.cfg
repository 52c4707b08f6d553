SPECIFICATION FairSpec
CONSTANTS
    CreateAttempts = 3
    DestroyAttempts = 2
    Cooldown = 2
    MaxRequests = 4
    MaxFailures = 2
    MayUnload = TRUE
INVARIANTS OneMonitor NoMonitorLost GoneWhenNotActive
PROPERTIES DestroyServed CreateServed ImplementsDisplay
CHECK_DEADLOCK FALSE
