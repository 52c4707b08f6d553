SPECIFICATION Spec
CONSTANTS
    Generations = {1, 2, 3, 4}
    MaxRecoveryAttempts = 1
    MaxStarts = 1
    MaxRestarts = 1
    MaxFaults = 1
INVARIANTS TypeOK NoOrphanDisplay
PROPERTY HostKeepsDisplay
CHECK_DEADLOCK FALSE
