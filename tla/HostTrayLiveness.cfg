SPECIFICATION ReturningSpec
CONSTANTS
    Generations = {1, 2, 3, 4}
    MaxRecoveryAttempts = 2
    MaxStarts = 1
    MaxRestarts = 0
    MaxFaults = 1
PROPERTIES StopRemoves RecoveryReconnects
CHECK_DEADLOCK FALSE
