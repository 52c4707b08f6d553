SPECIFICATION FairSpec
CONSTANTS
    Generations = {1, 2, 3}
    MaxRecoveryAttempts = 1
    MaxStarts = 1
    MaxRestarts = 0
    MaxFaults = 0
PROPERTY InitialStartRemoves
CHECK_DEADLOCK FALSE
