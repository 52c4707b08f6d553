SPECIFICATION Spec
CONSTANTS
    MaxBurst = 2
    QueueLimit = 2
    AckTimeout = 2
    StartupIdle = 2
    ActiveIdle = 3
    KeptIds = 1
    MaxFaults = 2
INVARIANTS TypeOK LastFrameShown
PROPERTIES NoFalseAlarm
CHECK_DEADLOCK FALSE
