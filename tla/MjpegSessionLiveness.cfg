SPECIFICATION FairSpec
CONSTANTS
    MaxBurst = 1
    QueueLimit = 2
    AckTimeout = 2
    StartupIdle = 2
    ActiveIdle = 3
    KeptIds = 0
    MaxFaults = 2
PROPERTIES HostNoticesClient ClientNoticesHost StopEndsHost
CHECK_DEADLOCK FALSE
