SPECIFICATION FairSpec
CONSTANTS
    MaxPictures = 3
    MaxRestarts = 1
    Capacity = 2
    StartupTimeouts = 2
    MaxPendingIds = 2
    Nothing = Nothing
INVARIANTS TypeOK UnitOfOnePicture AckNamesRendered EndsWithNothingHeld
PROPERTIES HostEndsWhenItMust HostGoneEndsClient
CHECK_DEADLOCK FALSE
