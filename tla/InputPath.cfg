SPECIFICATION FairSpec
CONSTANTS
    Places = {p1, p2}
    Inputs = {"left", "side", "shiftL", "shiftR"}
    ForwardEvents = TRUE
    MaxEvents = 3
    None = None
INVARIANTS TypeOK HostFollows WheelAtPointer
PROPERTIES PressArrives SessionReleases
CHECK_DEADLOCK FALSE
