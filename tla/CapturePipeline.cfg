SPECIFICATION FairSpec
CONSTANTS
    Tiles = {a, b}
    MaxVersion = 2
    MaxChanges = 2
    MaxFaults = 1
    Backends = {"dxgi", "gdi"}
    WarmUp = 2
    DiffProbe = 2
    CaptureProbes = {2, 3}
    SubmitTurns = {1, 2}
    StartupWindow = 2
    StartupInterval = 2
    ActiveInterval = 3
    IdleInterval = 4
    Period = 12
INVARIANTS TypeOK BufferFollowsDesktop PictureFollows
PROPERTIES Converges
CHECK_DEADLOCK FALSE
