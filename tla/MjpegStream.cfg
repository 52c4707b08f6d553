SPECIFICATION FairSpec
CONSTANTS
    MaxSerial = 3
    MaxFrameId = 2
    MaxParts = 2
    MaxRects = 2
    Stride = 2
    MaxRecoveries = 1
INVARIANT NoTornFrame
PROPERTIES ImplementsChannel SentFramesArrive
CHECK_DEADLOCK FALSE
