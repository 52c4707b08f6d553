SPECIFICATION FairSpec
CONSTANTS
    MaxFrames = 2
    FragCounts = {1, 3}
    PlaceholderFrags = 3
    SeqMod = 6
    KeyPeriod = 3
    Capacity = 2
    MaxRepeats = 1
    Unset = Unset
INVARIANTS IdrDecodable LossIsCounted
PROPERTIES ImplementsChannel SentNalsArrive
CHECK_DEADLOCK FALSE
