SPECIFICATION WindowSpec
CONSTANTS
    Tiles = {t1, t2, t3}
    MaxFrames = 4
    Blank = Blank
INVARIANT NewestShown
CHECK_DEADLOCK FALSE
