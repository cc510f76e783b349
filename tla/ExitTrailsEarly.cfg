SPECIFICATION Spec
INVARIANT TrailsAfterTp2
CONSTANTS
    Engines = {"v2"}
    Depth = 3
    Height = 5
    Distances = {1, 3}
    Widest = 3
    Risk = 2
    BreakEven = 1
    Tp1 = 3
    Tp2 = 5
    StopTp = 2
    MaxBoots = 1
CHECK_DEADLOCK FALSE
