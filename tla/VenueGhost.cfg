SPECIFICATION Spec
INVARIANT NoGhostStop
CONSTANTS
    Symbols = {s1}
    MaxSize = 2
    MaxLevel = 2
    MaxBoots = 1
    MaxMoves = 2
CHECK_DEADLOCK FALSE
