SPECIFICATION Spec
SYMMETRY Symmetric
INVARIANT NoLegLost
CONSTANTS
    Commanders = {c1}
    Bot = bot
    Nobody = nobody
    Symbols = {s1, s2}
    DailyLimit = 1
    MaxPositions = 2
    MaxTrades = 2
    Stages = 0
    MaxDays = 0
    MaxBoots = 0
    Commands = {"start_trading", "close_all"}
CHECK_DEADLOCK FALSE
