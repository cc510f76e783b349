SPECIFICATION Spec
PROPERTY StartKeepsHardHalt
CONSTANTS
    Commanders = {c1}
    Bot = bot
    Nobody = nobody
    Symbols = {s1}
    DailyLimit = 1
    MaxPositions = 2
    MaxTrades = 1
    Stages = 0
    MaxDays = 0
    MaxBoots = 0
    Commands = {"start_trading"}
CHECK_DEADLOCK FALSE
