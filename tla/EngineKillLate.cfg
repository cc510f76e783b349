SPECIFICATION Spec
INVARIANT NothingOpensAfterKill
CONSTANTS
    Commanders = {c1}
    Bot = bot
    Nobody = nobody
    Symbols = {s1}
    DailyLimit = 1
    MaxPositions = 2
    MaxTrades = 1
    Stages = 0
    MaxDays = 0
    MaxBoots = 0
    Commands = {"start_trading", "kill_switch"}
CHECK_DEADLOCK FALSE
