SPECIFICATION Spec
INVARIANT AttachmentIsOwn
CONSTANTS
    Commanders = {c1}
    Bot = bot
    Nobody = nobody
    Symbols = {s1}
    DailyLimit = 1
    MaxPositions = 2
    MaxTrades = 2
    Stages = 0
    MaxDays = 0
    MaxBoots = 1
    Commands = {"start_trading", "close_symbol"}
CHECK_DEADLOCK FALSE
