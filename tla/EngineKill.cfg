SPECIFICATION Spec
INVARIANT KillStopsEntries
PROPERTY KeepsBook
ACTION_CONSTRAINT FlagsEarly
CONSTANTS
    Commanders = {c1}
    Bot = bot
    Nobody = nobody
    Symbols = {s1}
    DailyLimit = 1
    MaxPositions = 2
    MaxTrades = 2
    Stages = 1
    MaxDays = 1
    MaxBoots = 1
    Commands = {"start_analysis", "start_trading", "stop_trading", "pause", "resume", "reduce_only", "kill_switch"}
CHECK_DEADLOCK FALSE
