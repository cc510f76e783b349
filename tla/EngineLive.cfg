SPECIFICATION FairSpec
INVARIANTS TypeOK CapitalAddsUp ProtectedWhileOpen
PROPERTIES DailyHaltFlattens CommandsReturn
ACTION_CONSTRAINT RefreshesEarly
CONSTANTS
    Commanders = {c1}
    Bot = bot
    Nobody = nobody
    Symbols = {s1, s2}
    DailyLimit = 1
    MaxPositions = 2
    MaxTrades = 2
    Stages = 0
    MaxDays = 0
    MaxBoots = 0
    Commands = {"start_trading", "stop_engine", "close_all", "close_symbol", "refresh"}
CHECK_DEADLOCK FALSE
