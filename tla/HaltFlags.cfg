SPECIFICATION Spec
INVARIANT HaltExplained
PROPERTY HaltIsKept
CONSTANTS
    Commanders = {c1, c2}
    Bot = bot
    MaxDays = 2
    MaxBoots = 1
CHECK_DEADLOCK FALSE
