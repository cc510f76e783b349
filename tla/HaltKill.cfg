SPECIFICATION Spec
INVARIANT KillHaltStays
CONSTANTS
    Commanders = {c1}
    Bot = bot
    MaxDays = 1
    MaxBoots = 0
CHECK_DEADLOCK FALSE
