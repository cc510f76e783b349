SPECIFICATION Spec
PROPERTY OldBeatsNothing
CONSTANTS
    Limits = {3}
    Page = 2
    NewestFirst = FALSE
    Kinds = {"5m", "15m", "1D"}
    FirstBar = 2
    BarLen = 2
    Lag = 1
    Slack = 1
    ClosedAge = 1
    TtlShort = 1
    TtlLong = 2
    CallTime = 1
    MaxBar = 4
    MaxRestarts = 1
CHECK_DEADLOCK FALSE
