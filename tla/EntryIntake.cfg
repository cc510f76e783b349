SPECIFICATION Spec
INVARIANTS IntakeTypeOK FetchedOnce
PROPERTIES WarmupIsOwn GateHolds WarmupEnds LimitSettles
CONSTANTS
    Symbols = {s1}
    Bars = {"1H", "15m"}
    NeedDue = 1
    NeedEarly = 1
    MaxJobs = 1
    Timeout = 1
    MaxStarts = 1
CHECK_DEADLOCK FALSE
