SPECIFICATION Spec
PROPERTY NoLateFill
CONSTANTS
    Symbols = {s1}
    Bars = {"15m"}
    NeedDue = 1
    NeedEarly = 1
    MaxJobs = 1
    Timeout = 1
    MaxStarts = 1
CHECK_DEADLOCK FALSE
