SPECIFICATION Spec
CONSTANTS
    Orders = {o1}
    Size = 2
    Faults = {}
PROPERTY TerminalIsFinal
CHECK_DEADLOCK FALSE
