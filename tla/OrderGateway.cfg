SPECIFICATION Spec
CONSTANTS
    Orders = {o1}
    Size = 2
    Faults = {"gateway"}
INVARIANT NoBlindTerminal
CHECK_DEADLOCK FALSE
