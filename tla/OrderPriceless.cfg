SPECIFICATION Spec
CONSTANTS
    Orders = {o1}
    Size = 2
    Faults = {"priceless"}
INVARIANT FilledLacksNothing
CHECK_DEADLOCK FALSE
