SPECIFICATION FairSpec
CONSTANTS
    Orders = {o1}
    Size = 2
    Faults = {}
INVARIANT FilledIsComplete
PROPERTIES SettledStays HandlerReturns KeepsPromise
CHECK_DEADLOCK FALSE
