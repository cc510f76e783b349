SPECIFICATION Spec
CONSTANTS
    Orders = {o1}
    Size = 3
    Faults = {"stale", "priceless", "word"}
INVARIANTS TypeOK FillsBacked NoBlindTerminal
PROPERTY FilledNeverShrinks
CHECK_DEADLOCK FALSE
