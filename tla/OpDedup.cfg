SPECIFICATION Spec
CONSTANTS
    Ops = {a, b, c, d}
    max = 2
INVARIANTS Bounded  
PROPERTY EvictsInOrder
CHECK_DEADLOCK FALSE
