SPECIFICATION Spec
CONSTANTS
    Slots = 2
    Levels = 3
    TickLen = 2
    MaxWord = 1000
    MaxTimers = 2
    MaxTick = 11
    MaxDuration = 17
INVARIANTS
    BucketsAgree
    PlacedInTime
PROPERTY
    ImplementsTimers
CHECK_DEADLOCK FALSE
