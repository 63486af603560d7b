SPECIFICATION FairSpec
CONSTANTS
    MaxCalls = 3
    MaxRsp = 2
    QueueCap = 2
INVARIANTS
    OneOwner
    CausesKept
    BuffersBalanced
PROPERTIES
    ImplementsContract
    EveryCallAnswered
    CloseReturnsIfRoom
\* The process may stop: the loop ends on a signal.
CHECK_DEADLOCK FALSE
