SPECIFICATION Spec
CONSTANTS
    MaxCalls = 2
    MaxRsp = 1
    QueueCap = 1
INVARIANT
    CallNeverBlocksLoop
CHECK_DEADLOCK FALSE
