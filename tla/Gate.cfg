SPECIFICATION Spec
CONSTANTS
    Addrs = {a1, a2}
    Uids = {u1}
    SessionIDs = {1, 2, 3, 4}
    NoUid = NoUid
    NoSession = 0
    MaxConns = 2
    MaxEvents = 2
    SendCap = 1
INVARIANTS
    TypeOK
    OneSessionPerUser
    ResponseToRequester
    SessionsCleaned

    
CHECK_DEADLOCK FALSE
