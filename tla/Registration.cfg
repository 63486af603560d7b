SPECIFICATION Spec
CONSTANTS
    Nodes = {n1}
    Others = {o1}
    Self = ra
    QueueCap = 3
    MaxConns = 2
    MaxEvents = 3
INVARIANTS
    TypeOK
    MembersFollowEtcd
    NoOrphanKey
    ServedIsPublished

    
CHECK_DEADLOCK FALSE
