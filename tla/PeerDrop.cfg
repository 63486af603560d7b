SPECIFICATION PeerSpec
CONSTANTS
    Requests = {r1, r2, r3}
    Dials = {d1, d2}
    Links = {i1, i2, o1, o2}
    Incoming = {i1, i2}
    NoLink = NoLink
    PendingLimit = 2
INVARIANT NotDropped
CHECK_DEADLOCK FALSE
