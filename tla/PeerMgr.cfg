SPECIFICATION PeerFairSpec
CONSTANTS
    Requests = {r1, r2, r3}
    Dials = {d1, d2, d3}
    Links = {i1, o1, o2}
    Incoming = {i1}
    NoLink = NoLink
    PendingLimit = 2
INVARIANTS PeerTypeOK PendingHasDial 
PROPERTIES OpenLinkStays 
CHECK_DEADLOCK FALSE
