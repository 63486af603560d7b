SPECIFICATION FairSpec
CONSTANTS
    Games = {g1}
    Winners = {g1}
    StartBalance = 2
    MaxLogins = 2
    MaxEvents = 4
INVARIANTS
    ItemOnce
    ChargedPerDelivery
    
PROPERTIES
    OfflineKept
    LoginAnswered
    DrainEnds
CHECK_DEADLOCK FALSE
