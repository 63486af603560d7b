SPECIFICATION FairSpec
CONSTANTS
    Uids = {u1, u2}
    Gateways = {g1, g2}
    Rooms = {r1}
    NoEntry = NoEntry
    NoRoom = NoRoom
    TTL = 3
    MaxGen = 5
INVARIANTS
    EntryHasTimer
    NoStaleTimerInWheel
PROPERTIES
    ImplementsTtlDirectory
    IdleEntriesExpire
