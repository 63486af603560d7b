SPECIFICATION Spec
CONSTANTS
    ra1 = ra1  ra2 = ra2  ra3 = ra3
    g1 = g1  g2 = g2  g3 = g3  l1 = l1
    RAs = {ra1, ra2, ra3}
    Gates = {g1, g2}
    Lobbies = {l1}
    Home <- ThreeRAs
    Restarting = {}
    MaxCalls = 2
    MaxFaults = 0
INVARIANT ResponseMatches
CHECK_DEADLOCK FALSE
