SPECIFICATION Spec
CONSTANTS
    r1 = r1
    r2 = r2
    d = d
    Silent = Silent
    Routers <- TwoRouters
    Destination = d
    MaxHops = 11
CHECK_DEADLOCK FALSE
INVARIANT TypeOK
INVARIANT FirstHopsOfTheirTTL
INVARIANT NinthHopLatest
