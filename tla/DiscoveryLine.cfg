SPECIFICATION FairSpec
CONSTANTS
    m1 = m1
    m2 = m2
    m3 = m3
    f1 = f1
    f2 = f2
    g1 = g1
    g2 = g2
    x2 = x2
    Silent = Silent
    Undefined = Undefined
    Monitors <- TwoMonitors
    Addresses <- Interfaces
    KnownKeys <- OneKnown
    Routes <- LineRoutes
    RouterOf <- OwnerOf
    MaxLives <- OneLife
    MaxBoots = 1
    MaxDeaths = 0
CHECK_DEADLOCK FALSE
INVARIANT TypeOK
INVARIANT ServerStaysUp
INVARIANT AllySameRouter
PROPERTY PairsGetTraced
PROPERTY TracesPairs
PROPERTY TracesPairsFairly
