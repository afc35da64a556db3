SPECIFICATION MidwaySpec
CONSTANTS
    m1 = m1
    m2 = m2
    m3 = m3
    f1 = f1
    f2 = f2
    g1 = g1
    g2 = g2
    x2 = x2
    Silent = Silent
    Undefined = Undefined
    Monitors <- ThreeMonitors
    Addresses <- Interfaces
    KnownKeys <- OneKnown
    Routes <- MidwayRoutes
    RouterOf <- OwnerOf
    MaxLives <- TwoLivesForM2
    MaxBoots = 2
    MaxDeaths = 1
CHECK_DEADLOCK FALSE
INVARIANT KnownEnds
INVARIANT AliasSound
