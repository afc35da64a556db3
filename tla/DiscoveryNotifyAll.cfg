SPECIFICATION Spec
CONSTANTS
    m1 = m1
    m2 = m2
    m3 = m3
    f1 = f1
    f2 = f2
    g1 = g1
    g2 = g2
    x2 = x2
    Silent = Silent
    Undefined = Undefined
    Monitors <- ThreeMonitors
    Addresses <- Interfaces
    KnownKeys <- NoneKnown
    Routes <- StarRoutes
    RouterOf <- OwnerOf
    MaxLives <- OneLife
    MaxBoots = 1
    MaxDeaths = 0
CHECK_DEADLOCK FALSE
INVARIANT AllOthersNotified
