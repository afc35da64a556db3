SPECIFICATION Spec
CONSTANTS
    MaxHops = 10
    Inputs <- SilentFan
CHECK_DEADLOCK FALSE
PROPERTY DistancesKeptByPhase3
