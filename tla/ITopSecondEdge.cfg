SPECIFICATION Spec
CONSTANTS
    MaxHops = 10
    Inputs <- SilentLoop
CHECK_DEADLOCK FALSE
INVARIANT SecondEdgeDefined
