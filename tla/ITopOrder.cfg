SPECIFICATION Spec
CONSTANTS
    MaxHops = 10
    Inputs <- TurnedInputs
CHECK_DEADLOCK FALSE
INVARIANT IncompatiblePairDropped
