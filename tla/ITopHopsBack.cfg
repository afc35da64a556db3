SPECIFICATION Spec
CONSTANTS
    MaxHops = 10
    Inputs <- SkewedInputs
CHECK_DEADLOCK FALSE
PROPERTY HopsBackDrawn
