SPECIFICATION Spec
CONSTANTS
    MaxTyped = 2
    EchoTimeout = 1
    MaxTime = 2
    MaxWires = 1
    MaxLoss = 0
    MaxSwitches = 1
    Backpressure = TRUE
    PtyStall = TRUE
INVARIANT TypeOK
PROPERTY StreamSpec
PROPERTY GraceRestarts
CHECK_DEADLOCK FALSE
