SPECIFICATION LiveSpec
CONSTANTS
    MaxTyped = 2
    EchoTimeout = 1
    MaxTime = 1
    MaxWires = 2
    MaxLoss = 1
    MaxSwitches = 1
    Backpressure = FALSE
    PtyStall = FALSE
INVARIANT InputKept
INVARIANT PromptEchoAged
PROPERTY Delivered
CHECK_DEADLOCK FALSE
