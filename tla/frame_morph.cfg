SPECIFICATION Spec
CONSTANTS
    MaxGen = 2
    MaxEpoch = 1
    MaxFrame = 3
    MaxRows = 0
    MaxFlight = 2
    MaxLoss = 0
    MaxUser = 1
    Outstanding = 2
    HistoryDepth = 2
    Morph = TRUE
    BaseSum = FALSE
    Scrollback = FALSE
INVARIANT TypeOK
INVARIANT ServerKnows
PROPERTY MirrorSpec
CHECK_DEADLOCK FALSE
