SPECIFICATION FairSpec
CONSTANTS
    MaxGen = 2
    MaxEpoch = 2
    MaxFrame = 3
    MaxRows = 1
    MaxFlight = 1
    MaxLoss = 2
    MaxUser = 1
    Outstanding = 2
    HistoryDepth = 1
    Morph = FALSE
    BaseSum = TRUE
    Scrollback = TRUE
INVARIANT NoRowSkipped
PROPERTY Converges
CHECK_DEADLOCK FALSE
