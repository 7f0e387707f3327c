SPECIFICATION HistoryFairSpec
CONSTANTS
    RingCap = 2
    BodyRows = 2
    WindowRows = 2
    HeldMax = 1
    MaxTotal = 3
    MaxUpset = 1
    MaxLoss = 1
    MaxBodies = 2
    MaxFlight = 1
INVARIANT HistoryTypeOK
INVARIANT RowsAgree
PROPERTY CatchesUp
CHECK_DEADLOCK FALSE
