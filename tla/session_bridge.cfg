SPECIFICATION FairSpec
CONSTANTS
    MaxSession = 2
    MaxGen = 2
    MaxLegs = 1
    MaxWires = 2
    MaxFrame = 3
    MaxLink = 1
    MaxFlight = 2
    MaxAcks = 1
    MaxLoss = 1
    Outstanding = 1
    HistoryDepth = 2
INVARIANT TypeOK
INVARIANT OneScreenPerNumber
INVARIANT NewLegLands
PROPERTY MirrorSpec
PROPERTY Settles
CHECK_DEADLOCK FALSE
