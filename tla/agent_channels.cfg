SPECIFICATION LiveSpec
CONSTANTS
    MaxOpens = 2
    Talkers = {2}
    Watched = {2}
    MaxRequest = 2
    MaxReply = 1
    MaxFlight = 2
    MaxLoss = 1
    MaxChannels = 1
    TermSends = 2
    Chunk = 1
CHECK_DEADLOCK FALSE
INVARIANT TypeOK
PROPERTY PipesSpec
PROPERTY Settles
