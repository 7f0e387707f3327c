SPECIFICATION LiveSpec
CONSTANTS
    MaxOpens = 1
    Talkers = {1}
    Watched = {1}
    MaxRequest = 2
    MaxReply = 0
    MaxFlight = 2
    MaxLoss = 1
    MaxChannels = 1
    TermSends = 2
    Chunk = 1
CHECK_DEADLOCK FALSE
PROPERTY Delivered
