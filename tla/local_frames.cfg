CONSTANTS
    MaxGen = 3
    MaxRows = 2
    MaxOverlayGen = 1
    MaxOverlayRows = 0
    MaxUser = 1
    SockCap = 3
    Outstanding = 2
SPECIFICATION FairSpec
CHECK_DEADLOCK FALSE
INVARIANT TypeOK
INVARIANT BufferSound
INVARIANT NothingLost
PROPERTY MirrorSpec
PROPERTY Settles
