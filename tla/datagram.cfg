SPECIFICATION Spec
CONSTANTS
    Window = 2
    MaxFragments = 2
    MaxAssemblies = 2
    MaxBytes = 2
    MaxAddr = 2
    MaxWires = 2
    MaxSeq = 5
    MaxCopies = 1
INVARIANT TypeOK
INVARIANT WireRemembered
INVARIANT Reassembles
PROPERTY ChannelSpec
CHECK_DEADLOCK FALSE
