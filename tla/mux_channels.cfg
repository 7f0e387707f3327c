SPECIFICATION FairSpec
CONSTANTS
    c1 = c1
    c2 = c2
    t1 = t1
    Conns = {c1, c2}
    Targets = {t1}
    MaxChan = 2
    MaxWires = 2
    MaxFlight = 1
    LocalMax = 2
    PeerMax = 1
    OpenSends = 2
    CloseSends = 1
INVARIANT TypeOK
INVARIANT RefsCounted
INVARIANT AgentGuarded
INVARIANT RoutesOwned
PROPERTY OpenSettles
CHECK_DEADLOCK FALSE
