SPECIFICATION FairSpec
CONSTANTS
    nq = nq
    gc = gc
    nqz = nqz
    gcz = gcz
    None = none
    Contracts <- MCContracts
    RemoteRoots = {nq}
    LocalRoots = {gc}
    FrontMonth <- MCFrontMonth
    Shapes = {m1}
    DefaultShape = m1
    ChartNames = {nq, gc}
    Rescaled = {}
    DomNames = {nq}
    Writable = FALSE
    MaxOwed = 2
CHECK_DEADLOCK FALSE
INVARIANTS TypeOK BuildingIsServed LiveIsAttached
PROPERTIES NoUnaskedHistory UsesSession BuildingEnds
