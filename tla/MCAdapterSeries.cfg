SPECIFICATION SeriesSpec
CONSTANTS
    nq = nq
    gc = gc
    nqz = nqz
    gcz = gcz
    None = none
    Contracts <- MCContracts
    RemoteRoots = {nq}
    LocalRoots = {gc}
    FrontMonth <- MCFrontMonth
    Shapes = {m1, m5}
    DefaultShape = m1
    ChartNames = {nq}
    Rescaled = {nq}
    DomNames = {nq, gc}
    Writable = TRUE
    MaxOwed = 2
CHECK_DEADLOCK FALSE
INVARIANTS SeriesArePure DirtyIsRemembered
VIEW View
CONSTRAINT Followed
