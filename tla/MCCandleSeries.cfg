SPECIFICATION Spec
CONSTANTS
    MaxTime = 5
    MaxLots = 3
    MaxWire = 1
    MaxReplays = 2
    Lookback = 2
    Overlap = 1
    FreshFor = 2
    None = None
INVARIANTS SeriesIsSound BarsStay GapIsCovered
