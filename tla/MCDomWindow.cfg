SPECIFICATION Spec
CONSTANTS
    Prices = {1, 2, 3, 4}
    MidPrice = 2
    Sides = {buy}
    Lots = {1}
    MaxBins = 3
    MaxBig = 1
    Threshold = 2
    Retention = 1
    Lag = 1
    VisibleRows = 3
    MaxNow = 1
    MaxHeard = 4
    MaxScroll = 3
INVARIANTS ProfileIsSound BigTradesAreTrue LadderIsCurrent
