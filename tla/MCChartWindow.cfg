SPECIFICATION Spec
CONSTANTS
    Timeframes = {1, 2}
    Snapshots <- MCSnapshots
    None = None
    Lookback = 5
    RightOffsetBars = 2
    MinBars = 2
    MinMinutes = 2
    MaxBars = 4
    ViewBars = 3
    Margin = 1
    MaxRendered = 3
    Shifts <- MCShifts
    Scales <- MCScales
    Hour = 4
    Nows = {14}
INVARIANTS ViewIsSound TimeframeAgrees PendingIsRendered
PROPERTIES SnapshotKeepsView
