SPECIFICATION FairSpec
CONSTANTS
    Ids = {lucid, apex}
    None = none
    Absent = absent
    Incomplete = incomplete
    Configs = {feed, edited, simulation}
    Simulated = {simulation}
    MaxAttempts = 6
    MaxPosted = 5
CHECK_DEADLOCK FALSE
INVARIANTS AdapterIsSelected ConnectedIsEarned PillAgrees
PROPERTIES ConnectingEnds
