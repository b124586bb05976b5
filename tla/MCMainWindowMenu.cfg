SPECIFICATION Spec
CONSTANTS
    Ids = {lucid, apex}
    None = none
    Absent = absent
    Incomplete = incomplete
    Configs = {feed, edited, simulation}
    Simulated = {simulation}
    MaxAttempts = 5
    MaxPosted = 5
CHECK_DEADLOCK FALSE
INVARIANTS MenuFollows
