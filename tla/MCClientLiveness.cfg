SPECIFICATION FairSpec
CONSTANTS
    Instruments = {es, nq}
    None = none
    MaxReplays = 2
    MaxBars = 2
    HangUps = FALSE
CHECK_DEADLOCK FALSE
PROPERTIES BackfillReported LostSessionResolved ImplementsSession
