SPECIFICATION Spec
CONSTANTS
    Instruments = {es, nq}
    None = none
    MaxReplays = 2
    MaxBars = 2
    HangUps = TRUE
SYMMETRY InstrumentSymmetry
CHECK_DEADLOCK FALSE
INVARIANTS TypeOK SessionAgreed HeartbeatHasSession ReconnectIsAlone BackfillNeverForgotten HistoryAgreed LoginIsValidated
PROPERTIES DisconnectIsFinal
