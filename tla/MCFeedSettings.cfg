SPECIFICATION FairSpec
CONSTANTS
    Ids = {lucid, apex, third}
    Names = {"rithmic", "typed"}
    Empty = ""
    Default = "rithmic"
    Settings = {"fresh", "legacy", "completed", "simulation"}
    Fresh = "fresh"
    Legacy = "legacy"
    Completed = "completed"
    Incomplete = {"fresh"}
    Simulated = {"simulation"}
    Nothing = "nothing"
    Typed <- MCTyped
    MaxPosted = 2
CHECK_DEADLOCK FALSE
INVARIANTS RowIsSelected TypingIsKept TestedIsShown GlyphIsEarned
PROPERTIES TestEnds
