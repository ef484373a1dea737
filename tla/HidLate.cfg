SPECIFICATION FairSpec
CONSTANTS
    MaxCalls = 3
    Punctual = TRUE
INVARIANTS
    FrameOfOneRound
CHECK_DEADLOCK FALSE
