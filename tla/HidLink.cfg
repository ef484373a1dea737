SPECIFICATION FairSpec
CONSTANTS
    MaxCalls = 4
    Punctual = TRUE
INVARIANTS
    IdentityFresh
    FrameInStep
PROPERTIES
    CallsReturn
CHECK_DEADLOCK FALSE
