SPECIFICATION Spec
CONSTANTS
    Commands <- Connecting
    Packets = 2
    MaxSends = 3
    MaxInbound = 2
    MaxPlugs = 2
    None = None
INVARIANTS
    UiMaySend
CHECK_DEADLOCK FALSE
