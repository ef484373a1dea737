SPECIFICATION Spec
CONSTANTS
    Commands <- Viewing
    Packets = 2
    MaxSends = 3
    MaxInbound = 2
    MaxPlugs = 2
    None = None
INVARIANTS
    LiveViewIsFed
CHECK_DEADLOCK FALSE
