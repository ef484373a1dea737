SPECIFICATION FairSpec
CONSTANTS
    Commands <- Everything
    Packets = 2
    MaxSends = 3
    MaxInbound = 2
    MaxPlugs = 1
    None = None
INVARIANTS
    ConnectionTruth
    LiveIsServed
PROPERTIES
    EveryCommandHandled
    LiveEnds
CHECK_DEADLOCK FALSE
