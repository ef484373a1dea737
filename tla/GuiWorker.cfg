SPECIFICATION FairSpec
CONSTANTS
    Commands = {"Reconnect", "Refresh", "LiveOn", "LiveOff", "Set"}
    MaxSends = 4
    MaxStarts = 2
    None = None
INVARIANTS
    ConnectedHasClient
PROPERTIES
    EveryCommandHandled
    LiveViewIsFed
