SPECIFICATION FairSpec
CONSTANTS
    Commands = {"Reconnect", "Refresh", "LiveOn", "LiveOff", "Set"}
    MaxSends = 1
    MaxStarts = 2
    None = None
PROPERTIES
    OfflineIsShown
