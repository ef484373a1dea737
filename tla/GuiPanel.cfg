SPECIFICATION PanelSpec
CONSTANTS
    KeysPerRow = 1
    LastRowKeys = 1
    Named = {0}
    off = off
    on = on
    Settings = {off, on}
    Off = off
    Distances = {120, 200}
    Files <- MCFiles
    MaxQueue = 2
INVARIANTS
    PanelOnKeyboard
    FileIsPanel
