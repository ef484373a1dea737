SPECIFICATION Spec
CONSTANTS
    KeysPerRow = 2
    LastRowKeys = 1
    None = None
    Unreadable = Unreadable
    Names = {1, 2, 3}
    Content <- MCContent
    Leds = {off, lit}
    LedOff = off
    Distances <- MCDistances
    Requests = {}
    Commands <- MCCommands
INVARIANTS
    OnlyNamedKeys
