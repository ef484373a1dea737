SPECIFICATION WatchSpec
CONSTANTS
    KeysPerRow = 1
    LastRowKeys = 1
    None = None
    Unreadable = Unreadable
    w = w
    c = c
    off = off
    Leds <- MCLeds
    LedOff = off
    Names = {1, 3}
    Content <- MCContent
    Distances <- MCDistances
    Requests <- MCRequests
    Producers <- JustWatcher
    InitialKeyboards <- MCInitialKeyboards
    Watcher = w
    Apps <- WorkApps
    RulesFile <- MCRulesFile
    Default = None
    CycleCall = CycleCall
    Small = {"a", "_"}
    Big <- MCBig
    RuleLists <- MCRuleLists
    Profiles = {1, 3}
    NoProfile = None
    MaxId = 3
    MaxCalls = 2
INVARIANTS
    AutoSwitchFollowsFocus
    RulesChoose
PROPERTIES
    NoNeedlessApply
