SPECIFICATION Spec
CONSTANTS
    KeysPerRow = 2
    LastRowKeys = 1
    None = None
    Unreadable = Unreadable
    a = a
    b = b
    off = off
    lit = lit
    Leds <- MCLeds
    LedOff = off
    Names = {1, 2, 3, 4}
    Content <- MCContent
    Distances <- MCDistances
    Requests <- ProfileRequests
    Producers <- OneProducer
    InitialKeyboards <- UsedKeyboard
INVARIANTS
    MirrorInSync
    LabelTruthful
    AnswerHonest
    CycleCoversStore
PROPERTIES
    LabelFollowsWrites
    ImplementsService
