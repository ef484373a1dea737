SPECIFICATION FairSpec
CONSTANTS
    KeysPerRow = 1
    LastRowKeys = 1
    None = None
    Unreadable = Unreadable
    a = a
    b = b
    off = off
    lit = lit
    Leds <- MCLeds
    LedOff = off
    Names = {}
    Content <- MCContent
    Distances <- MCDistances
    Requests <- DeviceRequests
    Producers <- MCProducers
    InitialKeyboards <- UsedKeyboard
INVARIANTS
    OneReplyEach
    AnswerHonest
PROPERTIES
    ImplementsService
    EveryJobAnswered
