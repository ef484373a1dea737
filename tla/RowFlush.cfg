SPECIFICATION UploadSpec
CONSTANTS
    KeysPerRow = 59
    LastRowKeys = 8
    Wishes <- MCWishes
    Images <- MCImages
    PayloadLen = 63
    KeyMaps <- MCKeyMaps
    Lights <- MCLights
    Signatures <- MCSignatures
INVARIANTS
    FlushProgress
    WishGranted
    KeyboardUnderstands
    ToggleRoundTrip
    EchoIsNoReply
CHECK_DEADLOCK FALSE
