SPECIFICATION FairSpec
CONSTANTS
    Clients = {reader, sulker}
    Readers = {reader}
    MaxLines = 2
    Room = 1
    None = None
INVARIANTS
    ResponsesInStep
    OneAfterHangUp
PROPERTIES
    ConnectionEnds
    ReadersAreServed
CHECK_DEADLOCK FALSE
