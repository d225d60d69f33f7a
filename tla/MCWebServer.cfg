SPECIFICATION ServerSpec
CONSTANTS
    Client = {a, b}
    NoClient = NoClient
    Room = 2
    MaxBody = 3
    MaxTotal = 6
    MaxSize = 3
    MaxImage = 6
    Head = 1
INVARIANTS
    ServedRightly
    FinishedExactly
    LockHasBuffer
    NothingUnderLock
PROPERTIES
    LockIsReleased
