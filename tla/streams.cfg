\* A read stream and a write stream on one main thread, used in any order.
CONSTANTS
    c1 = c1
    c2 = c2
    Listener = Listener
    Success = Success
    Failed = Failed
    Null = Null
    Clients = {c1, c2}
    MaxChunks = 3
SPECIFICATION StreamsFairSpec
INVARIANTS StreamsTypeOK HandedOverOnce DestroyFrees NothingLeftOut
PROPERTIES DataIsPushed
CHECK_DEADLOCK FALSE
