\* What the comment in the read loop says.
CONSTANTS
    Success = Success
    Failed = Failed
    Undefined = Undefined
    Rejected = Rejected
    NumChunks = 1
    WritesPerTick = 1
    Schedulings = {"yielding"}
    MinBytes = 2
    Mtu = 1
    MaxMessages = 1
    ReadModes = {FALSE}
SPECIFICATION FairSpec
PROPERTIES ReaderGivesUp
CHECK_DEADLOCK FALSE
