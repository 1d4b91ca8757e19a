\* Three chunks in ticks of two, in both write modes, beside a reader of three
\* bytes on the same worker, whose reads wait for data or do not.
CONSTANTS
    Success = Success
    Failed = Failed
    Undefined = Undefined
    Rejected = Rejected
    NumChunks = 3
    WritesPerTick = 2
    Schedulings = {"yielding", "explicit"}
    MinBytes = 3
    Mtu = 2
    MaxMessages = 2
    ReadModes = {TRUE, FALSE}
SPECIFICATION FairSpec
INVARIANTS TypeOK TicksAreBounded ResolvedMeansSent WritesInOrder
PROPERTIES WriterSettles DisposeEndsReader
CHECK_DEADLOCK FALSE
