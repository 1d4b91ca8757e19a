\* An accept() with a timeout, a write and a plain call; the buffer of one write is
\* already detached: postMessage() throws on it.
CONSTANTS
    acc = acc
    wr1 = wr1
    wr2 = wr2
    plain = plain
    NoCall = NoCall
    Success = Success
    Failed = Failed
    Undefined = Undefined
    Rejected = Rejected
    Calls = {acc, wr1, wr2, plain}
    TimeoutCalls = {acc}
    Writes = {wr1, wr2}
    Neutered = {wr1}
    Blocking = {acc}
SPECIFICATION TurnSpec
INVARIANTS TypeOK Aligned OwnAnswer LockCounts NoneStranded ReportedWriteWasSent QueueExcess ErrorIsOwn
PROPERTIES ImplementsLoop
CHECK_DEADLOCK FALSE
