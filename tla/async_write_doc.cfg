\* What the documentation of write() says of a failed write.
CONSTANTS
    acc = acc
    wr1 = wr1
    wr2 = wr2
    plain = plain
    NoCall = NoCall
    Calls = {acc, wr1, plain}
    TimeoutCalls = {acc}
    Writes = {wr1}
    Neutered = {}
    Blocking = {acc}
SPECIFICATION Spec
INVARIANTS FailedWriteResolves
CHECK_DEADLOCK FALSE
