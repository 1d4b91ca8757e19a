\* The native accept() may block for ever; the buffer of one write is detached.
CONSTANTS
    acc = acc
    wr1 = wr1
    wr2 = wr2
    plain = plain
    NoCall = NoCall
    Calls = {acc, wr1, wr2, plain}
    TimeoutCalls = {acc}
    Writes = {wr1, wr2}
    Neutered = {wr1}
    Blocking = {acc}
SPECIFICATION FairSpec
PROPERTIES EveryCallSettles DisposeCompletes ImplementsChannel
CHECK_DEADLOCK FALSE
