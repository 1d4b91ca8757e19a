\* What the error message of copyChunksIntoBuffer() says.
CONSTANTS
    Sizes = {0, 1, 2, 3, 5}
    Limits = {1, 3}
    MaxClock = 6
    Epoch = 9
    MaxDelay = 8
    SleepFor = 2
    Infinity = 100
SPECIFICATION Spec
INVARIANTS ThrowsOnSmallTarget
CHECK_DEADLOCK FALSE
