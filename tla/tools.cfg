\* Every slicing and merging of up to five bytes, and waiting for up to three attempts.
CONSTANTS
    Sizes = {0, 1, 2, 3, 5}
    Limits = {1, 3}
    MaxClock = 6
    Epoch = 9
    MaxDelay = 8
    SleepFor = 2
    Infinity = 100
SPECIFICATION FairSpec
INVARIANTS TypeOK SliceAndMerge AttemptsReported
PROPERTIES WaitEnds
CHECK_DEADLOCK FALSE
