\* The user calls methods at any time.
CONSTANTS
    f1 = f1
    f2 = f2
    create1 = create1
    create2 = create2
    Null = Null
    Success = Success
    Failed = Failed
    Undefined = Undefined
    Rejected = Rejected
    Fds = {f1, f2}
    Creates = {create1, create2}
SPECIFICATION FairSpec
INVARIANTS TypeOK NothingBehindClose OwnsWhatItNames
PROPERTIES EveryCallSettles
CHECK_DEADLOCK FALSE
