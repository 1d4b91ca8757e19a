\* What the README says of multiple connections.
CONSTANTS
    c1 = c1
    c2 = c2
    open1 = open1
    open2 = open2
    Listener = Listener
    Success = Success
    Failed = Failed
    Undefined = Undefined
    Rejected = Rejected
    Clients = {c1, c2}
    Opens = {open1}
SPECIFICATION FairSpec
PROPERTIES SecondPeerAnnounced
CHECK_DEADLOCK FALSE
