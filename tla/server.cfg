\* Two peers and two open(): every interleaving of the poll loop, the handlers and
\* dispose(); the event loop and the worker keep running.
CONSTANTS
    c1 = c1
    c2 = c2
    open1 = open1
    open2 = open2
    Listener = Listener
    Success = Success
    Failed = Failed
    Undefined = Undefined
    Rejected = Rejected
    Clients = {c1, c2}
    Opens = {open1, open2}
SPECIFICATION FairSpec
INVARIANTS TypeOK AcceptWillNotBlock OnePollLoop EventsAreMapped AnnouncedWasAccepted NeverRejected
PROPERTIES PeerAnnounced BreakNoticed DisposeCompletes
CHECK_DEADLOCK FALSE
