\* What the README says of the connection object.
CONSTANTS
    c1 = c1
    c2 = c2
    open1 = open1
    open2 = open2
    Listener = Listener
    Success = Success
    Failed = Failed
    Undefined = Undefined
    Rejected = Rejected
    Clients = {c1}
    Opens = {open1}
SPECIFICATION Spec
INVARIANTS FreshConnectionUsable
CHECK_DEADLOCK FALSE
