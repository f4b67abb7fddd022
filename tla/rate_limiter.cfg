SPECIFICATION Spec
CONSTANTS
    Server = {"w1", "w2"}
    Limit = 2
    Window = 3
    Expiry = 3
    Delay = 1
    Request = {p1, p2}
    Idle = Idle
    MaxTime = 5
    MaxNonce <- Requests
SYMMETRY Symmetry
INVARIANTS TypeOK LimitKept MemoryLimitKept
PROPERTIES RefusedAtLimit
CHECK_DEADLOCK FALSE
