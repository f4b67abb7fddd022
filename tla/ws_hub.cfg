SPECIFICATION FairSpec
CONSTANTS
    Client = {c1, c2}
    User = {u1, u2}
    Room = {r1}
    Handler = {h1}
    MaxConns = 1
    QueueSize = 1
INVARIANTS TypeOK RoomsHoldClients FarewellIsComplete WaitIsFinal
PROPERTIES GoroutinesEnd ShutdownEnds
CHECK_DEADLOCK FALSE
