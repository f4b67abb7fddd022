SPECIFICATION Spec
CONSTANTS
    Workspace = {w1}
    User = {u1, u2, u3}
    Token = {t1}
    Request = {r1, r2}
    NoToken = NoToken
    Idle = Idle
    Ops <- OpsTransferRemove
SYMMETRY Symmetry
CHECK_DEADLOCK FALSE
INVARIANTS HasOwner
