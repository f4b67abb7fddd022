SPECIFICATION Spec
CONSTANTS
    Workspace = {w1, w2}
    User = {u1, u2, u3}
    Token = {t1, t2}
    Request = {r1}
    NoToken = NoToken
    Idle = Idle
    Ops <- OpNames
SYMMETRY Symmetry
CHECK_DEADLOCK FALSE
INVARIANTS TypeOK HasOwner AtMostOneOwner
PROPERTIES OnlyExpiredAreCleared
