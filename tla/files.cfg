SPECIFICATION Spec
CONSTANTS
    Task = {t1, t2}
    User = {u1}
    Image = {k1, k2}
    File = {f1}
    Scope = {{t1, t2}, {t2}}
    Request = {p1, p2}
    Idle = Idle
    NoRow = NoRow
    NoKey = NoKey
    NoTask = NoTask
    Together <- Apart
SYMMETRY Symmetry
INVARIANTS TypeOK AttachmentStored  
CHECK_DEADLOCK FALSE
