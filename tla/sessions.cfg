SPECIFICATION Spec
CONSTANTS
    Server = {w1, w2}
    Subject = {s}
    Handle = {h1, h2}
    NoHandle = NoHandle
    VersionTTL = 2
    AccessTTL = 1
    RefreshTTL = 2
    MaxTime = 2
    MaxVersion = 3
    Request = {p1, p2}
    Idle = Idle
    NoRow = NoRow
    Details = {d1}
    MaxPassword = 2
    Together <- Apart
SYMMETRY Symmetry
INVARIANTS TypeOK RefreshOnce RevokedRefused OldPasswordOut RefreshGood
