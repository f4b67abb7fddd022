SPECIFICATION Spec
CONSTANTS
    Task = {t1, t2, t3}
    Column = {1, 2}
    Request = {r1, r2}
    NoTask = NoTask
    NoRow = NoRow
    Idle = Idle
    Together <- FewTogether
SYMMETRY Symmetry
INVARIANTS TypeOK PositionsDistinct NoCycles
 
