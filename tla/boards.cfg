SPECIFICATION Spec
CONSTANTS
    Board = {b1, b2, b3}
    User = {u1}
    ColumnCount = 2
    Request = {p1, p2}
    Idle = Idle
    NoRow = NoRow
    NoBoard = NoBoard
    Together <- Apart
SYMMETRY Symmetry
INVARIANTS TypeOK OneMain ColumnsComplete NoDanglingFavorite
PROPERTIES ListKept OnlyReorderMoves
