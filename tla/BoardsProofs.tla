---------------------------- MODULE BoardsProofs ----------------------------
(***************************************************************************)
(* Proofs about Boards, for any finite set of board ids, and any number of *)
(* users, columns and requests.                                            *)
(*                                                                         *)
(* A request acts on what it has read.  What stays of that until it writes *)
(* depends on who works beside it, so every theorem but the first two says *)
(* which operations it needs apart; MCBoards has each of these, and a run  *)
(* without it breaks the property (with four boards, where a creation      *)
(* meets a new order).                                                     *)
(***************************************************************************)
EXTENDS Boards, FiniteSetTheorems, SequenceTheorems, WellFoundedInduction, TLAPS

\* What each operation has in hand at each of its statements.
Stages(r, ids) ==
    /\ r.op = "Create" <=> r.at \in {"insert", "columns", "undo"}
    /\ r.at = "insert" \/ r.op = "Reorder" <=> r.board = NoBoard
    /\ r.board = NoBoard \/ r.board \in ids
    /\ r.op = "Update" => r.mine \in Row

Staged == \A p \in Request : req[p] # Idle => Stages(req[p], used)

\* An id that is not used has nothing, and what is gone has no columns.
Fresher == \A b \in Board : /\ row[b] # NoRow => b \in used
                            /\ row[b] = NoRow => columns[b] = 0

\* A board that gets its columns lacks one, and gets them from one request.
Creating(r, rows, cols) ==
    r.at = "columns" /\ rows[r.board] # NoRow => cols[r.board] < ColumnCount

Creations ==
    /\ \A p \in Request : req[p] # Idle => Creating(req[p], row, columns)
    /\ \A p, o \in Request :
          /\ p # o /\ req[p] # Idle /\ req[o] # Idle
          /\ req[p].at \in {"columns", "undo"} /\ req[o].at \in {"columns", "undo"}
          => req[p].board # req[o].board

BoardInv == TypeOK /\ Staged /\ Fresher /\ Creations /\ ColumnsComplete

\* Operations are in progress together only where they may be.
Allowed ==
    \A p, o \in Request :
       p # o /\ req[p] # Idle /\ req[o] # Idle => {req[p].op, req[o].op} \in Together

\* What a request has read of a board that is there is still so.
There(rows, b) == b \in Board /\ rows[b] # NoRow

MainKnown(r, rows) ==
    /\ r.op = "SetMain" => There(rows, r.board)
    /\ r.op = "Delete" /\ There(rows, r.board) => ~rows[r.board].main
    /\ r.op = "Create" /\ There(rows, r.board) => ~rows[r.board].main
    /\ r.op = "Update" /\ There(rows, r.board) => r.mine.main = rows[r.board].main

Chosen == \E m \in Boards : row[m].main /\ \A b \in Boards : row[b].main => b = m

MainInv == Chosen /\ \A p \in Request : req[p] # Idle => MainKnown(req[p], row)

FavoriteKnown(r, rows) == r.op = "AddFavorite" => There(rows, r.board)

FavoriteInv ==
    NoDanglingFavorite /\ \A p \in Request : req[p] # Idle => FavoriteKnown(req[p], row)

PlaceKnown(r, rows) ==
    r.op = "Update" /\ There(rows, r.board) => r.mine.position = rows[r.board].position

PlaceInv == \A p \in Request : req[p] # Idle => PlaceKnown(req[p], row)

-----------------------------------------------------------------------------
\* A set of numbers has a least one.
LEMMA Least ==
    ASSUME NEW T \in SUBSET Nat, T # {}
    PROVE  \E n \in T : \A m \in T : n <= m
<1> DEFINE R == OpToRel(<, Nat)
<1>1. IsWellFoundedOn(R, Nat)
  BY NatLessThanWellFounded
<1>2. \A m, n \in Nat : m < n => <<m, n>> \in R
  BY DEF OpToRel
<1> HIDE DEF R
<1>3. PICK n \in T : \A m \in T : ~(<<m, n>> \in R)
  BY <1>1, WFMin
<1>4. \A m \in T : m \in Nat /\ n \in Nat /\ ~(m < n)
  BY <1>2, <1>3
<1> QED
  BY <1>4

\* A finite set of numbers has a largest one.
LEMMA MaxType ==
    ASSUME NEW S \in SUBSET Nat, IsFiniteSet(S), S # {}
    PROVE  Max(S) \in S /\ \A y \in S : Max(S) >= y
<1> DEFINE Above(x) == {y \in S : y > x}
           T == {Cardinality(Above(x)) : x \in S}
<1>1. ASSUME NEW x \in S PROVE IsFiniteSet(Above(x)) /\ Cardinality(Above(x)) \in Nat
  BY FS_Subset, FS_CardinalityType
<1>2. T \in SUBSET Nat /\ T # {}
  BY <1>1
<1> HIDE DEF T
<1>3. PICK n \in T : \A m \in T : n <= m
  BY <1>2, Least
<1>4. PICK x \in S : n = Cardinality(Above(x))
  BY DEF T
<1>5. ASSUME NEW y \in S, y > x PROVE FALSE
  <2>1. ~(y > y) /\ \A z \in S : z > y => z > x
    <3>1. x \in Nat /\ y \in Nat
      OBVIOUS
    <3>2. ASSUME NEW z \in S, z > y PROVE z > x
      <4>1. z \in Nat
        OBVIOUS
      <4> QED
        BY <1>5, <3>1, <3>2, <4>1
    <3> QED
      BY <3>1, <3>2
  <2>2. Above(y) \subseteq Above(x) /\ y \in Above(x) /\ y \notin Above(y)
    BY <1>5, <2>1
  <2> HIDE DEF Above
  <2>3. Cardinality(Above(y)) \in T
    BY DEF T
  <2>4. Cardinality(Above(y)) <= Cardinality(Above(x)) /\ Cardinality(Above(y)) # Cardinality(Above(x))
    BY <1>1, <2>2, FS_Subset
  <2>5. Cardinality(Above(x)) <= Cardinality(Above(y))
    BY <1>3, <1>4, <2>3
  <2>6. Cardinality(Above(x)) \in Nat /\ Cardinality(Above(y)) \in Nat
    BY <1>1
  <2> QED
    BY <2>4, <2>5, <2>6
<1>6. \A y \in S : x >= y
  <2> TAKE y \in S
  <2>1. x \in Nat /\ y \in Nat /\ ~(y > x)
    BY <1>5
  <2> QED
    BY <2>1
<1>7. \E z \in S : \A y \in S : z >= y
  BY <1>6
<1> QED
  BY <1>7 DEF Max

-----------------------------------------------------------------------------
LEMMA RequestTypes ==
    ASSUME TypeOK, NEW p \in Request, req[p] # Idle
    PROVE  /\ req[p] \in InProgress
           /\ req[p].op \in OpNames /\ req[p].at \in {"insert", "columns", "undo", "write"}
           /\ req[p].board \in Board \cup {NoBoard} /\ req[p].mine \in Row \cup {NoRow}
           /\ req[p].place \in Nat /\ req[p].user \in User
           /\ req[p].order \in UNION {[1..n -> Board] : n \in 0..Cardinality(Board)}
<1>1. req[p] \in InProgress
  BY DEF TypeOK
<1> QED
  BY <1>1 DEF InProgress

\* A request becomes another record, or ends; the others stay.
LEMMA BecomeTypes ==
    ASSUME TypeOK, NEW p \in Request, NEW x \in InProgress \cup {Idle}, Become(p, x)
    PROVE  /\ req' \in [Request -> InProgress \cup {Idle}]
           /\ req'[p] = x
           /\ \A o \in Request \ {p} : req'[o] = req[o]
  BY DEF TypeOK, Become

\* A board that is there has a row.
LEMMA RowTypes ==
    ASSUME TypeOK, NEW b \in Boards
    PROVE  /\ b \in Board /\ row[b] \in Row
           /\ row[b].position \in Nat /\ row[b].main \in BOOLEAN /\ row[b].born \in Nat
<1>1. b \in Board /\ row[b] \in Row
  BY DEF TypeOK, Boards
<1> QED
  BY <1>1 DEF Row

\* The empty order is one.
LEMMA NoOrder == <<>> \in UNION {[1..n -> Board] : n \in 0..Cardinality(Board)}
<1>1. Cardinality(Board) \in Nat
  BY BoardAssumption, FS_CardinalityType
<1>2. 0 \in 0..Cardinality(Board) /\ <<>> \in [1..0 -> Board]
  BY <1>1
<1> QED
  BY <1>2

\* A request that begins.
LEMMA FreshTypes ==
    ASSUME TypeOK, NEW op \in OpNames, NEW stage \in {"insert", "write"},
           NEW b \in Board \cup {NoBoard}, op = "Update" => b \in Boards
    PROVE  /\ Fresh(op, stage, b) \in InProgress
           /\ Fresh(op, stage, b).op = op /\ Fresh(op, stage, b).at = stage
           /\ Fresh(op, stage, b).board = b /\ Fresh(op, stage, b) # Idle
           /\ op = "Update" => Fresh(op, stage, b).mine = row[b]
<1>1. (IF op = "Update" THEN row[b] ELSE NoRow) \in Row \cup {NoRow}
  BY RowTypes
<1>2. (CHOOSE u \in User : TRUE) \in User
  BY BoardAssumption
<1>3. Fresh(op, stage, b) \in InProgress
  BY <1>1, <1>2, NoOrder DEF Fresh, InProgress
<1> QED
  BY <1>3, NothingAssumption DEF Fresh

-----------------------------------------------------------------------------
\* What the requests have in hand stays so, when one takes its next step.
LEMMA StagedKept ==
    ASSUME TypeOK, Staged, NEW p \in Request, NEW x \in InProgress \cup {Idle},
           Become(p, x), used \subseteq used', x # Idle => Stages(x, used')
    PROVE  Staged'
<1> SUFFICES ASSUME NEW o \in Request, req'[o] # Idle PROVE Stages(req'[o], used')
  BY DEF Staged
<1>1. CASE o = p
  BY <1>1, BecomeTypes
<1>2. CASE o # p
  <2>1. req'[o] = req[o] /\ Stages(req[o], used)
    BY <1>2, BecomeTypes DEF Staged
  <2> QED
    BY <2>1 DEF Stages
<1> QED
  BY <1>1, <1>2

\* Creations go on as they were, when a request takes a step that leaves the columns
\* and adds no board.
LEMMA CreationsKept ==
    ASSUME TypeOK, Staged, Creations, NEW p \in Request, NEW x \in InProgress \cup {Idle},
           Become(p, x),
           x # Idle /\ x.at = "columns" => FALSE,
           x # Idle /\ x.at = "undo" =>
               req[p] # Idle /\ req[p].at \in {"columns", "undo"} /\ x.board = req[p].board,
           \A b \in Board : row'[b] # NoRow => row[b] # NoRow /\ columns'[b] = columns[b]
    PROVE  Creations'
<1>0. /\ req'[p] = x
      /\ \A o \in Request \ {p} : req'[o] = req[o]
  BY BecomeTypes
<1>1. ASSUME NEW o \in Request, req'[o] # Idle PROVE Creating(req'[o], row', columns')
  <2>1. CASE o = p
    BY <1>0, <1>1, <2>1 DEF Creating
  <2>2. CASE o # p
    <3>1. req'[o] = req[o] /\ Creating(req[o], row, columns) /\ Stages(req[o], used)
      BY <1>0, <1>1, <2>2 DEF Creations, Staged
    <3>2. req[o].at = "columns" => req[o].board \in Board
      BY <1>0, <1>1, <2>2, <3>1, RequestTypes DEF Stages
    <3> QED
      BY <3>1, <3>2 DEF Creating
  <2> QED
    BY <2>1, <2>2
<1>2. ASSUME NEW q \in Request, NEW o \in Request, q # o, req'[q] # Idle, req'[o] # Idle,
             req'[q].at \in {"columns", "undo"}, req'[o].at \in {"columns", "undo"}
      PROVE  req'[q].board # req'[o].board
  <2>1. CASE q # p /\ o # p
    BY <1>0, <1>2, <2>1 DEF Creations
  <2>2. CASE q = p
    BY <1>0, <1>2, <2>2 DEF Creations
  <2>3. CASE o = p
    BY <1>0, <1>2, <2>3 DEF Creations
  <2> QED
    BY <2>1, <2>2, <2>3
<1> QED
  BY <1>1, <1>2 DEF Creations

\* A request begins.
LEMMA BeginKeeps ==
    ASSUME BoardInv, NEW p \in Request, NEW x \in InProgress, x # Idle, req[p] = Idle,
           Become(p, x), x.at \in {"insert", "write"}, Stages(x, used), UNCHANGED Stored
    PROVE  BoardInv'
<1>0. TypeOK /\ Staged /\ Fresher /\ Creations /\ ColumnsComplete
  BY DEF BoardInv
<1>00. UNCHANGED <<row, columns, used, favorite, left>> /\ Boards' = Boards
  BY DEF Stored, Boards
<1>1. TypeOK'
  BY <1>0, <1>00, BecomeTypes DEF TypeOK
<1>2. Staged'
  BY <1>0, <1>00, StagedKept
<1>3. Fresher'
  BY <1>0, <1>00 DEF Fresher
<1>4. Creations'
  BY <1>0, <1>00, CreationsKept
<1>5. ColumnsComplete'
  BY <1>0, <1>00, BecomeTypes DEF ColumnsComplete
<1> QED
  BY <1>1, <1>2, <1>3, <1>4, <1>5 DEF BoardInv

\* A request writes to the rows that are there, and ends.
LEMMA WriteKeeps ==
    ASSUME BoardInv, NEW p \in Request, req[p] # Idle, req[p].at = "write", Finish(p),
           row' \in [Board -> Row \cup {NoRow}],
           \A b \in Board : row'[b] = NoRow <=> row[b] = NoRow,
           favorite' \subseteq User \X Board, UNCHANGED <<columns, used, left>>
    PROVE  BoardInv'
<1>0. TypeOK /\ Staged /\ Fresher /\ Creations /\ ColumnsComplete
  BY DEF BoardInv
<1>00. Boards' = Boards /\ Become(p, Idle) /\ req[p].op # "Create"
  BY <1>0 DEF Boards, Finish, Staged, Stages
<1>1. TypeOK'
  BY <1>0, <1>00, BecomeTypes DEF TypeOK
<1>2. Staged'
  BY <1>0, <1>00, StagedKept
<1>3. Fresher'
  BY <1>0 DEF Fresher
<1>4. Creations'
  BY <1>0, <1>00, CreationsKept
<1>5. ColumnsComplete'
  <2> SUFFICES ASSUME NEW b \in Boards \ left, columns[b] # ColumnCount
               PROVE  \E o \in Request : req'[o] # Idle /\ req'[o].op = "Create" /\ req'[o].board = b
    BY <1>00 DEF ColumnsComplete
  <2>1. PICK o \in Request : req[o] # Idle /\ req[o].op = "Create" /\ req[o].board = b
    BY <1>0 DEF ColumnsComplete
  <2> QED
    BY <1>0, <1>00, <2>1, BecomeTypes
<1> QED
  BY <1>1, <1>2, <1>3, <1>4, <1>5 DEF BoardInv

\* A board is deleted.
LEMMA GoneKeeps ==
    ASSUME BoardInv, NEW p \in Request, req[p] # Idle, req[p].at \in {"write", "undo"},
           req[p].op \in {"Delete", "Create"}, Gone(req[p].board), Finish(p), UNCHANGED used
    PROVE  BoardInv'
<1>0. TypeOK /\ Staged /\ Fresher /\ Creations /\ ColumnsComplete
  BY DEF BoardInv
<1> DEFINE b == req[p].board
<1>00. Become(p, Idle) /\ b \in Board
  BY <1>0, RequestTypes DEF Finish, Staged, Stages
<1>01. /\ row' = [row EXCEPT ![b] = NoRow] /\ columns' = [columns EXCEPT ![b] = 0]
       /\ favorite' \subseteq favorite /\ left' = left \ {b}
  BY DEF Gone
<1>02. Boards' = Boards \ {b}
  BY <1>0, <1>00, <1>01 DEF Boards, TypeOK
<1> HIDE DEF b
<1>1. TypeOK'
  <2>1. 0 \in 0..ColumnCount
    BY CountAssumption
  <2> QED
    BY <1>0, <1>00, <1>01, <2>1, BecomeTypes DEF TypeOK
<1>2. Staged'
  BY <1>0, <1>00, StagedKept
<1>3. Fresher'
  BY <1>0, <1>01 DEF Fresher, TypeOK
<1>4. Creations'
  <2>1. \A c \in Board : row'[c] # NoRow => row[c] # NoRow /\ columns'[c] = columns[c]
    BY <1>0, <1>01 DEF TypeOK
  <2> QED
    BY <1>0, <1>00, <2>1, CreationsKept
<1>5. ColumnsComplete'
  <2> SUFFICES ASSUME NEW c \in Boards', c \notin left', columns'[c] # ColumnCount
               PROVE  \E o \in Request : req'[o] # Idle /\ req'[o].op = "Create" /\ req'[o].board = c
    BY DEF ColumnsComplete
  <2>1. c \in Boards \ left /\ c # b /\ columns'[c] = columns[c]
    BY <1>0, <1>01, <1>02 DEF TypeOK, Boards
  <2>2. PICK o \in Request : req[o] # Idle /\ req[o].op = "Create" /\ req[o].board = c
    BY <1>0, <2>1 DEF ColumnsComplete
  <2>3. o # p
    BY <2>1, <2>2 DEF b
  <2> QED
    BY <1>0, <1>00, <2>2, <2>3, BecomeTypes
<1> QED
  BY <1>1, <1>2, <1>3, <1>4, <1>5 DEF BoardInv

-----------------------------------------------------------------------------
\* A board that is looked up is one whose id is used.
LEMMA BoardsUsed ==
    ASSUME BoardInv, NEW b \in Boards
    PROVE  b \in used /\ b \in Board /\ b # NoBoard
  BY NothingAssumption DEF BoardInv, Fresher, Boards

LEMMA BeginFresh ==
    ASSUME BoardInv, NEW p \in Request, NEW op \in OpNames \ {"Create", "Reorder"}, NEW b \in Boards,
           NEW u \in User, req[p] = Idle, Become(p, [Fresh(op, "write", b) EXCEPT !.user = u]),
           UNCHANGED Stored
    PROVE  BoardInv'
<1> DEFINE f == Fresh(op, "write", b)
           x == [f EXCEPT !.user = u]
<1>1. TypeOK /\ b \in used /\ b \in Board /\ b # NoBoard
  BY BoardsUsed DEF BoardInv
<1>2. f \in InProgress /\ f.op = op /\ f.at = "write" /\ f.board = b /\ (op = "Update" => f.mine = row[b])
  BY <1>1, FreshTypes
<1> HIDE DEF f
<1>3. x \in InProgress /\ x.op = op /\ x.at = "write" /\ x.board = b /\ x.mine = f.mine
  BY <1>2 DEF InProgress
<1> HIDE DEF x
<1>4. x # Idle
  BY <1>3, NothingAssumption
<1>5. Stages(x, used)
  BY <1>1, <1>2, <1>3, RowTypes DEF Stages
<1>6. Become(p, x)
  BY DEF f, x
<1> QED
  BY <1>3, <1>4, <1>5, <1>6, BeginKeeps

LEMMA FindKeeps ==
    ASSUME BoardInv, NEW p \in Request, Find(p)
    PROVE  BoardInv'
<1>1. PICK op \in {"Update", "Delete", "SetMain"}, b \in Boards :
         MayBegin(p, op) /\ Become(p, Fresh(op, "write", b))
  BY DEF Find
<1> DEFINE x == Fresh(op, "write", b)
<1>2. TypeOK /\ b \in used /\ b \in Board /\ b # NoBoard
  BY BoardsUsed DEF BoardInv
<1>3. /\ x \in InProgress /\ x.op = op /\ x.at = "write" /\ x.board = b /\ x # Idle
      /\ op = "Update" => x.mine = row[b]
  BY <1>2, FreshTypes DEF OpNames
<1>4. req[p] = Idle /\ UNCHANGED Stored /\ Become(p, x)
  BY <1>1 DEF MayBegin, Find
<1> HIDE DEF x
<1>5. Stages(x, used)
  BY <1>2, <1>3, RowTypes DEF Stages
<1> QED
  BY <1>3, <1>4, <1>5, BeginKeeps

LEMMA AddKeeps ==
    ASSUME BoardInv, NEW p \in Request, NEW u \in User, Add(p, u)
    PROVE  BoardInv'
<1>1. PICK b \in Boards : Become(p, [Fresh("AddFavorite", "write", b) EXCEPT !.user = u])
  BY DEF Add
<1> QED
  BY <1>1, BeginFresh DEF Add, MayBegin, OpNames

\* The place of a new board is a number, after the places of all that are there.
LEMMA NextPositionType ==
    ASSUME TypeOK
    PROVE  NextPosition \in Nat /\ \A b \in Boards : row[b].position < NextPosition
<1> DEFINE S == {row[b].position : b \in Boards}
<1>1. CASE Boards = {}
  BY <1>1 DEF NextPosition
<1>2. CASE Boards # {}
  <2>1. S \in SUBSET Nat /\ S # {}
    BY <1>2, RowTypes
  <2>2. IsFiniteSet(Boards)
    BY BoardAssumption, FS_Subset DEF Boards
  <2>3. IsFiniteSet(S)
    <3> DEFINE f == [b \in Boards |-> row[b].position]
    <3>1. f \in Surjection(Boards, S)
      BY DEF Surjection
    <3> QED
      BY <2>2, <3>1, FS_Surjection
  <2>4. \A b \in Boards : row[b].position \in S
    OBVIOUS
  <2>5. NextPosition = Max(S) + 1
    BY <1>2 DEF NextPosition
  <2> HIDE DEF S
  <2>6. Max(S) \in S /\ \A y \in S : Max(S) >= y
    BY <2>1, <2>3, MaxType
  <2>7. \A y \in S : y \in Nat /\ Max(S) \in Nat /\ Max(S) >= y
    BY <2>1, <2>6
  <2>8. \A y \in S : y < NextPosition
    BY <2>5, <2>7
  <2> QED
    BY <2>4, <2>5, <2>6, <2>7, <2>8
<1> QED
  BY <1>1, <1>2

LEMMA LockWorkspaceKeeps ==
    ASSUME BoardInv, NEW p \in Request, LockWorkspace(p)
    PROVE  BoardInv'
<1> DEFINE f == Fresh("Create", "insert", NoBoard)
           x == [f EXCEPT !.place = NextPosition]
<1>1. TypeOK /\ NextPosition \in Nat
  BY NextPositionType DEF BoardInv
<1>2. f \in InProgress /\ f.op = "Create" /\ f.at = "insert" /\ f.board = NoBoard
  BY <1>1, FreshTypes DEF OpNames
<1>3. req[p] = Idle /\ UNCHANGED Stored /\ Become(p, x)
  BY DEF MayBegin, LockWorkspace
<1> HIDE DEF f
<1>4. x \in InProgress /\ x.op = "Create" /\ x.at = "insert" /\ x.board = NoBoard
  BY <1>1, <1>2 DEF InProgress
<1> HIDE DEF x
<1>5. x # Idle /\ Stages(x, used)
  BY <1>4, NothingAssumption DEF Stages
<1> QED
  BY <1>3, <1>4, <1>5, BeginKeeps

LEMMA ListBoardsKeeps ==
    ASSUME BoardInv, NEW p \in Request, ListBoards(p)
    PROVE  BoardInv'
<1>1. PICK order \in [1..Cardinality(Boards) -> Boards] :
         Become(p, [Fresh("Reorder", "write", NoBoard) EXCEPT !.order = order])
  BY DEF ListBoards
<1> DEFINE f == Fresh("Reorder", "write", NoBoard)
           x == [f EXCEPT !.order = order]
           Orders == UNION {[1..n -> Board] : n \in 0..Cardinality(Board)}
<1>2. order \in Orders
  <2>1. Boards \subseteq Board /\ Cardinality(Boards) \in Nat /\ Cardinality(Board) \in Nat
        /\ Cardinality(Boards) <= Cardinality(Board)
    BY BoardAssumption, FS_Subset, FS_CardinalityType DEF Boards
  <2>2. Cardinality(Boards) \in 0..Cardinality(Board)
    BY <2>1
  <2>3. order \in [1..Cardinality(Boards) -> Board]
    BY <2>1
  <2> QED
    BY <2>2, <2>3
<1>3. f \in InProgress /\ f.op = "Reorder" /\ f.at = "write" /\ f.board = NoBoard
  BY FreshTypes DEF OpNames, BoardInv
<1>4. req[p] = Idle /\ UNCHANGED Stored /\ Become(p, x)
  BY <1>1 DEF MayBegin, ListBoards
<1> HIDE DEF f
<1>5. x \in InProgress /\ x.op = "Reorder" /\ x.at = "write" /\ x.board = NoBoard
  BY <1>2, <1>3 DEF InProgress
<1> HIDE DEF x
<1>6. x # Idle /\ Stages(x, used)
  BY <1>5, NothingAssumption DEF Stages
<1> QED
  BY <1>4, <1>5, <1>6, BeginKeeps

-----------------------------------------------------------------------------
LEMMA UpdateBoardKeeps ==
    ASSUME BoardInv, NEW p \in Request, UpdateBoard(p)
    PROVE  BoardInv'
<1> DEFINE b == req[p].board
<1>1. /\ TypeOK /\ req[p] # Idle /\ req[p].op = "Update" /\ req[p].at = "write"
      /\ Finish(p) /\ UNCHANGED <<columns, used, favorite, left>>
  BY DEF UpdateBoard, At, BoardInv
<1>2. b \in Board /\ req[p].mine \in Row
  BY <1>1, RequestTypes DEF BoardInv, Staged, Stages
<1>3. req[p].mine.position \in Nat /\ req[p].mine.main \in BOOLEAN
  BY <1>2 DEF Row
<1>4. row' = IF row[b] = NoRow THEN row
             ELSE [row EXCEPT ![b].position = req[p].mine.position, ![b].main = req[p].mine.main]
  BY DEF UpdateBoard
<1>5. row' \in [Board -> Row \cup {NoRow}] /\ \A c \in Board : row'[c] = NoRow <=> row[c] = NoRow
  <2>1. CASE row[b] = NoRow
    BY <1>1, <1>4, <2>1 DEF TypeOK
  <2>2. CASE row[b] # NoRow
    <3> DEFINE x == [[row[b] EXCEPT !.position = req[p].mine.position] EXCEPT !.main = req[p].mine.main]
    <3>1. row[b] \in Row
      BY <1>1, <1>2, <2>2 DEF TypeOK
    <3>2. x \in Row
      BY <1>3, <3>1 DEF Row
    <3>3. row' = [row EXCEPT ![b] = x]
      BY <1>1, <1>2, <1>4, <2>2 DEF TypeOK
    <3> HIDE DEF x
    <3>4. x # NoRow
      BY <3>2, NothingAssumption
    <3> QED
      BY <1>1, <1>2, <2>2, <3>2, <3>3, <3>4 DEF TypeOK
  <2> QED
    BY <2>1, <2>2
<1> QED
  BY <1>1, <1>5, WriteKeeps DEF TypeOK

LEMMA SetMainBoardKeeps ==
    ASSUME BoardInv, NEW p \in Request, SetMainBoard(p)
    PROVE  BoardInv'
<1>1. /\ TypeOK /\ req[p] # Idle /\ req[p].op = "SetMain" /\ req[p].at = "write"
      /\ Finish(p) /\ UNCHANGED <<columns, used, favorite, left>>
  BY DEF SetMainBoard, At, BoardInv
<1>2. row' = [b \in Board |-> IF row[b] = NoRow THEN NoRow
                              ELSE [row[b] EXCEPT !.main = (b = req[p].board)]]
  BY DEF SetMainBoard
<1>3. ASSUME NEW b \in Board, row[b] # NoRow
      PROVE  [row[b] EXCEPT !.main = (b = req[p].board)] \in Row
  <2>1. row[b] \in Row
    BY <1>1, <1>3 DEF TypeOK
  <2> QED
    BY <2>1 DEF Row
<1>4. row' \in [Board -> Row \cup {NoRow}] /\ \A b \in Board : row'[b] = NoRow <=> row[b] = NoRow
  BY <1>2, <1>3, NothingAssumption
<1> QED
  BY <1>1, <1>4, WriteKeeps DEF TypeOK

LEMMA ReorderBoardsKeeps ==
    ASSUME BoardInv, NEW p \in Request, ReorderBoards(p)
    PROVE  BoardInv'
<1> DEFINE order == req[p].order
           Has(b) == \E i \in DOMAIN order : order[i] = b
           New(b) == [row[b] EXCEPT !.position = (CHOOSE i \in DOMAIN order : order[i] = b) - 1]
<1>1. /\ TypeOK /\ req[p] # Idle /\ req[p].op = "Reorder" /\ req[p].at = "write"
      /\ Finish(p) /\ UNCHANGED <<columns, used, favorite, left>>
  BY DEF ReorderBoards, At, BoardInv
<1>2. row' = [b \in Board |-> IF row[b] # NoRow /\ Has(b) THEN New(b) ELSE row[b]]
  BY DEF ReorderBoards
<1>3. PICK n \in 0..Cardinality(Board) : order \in [1..n -> Board]
  BY <1>1, RequestTypes
<1> HIDE DEF order
<1>4. ASSUME NEW b \in Board, row[b] # NoRow, Has(b)
      PROVE  New(b) \in Row
  <2>1. row[b] \in Row
    BY <1>1, <1>4 DEF TypeOK
  <2>2. (CHOOSE i \in DOMAIN order : order[i] = b) \in 1..n
    BY <1>3, <1>4
  <2>3. (CHOOSE i \in DOMAIN order : order[i] = b) - 1 \in Nat
    BY <2>2
  <2> QED
    BY <2>1, <2>3 DEF Row
<1> HIDE DEF New, Has
<1>5. row' \in [Board -> Row \cup {NoRow}] /\ \A b \in Board : row'[b] = NoRow <=> row[b] = NoRow
  BY <1>1, <1>2, <1>4, NothingAssumption DEF TypeOK
<1> QED
  BY <1>1, <1>5, WriteKeeps DEF TypeOK

LEMMA AddFavoriteKeeps ==
    ASSUME BoardInv, NEW p \in Request, AddFavorite(p)
    PROVE  BoardInv'
<1>1. /\ TypeOK /\ req[p] # Idle /\ req[p].op = "AddFavorite" /\ req[p].at = "write"
      /\ Finish(p) /\ UNCHANGED <<row, columns, used, left>>
  BY DEF AddFavorite, At, BoardInv
<1>2. req[p].user \in User /\ req[p].board \in Board
  BY <1>1, RequestTypes DEF BoardInv, Staged, Stages
<1>3. favorite' \subseteq User \X Board
  BY <1>1, <1>2 DEF AddFavorite, TypeOK
<1> QED
  BY <1>1, <1>3, WriteKeeps DEF TypeOK

LEMMA DeleteBoardKeeps ==
    ASSUME BoardInv, NEW p \in Request, DeleteBoard(p) \/ UndoCreate(p)
    PROVE  BoardInv'
  BY GoneKeeps DEF DeleteBoard, UndoCreate, At

-----------------------------------------------------------------------------
\* A board is inserted: its id is new, so nobody else gives it columns.
LEMMA CreateBoardKeeps ==
    ASSUME BoardInv, NEW p \in Request, CreateBoard(p)
    PROVE  BoardInv'
<1>1. PICK b \in Board \ used :
         /\ row' = [row EXCEPT ![b] = [position |-> req[p].place, main |-> FALSE,
                                       born |-> Cardinality(used)]]
         /\ used' = used \cup {b}
         /\ Become(p, [req[p] EXCEPT !.at = "columns", !.board = b, !.place = 0])
  BY DEF CreateBoard
<1> DEFINE x == [[[req[p] EXCEPT !.at = "columns"] EXCEPT !.board = b] EXCEPT !.place = 0]
           new == [position |-> req[p].place, main |-> FALSE, born |-> Cardinality(used)]
<1>2. /\ TypeOK /\ Staged /\ Fresher /\ Creations /\ ColumnsComplete
      /\ req[p] # Idle /\ req[p].op = "Create" /\ req[p].at = "insert"
      /\ UNCHANGED <<columns, favorite, left>>
  BY DEF CreateBoard, At, BoardInv
<1>3. new \in Row
  <2>1. Cardinality(used) \in Nat
    BY <1>2, BoardAssumption, FS_Subset, FS_CardinalityType DEF TypeOK
  <2> QED
    BY <1>2, <2>1, RequestTypes DEF Row
<1>4. x \in InProgress /\ x.op = "Create" /\ x.at = "columns" /\ x.board = b
  <2>1. req[p] \in InProgress
    BY <1>2, RequestTypes
  <2> QED
    BY <1>2, <2>1 DEF InProgress
<1>5. Become(p, x) /\ row' = [row EXCEPT ![b] = new] /\ b \in Board /\ b \notin used /\ b # NoBoard
  BY <1>1, NothingAssumption DEF Become
<1> HIDE DEF x, new
<1>6. x # Idle /\ Stages(x, used')
  BY <1>1, <1>4, <1>5, NothingAssumption DEF Stages
<1>7. /\ row' \in [Board -> Row \cup {NoRow}] /\ row'[b] # NoRow
      /\ \A c \in Board \ {b} : row'[c] = row[c]
  BY <1>2, <1>3, <1>5, NothingAssumption DEF TypeOK
<1>8. row[b] = NoRow /\ columns[b] = 0
  BY <1>2, <1>5 DEF Fresher
<1>9. req'[p] = x /\ \A o \in Request \ {p} : req'[o] = req[o]
  BY <1>2, <1>4, <1>5, BecomeTypes
<1>10. \A o \in Request : req[o] # Idle /\ req[o].at \in {"columns", "undo"} =>
                             req[o].board \in Board \ {b}
  <2> TAKE o \in Request
  <2> HAVE req[o] # Idle /\ req[o].at \in {"columns", "undo"}
  <2>1. Stages(req[o], used)
    BY <1>2 DEF Staged
  <2> QED
    BY <1>2, <1>5, <2>1, RequestTypes DEF Stages
<1>11. TypeOK'
  <2>1. req' \in [Request -> InProgress \cup {Idle}]
    BY <1>2, <1>4, <1>5, BecomeTypes
  <2> QED
    BY <1>1, <1>2, <1>7, <2>1 DEF TypeOK
<1>12. Staged'
  BY <1>1, <1>2, <1>4, <1>5, <1>6, StagedKept
<1>13. Fresher'
  BY <1>1, <1>2, <1>5, <1>7 DEF Fresher
<1>14. Creations'
  <2>1. ASSUME NEW o \in Request, req'[o] # Idle PROVE Creating(req'[o], row', columns')
    <3>1. CASE o = p
      BY <1>2, <1>4, <1>8, <1>9, <3>1, CountAssumption DEF Creating
    <3>2. CASE o # p
      BY <1>2, <1>7, <1>9, <1>10, <2>1, <3>2 DEF Creating, Creations
    <3> QED
      BY <3>1, <3>2
  <2>2. ASSUME NEW q \in Request, NEW o \in Request, q # o, req'[q] # Idle, req'[o] # Idle,
               req'[q].at \in {"columns", "undo"}, req'[o].at \in {"columns", "undo"}
        PROVE  req'[q].board # req'[o].board
    <3>1. CASE q # p /\ o # p
      BY <1>2, <1>9, <2>2, <3>1 DEF Creations
    <3>2. CASE q = p
      BY <1>4, <1>9, <1>10, <2>2, <3>2
    <3>3. CASE o = p
      BY <1>4, <1>9, <1>10, <2>2, <3>3
    <3> QED
      BY <3>1, <3>2, <3>3
  <2> QED
    BY <2>1, <2>2 DEF Creations
<1>15. ColumnsComplete'
  <2> SUFFICES ASSUME NEW c \in Boards', c \notin left', columns'[c] # ColumnCount
               PROVE  \E o \in Request : req'[o] # Idle /\ req'[o].op = "Create" /\ req'[o].board = c
    BY DEF ColumnsComplete
  <2>1. CASE c = b
    BY <1>4, <1>6, <1>9, <2>1
  <2>2. CASE c # b
    <3>1. c \in Boards \ left /\ columns[c] # ColumnCount
      BY <1>2, <1>7, <2>2 DEF Boards
    <3>2. PICK o \in Request : req[o] # Idle /\ req[o].op = "Create" /\ req[o].board = c
      BY <1>2, <3>1 DEF ColumnsComplete
    <3>3. o # p
      BY <1>2, <3>1, <3>2, BoardsUsed DEF Staged, Stages
    <3> QED
      BY <1>9, <3>2, <3>3
  <2> QED
    BY <2>1, <2>2
<1> QED
  BY <1>11, <1>12, <1>13, <1>14, <1>15 DEF BoardInv

LEMMA CreateColumnKeeps ==
    ASSUME BoardInv, NEW p \in Request, CreateColumn(p)
    PROVE  BoardInv'
<1> DEFINE b == req[p].board
<1>1. /\ TypeOK /\ Staged /\ Fresher /\ Creations /\ ColumnsComplete
      /\ req[p] # Idle /\ req[p].op = "Create" /\ req[p].at = "columns"
      /\ UNCHANGED <<row, used, favorite, left>> /\ Boards' = Boards
  BY DEF CreateColumn, At, BoardInv, Boards
<1>2. b \in Board
  BY <1>1, RequestTypes DEF Staged, Stages
<1>3. CASE row[b] = NoRow
  <2>1. Become(p, Idle) /\ UNCHANGED columns
    BY <1>3 DEF CreateColumn, Finish
  <2>2. TypeOK'
    BY <1>1, <2>1, BecomeTypes DEF TypeOK
  <2>3. Staged' /\ Creations' /\ Fresher'
    BY <1>1, <2>1, StagedKept, CreationsKept DEF Fresher
  <2>4. ColumnsComplete'
    <3> SUFFICES ASSUME NEW c \in Boards \ left, columns[c] # ColumnCount
                 PROVE  \E o \in Request : req'[o] # Idle /\ req'[o].op = "Create" /\ req'[o].board = c
      BY <1>1, <2>1 DEF ColumnsComplete
    <3>1. PICK o \in Request : req[o] # Idle /\ req[o].op = "Create" /\ req[o].board = c
      BY <1>1 DEF ColumnsComplete
    <3>2. o # p
      BY <1>3, <3>1 DEF Boards
    <3> QED
      BY <1>1, <2>1, <3>1, <3>2, BecomeTypes
  <2> QED
    BY <2>2, <2>3, <2>4 DEF BoardInv
<1>4. CASE row[b] # NoRow
  <2>1. /\ columns' = [columns EXCEPT ![b] = @ + 1]
        /\ IF columns[b] + 1 = ColumnCount THEN Become(p, Idle) ELSE UNCHANGED req
    BY <1>4 DEF CreateColumn, Finish
  <2>2. columns[b] \in Nat /\ columns[b] < ColumnCount /\ ColumnCount \in Nat
    <3>1. columns[b] \in 0..ColumnCount /\ ColumnCount \in Nat
      BY <1>1, <1>2, CountAssumption DEF TypeOK
    <3>2. columns[b] < ColumnCount
      BY <1>1, <1>4 DEF Creations, Creating
    <3> QED
      BY <3>1, <3>2
  <2>3. columns'[b] = columns[b] + 1 /\ \A c \in Board \ {b} : columns'[c] = columns[c]
    BY <1>1, <1>2, <2>1 DEF TypeOK
  <2>4. columns' \in [Board -> 0..ColumnCount]
    <3>1. columns[b] + 1 \in 0..ColumnCount
      BY <2>2
    <3> QED
      BY <1>1, <1>2, <2>1, <3>1 DEF TypeOK
  <2>5. /\ req' \in [Request -> InProgress \cup {Idle}]
        /\ \A o \in Request \ {p} : req'[o] = req[o]
        /\ columns[b] + 1 = ColumnCount => req'[p] = Idle
        /\ columns[b] + 1 # ColumnCount => req'[p] = req[p]
    <3>1. CASE columns[b] + 1 = ColumnCount
      BY <1>1, <2>1, <3>1, BecomeTypes
    <3>2. CASE columns[b] + 1 # ColumnCount
      BY <1>1, <2>1, <3>2 DEF TypeOK
    <3> QED
      BY <3>1, <3>2
  <2> HIDE DEF b
  <2>6. TypeOK'
    BY <1>1, <2>4, <2>5 DEF TypeOK
  <2>7. Staged'
    BY <1>1, <2>5 DEF Staged
  <2>8. Fresher'
    BY <1>1, <1>2, <1>4, <2>3 DEF Fresher
  <2>9. Creations'
    <3>1. ASSUME NEW o \in Request, req'[o] # Idle PROVE Creating(req'[o], row', columns')
      <4>1. CASE o = p
        <5>1. req'[o] = req[p] /\ columns'[b] < ColumnCount
          BY <2>2, <2>3, <2>5, <3>1, <4>1
        <5> QED
          BY <5>1 DEF Creating, b
      <4>2. CASE o # p
        <5>1. req'[o] = req[o] /\ Creating(req[o], row, columns)
          BY <1>1, <2>5, <3>1, <4>2 DEF Creations
        <5>2. req[o].at = "columns" => req[o].board \in Board \ {b}
          BY <1>1, <2>5, <3>1, <4>2, RequestTypes DEF Creations, Staged, Stages, b
        <5> QED
          BY <1>1, <2>3, <5>1, <5>2 DEF Creating
      <4> QED
        BY <4>1, <4>2
    <3>2. ASSUME NEW q \in Request, NEW o \in Request, q # o, req'[q] # Idle, req'[o] # Idle,
                 req'[q].at \in {"columns", "undo"}, req'[o].at \in {"columns", "undo"}
          PROVE  req'[q].board # req'[o].board
      <4>1. req'[q] = req[q] /\ req'[o] = req[o]
        BY <2>5, <3>2
      <4> QED
        BY <1>1, <3>2, <4>1 DEF Creations
    <3> QED
      BY <3>1, <3>2 DEF Creations
  <2>10. ColumnsComplete'
    <3> SUFFICES ASSUME NEW c \in Boards \ left, columns'[c] # ColumnCount
                 PROVE  \E o \in Request : req'[o] # Idle /\ req'[o].op = "Create" /\ req'[o].board = c
      BY <1>1 DEF ColumnsComplete
    <3>1. CASE c = b
      <4>1. req'[p] = req[p]
        BY <2>3, <2>5, <3>1
      <4> QED
        BY <1>1, <3>1, <4>1 DEF b
    <3>2. CASE c # b
      <4>1. columns[c] # ColumnCount
        BY <2>3, <3>2 DEF Boards
      <4>2. PICK o \in Request : req[o] # Idle /\ req[o].op = "Create" /\ req[o].board = c
        BY <1>1, <4>1 DEF ColumnsComplete
      <4> QED
        BY <2>5, <3>2, <4>2 DEF b
    <3> QED
      BY <3>1, <3>2
  <2> QED
    BY <2>6, <2>7, <2>8, <2>9, <2>10 DEF BoardInv
<1> QED
  BY <1>3, <1>4

LEMMA ColumnFailsKeeps ==
    ASSUME BoardInv, NEW p \in Request, ColumnFails(p)
    PROVE  BoardInv'
<1> DEFINE x == [req[p] EXCEPT !.at = "undo"]
<1>1. /\ TypeOK /\ Staged /\ Fresher /\ Creations /\ ColumnsComplete
      /\ req[p] # Idle /\ req[p].op = "Create" /\ req[p].at = "columns"
      /\ Become(p, x) /\ UNCHANGED <<row, columns, used, favorite, left>> /\ Boards' = Boards
  BY DEF ColumnFails, At, BoardInv, Boards, Stored
<1>2. x \in InProgress /\ x.op = "Create" /\ x.at = "undo" /\ x.board = req[p].board /\ x.mine = req[p].mine
  <2>1. req[p] \in InProgress
    BY <1>1, RequestTypes
  <2> QED
    BY <1>1, <2>1 DEF InProgress
<1> HIDE DEF x
<1>3. x # Idle /\ Stages(x, used)
  BY <1>1, <1>2, NothingAssumption DEF Staged, Stages
<1>4. TypeOK'
  BY <1>1, <1>2, BecomeTypes DEF TypeOK
<1>5. Staged' /\ Creations' /\ Fresher'
  BY <1>1, <1>2, <1>3, StagedKept, CreationsKept DEF Fresher
<1>6. ColumnsComplete'
  <2> SUFFICES ASSUME NEW c \in Boards \ left, columns[c] # ColumnCount
               PROVE  \E o \in Request : req'[o] # Idle /\ req'[o].op = "Create" /\ req'[o].board = c
    BY <1>1 DEF ColumnsComplete
  <2>1. PICK o \in Request : req[o] # Idle /\ req[o].op = "Create" /\ req[o].board = c
    BY <1>1 DEF ColumnsComplete
  <2> QED
    BY <1>1, <1>2, <1>3, <2>1, BecomeTypes
<1> QED
  BY <1>4, <1>5, <1>6 DEF BoardInv

\* A request that ends half way leaves its board as it is, and says so.
LEMMA RequestFailsKeeps ==
    ASSUME BoardInv, NEW p \in Request, RequestFails(p)
    PROVE  BoardInv'
<1>1. /\ TypeOK /\ Staged /\ Fresher /\ Creations /\ ColumnsComplete
      /\ req[p] # Idle /\ Become(p, Idle)
      /\ UNCHANGED <<row, columns, used, favorite>> /\ Boards' = Boards
      /\ left' = IF req[p].at \in {"columns", "undo"}
                 THEN left \cup ({req[p].board} \cap Boards) ELSE left
  BY DEF RequestFails, BoardInv, Boards, Finish
<1>2. left' \subseteq Board /\ left \subseteq left'
  BY <1>1 DEF TypeOK, Boards
<1>3. TypeOK'
  BY <1>1, <1>2, BecomeTypes DEF TypeOK
<1>4. Staged' /\ Creations' /\ Fresher'
  BY <1>1, StagedKept, CreationsKept DEF Fresher
<1>5. ColumnsComplete'
  <2> SUFFICES ASSUME NEW c \in Boards, c \notin left', columns[c] # ColumnCount
               PROVE  \E o \in Request : req'[o] # Idle /\ req'[o].op = "Create" /\ req'[o].board = c
    BY <1>1 DEF ColumnsComplete
  <2>1. PICK o \in Request : req[o] # Idle /\ req[o].op = "Create" /\ req[o].board = c
    BY <1>1, <1>2 DEF ColumnsComplete
  <2>2. o # p
    <3> SUFFICES ASSUME o = p PROVE FALSE
      OBVIOUS
    <3>1. Stages(req[p], used) /\ c # NoBoard
      BY <1>1, BoardsUsed DEF Staged
    <3>2. req[p].at \in {"columns", "undo"}
      BY <2>1, <3>1 DEF Stages
    <3> QED
      BY <1>1, <2>1, <3>2
  <2> QED
    BY <1>1, <2>1, <2>2, BecomeTypes
<1> QED
  BY <1>3, <1>4, <1>5 DEF BoardInv

\* Requests and boards stay as they are.
LEMMA OthersKeep ==
    ASSUME BoardInv, UNCHANGED <<row, columns, used, req, left>>, favorite' \subseteq favorite
    PROVE  BoardInv'
<1>1. Boards' = Boards
  BY DEF Boards
<1> QED
  BY <1>1 DEF BoardInv, TypeOK, Staged, Fresher, Creations, ColumnsComplete

LEMMA InitHolds == Init => BoardInv /\ Allowed /\ MainInv /\ FavoriteInv /\ PlaceInv
<1> SUFFICES ASSUME Init PROVE BoardInv /\ Allowed /\ MainInv /\ FavoriteInv /\ PlaceInv
  OBVIOUS
<1>1. PICK b \in Board :
         /\ row = [c \in Board |-> IF c = b THEN [position |-> 0, main |-> TRUE, born |-> 0]
                                   ELSE NoRow]
         /\ columns = [c \in Board |-> IF c = b THEN ColumnCount ELSE 0]
         /\ used = {b} /\ favorite = {} /\ req = [p \in Request |-> Idle] /\ left = {}
  BY DEF Init
<1> DEFINE r == [position |-> 0, main |-> TRUE, born |-> 0]
<1>2. r \in Row /\ r # NoRow /\ r.main
  <2>1. r \in Row
    BY DEF Row
  <2> QED
    BY <2>1, NothingAssumption
<1>3. row = [c \in Board |-> IF c = b THEN r ELSE NoRow]
  BY <1>1
<1> HIDE DEF r
<1>4. Boards = {b} /\ row[b] = r
  BY <1>2, <1>3 DEF Boards
<1>5. 0 \in 0..ColumnCount /\ ColumnCount \in 0..ColumnCount
  BY CountAssumption
<1>6. TypeOK
  BY <1>1, <1>2, <1>3, <1>5 DEF TypeOK
<1>7. \A p \in Request : req[p] = Idle
  BY <1>1
<1>8. Staged /\ Fresher /\ Creations /\ Allowed
  BY <1>1, <1>2, <1>3, <1>4, <1>7 DEF Staged, Fresher, Creations, Allowed
<1>9. ColumnsComplete /\ NoDanglingFavorite /\ Chosen
  BY <1>1, <1>2, <1>4 DEF ColumnsComplete, NoDanglingFavorite, Chosen
<1> QED
  BY <1>6, <1>7, <1>8, <1>9 DEF BoardInv, MainInv, FavoriteInv, PlaceInv

LEMMA StepCases ==
    ASSUME [Next]_vars
    PROVE  \/ \E p \in Request :
                 \/ Find(p) \/ UpdateBoard(p) \/ DeleteBoard(p) \/ SetMainBoard(p)
                 \/ LockWorkspace(p) \/ CreateBoard(p) \/ CreateColumn(p) \/ ColumnFails(p)
                 \/ UndoCreate(p)
                 \/ ListBoards(p) \/ ReorderBoards(p)
                 \/ AddFavorite(p) \/ \E u \in User : Add(p, u)
                 \/ RequestFails(p)
           \/ UNCHANGED <<row, columns, used, req, left>> /\ favorite' \subseteq favorite
  BY DEF Next, vars, DeleteUserFavorites, RemoveFavorite

LEMMA BoardInvariant == Spec => []BoardInv
<1>1. Init => BoardInv
  BY InitHolds
<1>2. BoardInv /\ [Next]_vars => BoardInv'
  <2> SUFFICES ASSUME BoardInv, [Next]_vars PROVE BoardInv'
    OBVIOUS
  <2>1. ASSUME NEW p \in Request, Find(p) \/ \E u \in User : Add(p, u) PROVE BoardInv'
    BY <2>1, FindKeeps, AddKeeps
  <2>2. ASSUME NEW p \in Request, LockWorkspace(p) \/ ListBoards(p) PROVE BoardInv'
    BY <2>2, LockWorkspaceKeeps, ListBoardsKeeps
  <2>3. ASSUME NEW p \in Request, UpdateBoard(p) \/ SetMainBoard(p) PROVE BoardInv'
    BY <2>3, UpdateBoardKeeps, SetMainBoardKeeps
  <2>4. ASSUME NEW p \in Request, DeleteBoard(p) \/ UndoCreate(p) PROVE BoardInv'
    BY <2>4, DeleteBoardKeeps
  <2>5. ASSUME NEW p \in Request, CreateBoard(p) PROVE BoardInv'
    BY <2>5, CreateBoardKeeps
  <2>6. ASSUME NEW p \in Request, CreateColumn(p) \/ ColumnFails(p) PROVE BoardInv'
    BY <2>6, CreateColumnKeeps, ColumnFailsKeeps
  <2>7. ASSUME NEW p \in Request, ReorderBoards(p) \/ AddFavorite(p) PROVE BoardInv'
    BY <2>7, ReorderBoardsKeeps, AddFavoriteKeeps
  <2>8. ASSUME NEW p \in Request, RequestFails(p) PROVE BoardInv'
    BY <2>8, RequestFailsKeeps
  <2>9. CASE UNCHANGED <<row, columns, used, req, left>> /\ favorite' \subseteq favorite
    BY <2>9, OthersKeep
  <2> QED
    BY StepCases, <2>1, <2>2, <2>3, <2>4, <2>5, <2>6, <2>7, <2>8, <2>9
<1> QED
  BY <1>1, <1>2, PTL DEF Spec

\* Every variable stays in its type: a board never has more columns than it starts with.
THEOREM TypeCorrect == Spec => []TypeOK
<1>1. BoardInv => TypeOK
  BY DEF BoardInv
<1> QED
  BY <1>1, BoardInvariant, PTL

\* A board that is not being created, and whose creation did not stop half way, has all
\* its columns, whoever deletes it meanwhile.
THEOREM NoHalfBoard == Spec => []ColumnsComplete
<1>1. BoardInv => ColumnsComplete
  BY DEF BoardInv
<1> QED
  BY <1>1, BoardInvariant, PTL

-----------------------------------------------------------------------------
\* A request that begins has what it has read, and may be in progress beside the others.
Begins(p) ==
    /\ req[p] = Idle /\ req'[p] # Idle /\ MayBegin(p, req'[p].op)
    /\ UNCHANGED <<row, favorite>>
    /\ IF req'[p].op \in {"Create", "Reorder"} THEN req'[p].board = NoBoard
                                               ELSE req'[p].board \in Boards
    /\ req'[p].op = "Delete" => ~row[req'[p].board].main
    /\ req'[p].op = "Update" => req'[p].mine = row[req'[p].board]

\* One that goes on, or fails, leaves the rows.
GoesOn(p) ==
    /\ req[p] # Idle /\ UNCHANGED <<row, favorite>>
    /\ req'[p] # Idle =>
          req'[p].op = req[p].op /\ req'[p].board = req[p].board /\ req'[p].mine = req[p].mine

Removes(p) ==
    /\ req[p] # Idle /\ req[p].op \in {"Delete", "Create"} /\ req[p].board \in Board
    /\ Gone(req[p].board) /\ req'[p] = Idle

\* The inserted board: not main, and of an id that no request has.
Inserts(p) ==
    /\ At(p, "Create", "insert") /\ UNCHANGED favorite
    /\ req'[p] # Idle /\ req'[p].op = "Create"
    /\ \E b \in Board \ used, r \in Row :
          /\ row' = [row EXCEPT ![b] = r] /\ req'[p].board = b
          /\ ~r.main /\ r.born = Cardinality(used) /\ r.position = req[p].place

Steps(p) ==
    /\ Begins(p) \/ GoesOn(p) \/ Removes(p) \/ Inserts(p)
       \/ ((UpdateBoard(p) \/ SetMainBoard(p) \/ ReorderBoards(p) \/ AddFavorite(p)) /\ req'[p] = Idle)
    /\ \A o \in Request \ {p} : req'[o] = req[o]

LEMMA BeginSteps ==
    ASSUME BoardInv, NEW p \in Request,
           Find(p) \/ LockWorkspace(p) \/ ListBoards(p) \/ \E u \in User : Add(p, u)
    PROVE  Steps(p)
<1>0. TypeOK /\ \A b \in Boards : b \in Board
  BY DEF BoardInv, Boards
<1>1. ASSUME NEW op \in {"Update", "Delete", "SetMain"}, NEW b \in Boards, MayBegin(p, op),
             Become(p, Fresh(op, "write", b)), op = "Delete" => ~row[b].main, UNCHANGED Stored
      PROVE  Steps(p)
  <2> DEFINE x == Fresh(op, "write", b)
  <2>1. x \in InProgress /\ x.op = op /\ x.board = b /\ x # Idle /\ (op = "Update" => x.mine = row[b])
    BY <1>0, FreshTypes DEF OpNames
  <2>2. req'[p] = x /\ \A o \in Request \ {p} : req'[o] = req[o]
    BY <1>0, <1>1, <2>1, BecomeTypes
  <2> HIDE DEF x
  <2>3. Begins(p)
    BY <1>1, <2>1, <2>2 DEF Begins, MayBegin, Stored
  <2> QED
    BY <2>2, <2>3 DEF Steps
<1>2. ASSUME NEW x, NEW f \in InProgress, f.op \in OpNames \ {"Update", "Delete"}, MayBegin(p, f.op),
             Become(p, x), x \in InProgress, x.op = f.op, x.board = f.board, UNCHANGED Stored,
             IF f.op \in {"Create", "Reorder"} THEN f.board = NoBoard ELSE f.board \in Boards
      PROVE  Steps(p)
  <2>1. req'[p] = x /\ x # Idle /\ \A o \in Request \ {p} : req'[o] = req[o]
    BY <1>0, <1>2, BecomeTypes, NothingAssumption
  <2>2. Begins(p)
    BY <1>2, <2>1 DEF Begins, MayBegin, Stored
  <2> QED
    BY <2>1, <2>2 DEF Steps
<1>3. CASE Find(p)
  BY <1>1, <1>3 DEF Find
<1>4. CASE LockWorkspace(p)
  <2> DEFINE f == Fresh("Create", "insert", NoBoard)
             x == [f EXCEPT !.place = NextPosition]
  <2>1. f \in InProgress /\ f.op = "Create" /\ f.board = NoBoard /\ NextPosition \in Nat
    BY <1>0, FreshTypes, NextPositionType DEF OpNames
  <2>2. MayBegin(p, "Create") /\ Become(p, x) /\ UNCHANGED Stored
    BY <1>4 DEF LockWorkspace
  <2> HIDE DEF f
  <2>3. x \in InProgress /\ x.op = f.op /\ x.board = f.board
    BY <2>1 DEF InProgress
  <2> HIDE DEF x
  <2> QED
    BY <1>2, <2>1, <2>2, <2>3 DEF OpNames
<1>5. CASE ListBoards(p)
  <2>1. PICK order \in [1..Cardinality(Boards) -> Boards] :
           Become(p, [Fresh("Reorder", "write", NoBoard) EXCEPT !.order = order])
    BY <1>5 DEF ListBoards
  <2> DEFINE f == Fresh("Reorder", "write", NoBoard)
             x == [f EXCEPT !.order = order]
             Orders == UNION {[1..n -> Board] : n \in 0..Cardinality(Board)}
  <2>2. order \in Orders
    <3>1. Boards \subseteq Board /\ Cardinality(Boards) \in Nat /\ Cardinality(Board) \in Nat
          /\ Cardinality(Boards) <= Cardinality(Board)
      BY BoardAssumption, FS_Subset, FS_CardinalityType DEF Boards
    <3>2. Cardinality(Boards) \in 0..Cardinality(Board) /\ order \in [1..Cardinality(Boards) -> Board]
      BY <3>1
    <3> QED
      BY <3>2
  <2>3. f \in InProgress /\ f.op = "Reorder" /\ f.board = NoBoard
    BY <1>0, FreshTypes DEF OpNames
  <2>4. MayBegin(p, "Reorder") /\ Become(p, x) /\ UNCHANGED Stored
    BY <1>5, <2>1 DEF ListBoards
  <2> HIDE DEF f
  <2>5. x \in InProgress /\ x.op = f.op /\ x.board = f.board
    BY <2>2, <2>3 DEF InProgress
  <2> HIDE DEF x
  <2> QED
    BY <1>2, <2>3, <2>4, <2>5 DEF OpNames
<1>6. ASSUME NEW u \in User, Add(p, u) PROVE Steps(p)
  <2>1. PICK b \in Boards : Become(p, [Fresh("AddFavorite", "write", b) EXCEPT !.user = u])
    BY <1>6 DEF Add
  <2> DEFINE f == Fresh("AddFavorite", "write", b)
             x == [f EXCEPT !.user = u]
  <2>2. f \in InProgress /\ f.op = "AddFavorite" /\ f.board = b
    BY <1>0, FreshTypes DEF OpNames
  <2>3. MayBegin(p, "AddFavorite") /\ Become(p, x) /\ UNCHANGED Stored
    BY <1>6, <2>1 DEF Add
  <2> HIDE DEF f
  <2>4. x \in InProgress /\ x.op = f.op /\ x.board = f.board
    BY <2>2 DEF InProgress
  <2> HIDE DEF x
  <2> QED
    BY <1>2, <2>2, <2>3, <2>4 DEF OpNames
<1> QED
  BY <1>3, <1>4, <1>5, <1>6

LEMMA CreateSteps ==
    ASSUME BoardInv, NEW p \in Request, CreateBoard(p)
    PROVE  Steps(p)
<1>1. PICK b \in Board \ used :
         /\ row' = [row EXCEPT ![b] = [position |-> req[p].place, main |-> FALSE,
                                       born |-> Cardinality(used)]]
         /\ Become(p, [req[p] EXCEPT !.at = "columns", !.board = b, !.place = 0])
  BY DEF CreateBoard
<1> DEFINE x == [[[req[p] EXCEPT !.at = "columns"] EXCEPT !.board = b] EXCEPT !.place = 0]
           new == [position |-> req[p].place, main |-> FALSE, born |-> Cardinality(used)]
<1>2. /\ TypeOK /\ At(p, "Create", "insert") /\ req[p] # Idle /\ req[p].op = "Create"
      /\ UNCHANGED favorite /\ Become(p, x) /\ row' = [row EXCEPT ![b] = new]
  BY <1>1 DEF CreateBoard, At, BoardInv
<1>3. new \in Row
  <2>1. Cardinality(used) \in Nat
    BY <1>2, BoardAssumption, FS_Subset, FS_CardinalityType DEF TypeOK
  <2> QED
    BY <1>2, <2>1, RequestTypes DEF Row
<1>4. ~new.main /\ new.born = Cardinality(used) /\ new.position = req[p].place
  OBVIOUS
<1>5. x \in InProgress /\ x.op = "Create" /\ x.board = b
  <2>1. req[p] \in InProgress
    BY <1>2, RequestTypes
  <2> QED
    BY <1>2, <2>1 DEF InProgress
<1> HIDE DEF x, new
<1>6. req'[p] = x /\ x # Idle /\ \A o \in Request \ {p} : req'[o] = req[o]
  BY <1>2, <1>5, BecomeTypes, NothingAssumption
<1>7. Inserts(p)
  BY <1>2, <1>3, <1>4, <1>5, <1>6 DEF Inserts
<1> QED
  BY <1>6, <1>7 DEF Steps

LEMMA EndSteps ==
    ASSUME BoardInv, NEW p \in Request,
           \/ UpdateBoard(p) \/ SetMainBoard(p) \/ ReorderBoards(p) \/ AddFavorite(p)
           \/ DeleteBoard(p) \/ UndoCreate(p) \/ RequestFails(p)
    PROVE  Steps(p)
<1>1. TypeOK /\ Staged /\ Become(p, Idle) /\ req[p] # Idle
  BY DEF BoardInv, UpdateBoard, SetMainBoard, ReorderBoards, AddFavorite, DeleteBoard, UndoCreate,
         RequestFails, Finish, At
<1>2. req'[p] = Idle /\ \A o \in Request \ {p} : req'[o] = req[o]
  BY <1>1, BecomeTypes
<1>3. CASE UpdateBoard(p) \/ SetMainBoard(p) \/ ReorderBoards(p) \/ AddFavorite(p)
  BY <1>2, <1>3 DEF Steps
<1>4. CASE DeleteBoard(p) \/ UndoCreate(p)
  <2>1. req[p].op \in {"Delete", "Create"} /\ req[p].at \in {"write", "undo"} /\ Gone(req[p].board)
    BY <1>4 DEF DeleteBoard, UndoCreate, At
  <2>2. req[p].board \in Board
    BY <1>1, <2>1, RequestTypes DEF Staged, Stages
  <2> QED
    BY <1>1, <1>2, <2>1, <2>2 DEF Steps, Removes
<1>5. CASE RequestFails(p)
  BY <1>1, <1>2, <1>5 DEF Steps, GoesOn, RequestFails
<1> QED
  BY <1>3, <1>4, <1>5

LEMMA ColumnSteps ==
    ASSUME BoardInv, NEW p \in Request, CreateColumn(p) \/ ColumnFails(p)
    PROVE  Steps(p)
<1> DEFINE x == [req[p] EXCEPT !.at = "undo"]
<1>1. TypeOK /\ req[p] # Idle /\ UNCHANGED <<row, favorite>>
  BY DEF BoardInv, CreateColumn, ColumnFails, At, Stored
<1>2. CASE CreateColumn(p)
  <2>1. Become(p, Idle) \/ UNCHANGED req
    BY <1>2 DEF CreateColumn, Finish
  <2> QED
    BY <1>1, <2>1, BecomeTypes DEF Steps, GoesOn
<1>3. CASE ColumnFails(p)
  <2>1. Become(p, x)
    BY <1>3 DEF ColumnFails
  <2>2. req[p] \in InProgress
    BY <1>1, RequestTypes
  <2>3. x \in InProgress /\ x.op = req[p].op /\ x.board = req[p].board /\ x.mine = req[p].mine
    BY <2>2 DEF InProgress
  <2> HIDE DEF x
  <2>4. req'[p] = x /\ \A o \in Request \ {p} : req'[o] = req[o]
    BY <1>1, <2>1, <2>3, BecomeTypes
  <2> QED
    BY <1>1, <2>3, <2>4 DEF Steps, GoesOn
<1> QED
  BY <1>2, <1>3

\* What a step may do to the rows, the favorites and the requests.
LEMMA StepKinds ==
    ASSUME BoardInv, [Next]_vars
    PROVE  \/ \E p \in Request : Steps(p)
           \/ UNCHANGED <<row, req>> /\ favorite' \subseteq favorite
  BY StepCases, BeginSteps, CreateSteps, EndSteps, ColumnSteps

-----------------------------------------------------------------------------
\* Who may be in progress together is asked when a request begins.
LEMMA AllowedKept ==
    ASSUME BoardInv, Allowed, [Next]_vars
    PROVE  Allowed'
<1>1. ASSUME NEW p \in Request, Steps(p) PROVE Allowed'
  <2>1. \A o \in Request \ {p} : req'[o] = req[o]
    BY <1>1 DEF Steps
  <2>2. CASE Begins(p)
    <3> SUFFICES ASSUME NEW q \in Request, NEW o \in Request, q # o, req'[q] # Idle, req'[o] # Idle
                 PROVE  {req'[q].op, req'[o].op} \in Together
      BY DEF Allowed
    <3>1. \A w \in Request \ {p} : req'[w] # Idle => {req'[p].op, req'[w].op} \in Together
      BY <2>1, <2>2 DEF Begins, MayBegin
    <3>2. CASE q # p /\ o # p
      BY <2>1, <3>2 DEF Allowed
    <3>3. CASE q = p
      BY <3>1, <3>3
    <3>4. CASE o = p
      <4>1. {req'[q].op, req'[o].op} = {req'[o].op, req'[q].op}
        OBVIOUS
      <4> QED
        BY <3>1, <3>4, <4>1
    <3> QED
      BY <3>2, <3>3, <3>4
  <2>3. CASE ~Begins(p)
    <3>1. req[p] # Idle /\ (req'[p] = Idle \/ req'[p].op = req[p].op)
      BY <1>1, <2>3 DEF Steps, GoesOn, Removes, Inserts, At, UpdateBoard, SetMainBoard,
                        ReorderBoards, AddFavorite
    <3> QED
      BY <2>1, <3>1 DEF Allowed
  <2> QED
    BY <2>2, <2>3
<1>2. CASE UNCHANGED <<row, req>>
  BY <1>2 DEF Allowed
<1> QED
  BY <1>1, <1>2, StepKinds

\* The rows after an update, a choice of the main board and a new order.
LEMMA UpdatedRows ==
    ASSUME BoardInv, NEW p \in Request, UpdateBoard(p)
    PROVE  /\ req[p] # Idle /\ req[p].op = "Update" /\ req[p].board \in Board
           /\ row[req[p].board] = NoRow => row' = row
           /\ row[req[p].board] # NoRow =>
                 /\ row'[req[p].board].main = req[p].mine.main
                 /\ row'[req[p].board].position = req[p].mine.position
                 /\ row'[req[p].board].born = row[req[p].board].born
           /\ \A b \in Board \ {req[p].board} : row'[b] = row[b]
           /\ \A b \in Board : row'[b] = NoRow <=> row[b] = NoRow
           /\ UNCHANGED favorite
<1> DEFINE b == req[p].board
<1>1. TypeOK /\ req[p] # Idle /\ req[p].op = "Update" /\ req[p].at = "write" /\ UNCHANGED favorite
  BY DEF UpdateBoard, At, BoardInv
<1>2. b \in Board /\ req[p].mine \in Row
  BY <1>1, RequestTypes DEF BoardInv, Staged, Stages
<1>3. req[p].mine.position \in Nat /\ req[p].mine.main \in BOOLEAN
  BY <1>2 DEF Row
<1>4. row' = IF row[b] = NoRow THEN row
             ELSE [row EXCEPT ![b].position = req[p].mine.position, ![b].main = req[p].mine.main]
  BY DEF UpdateBoard
<1>5. CASE row[b] = NoRow
  BY <1>1, <1>2, <1>4, <1>5 DEF TypeOK
<1>6. CASE row[b] # NoRow
  <2> DEFINE x == [[row[b] EXCEPT !.position = req[p].mine.position] EXCEPT !.main = req[p].mine.main]
  <2>1. row[b] \in Row
    BY <1>1, <1>2, <1>6 DEF TypeOK
  <2>2. /\ x \in Row /\ x.main = req[p].mine.main /\ x.position = req[p].mine.position
        /\ x.born = row[b].born
    BY <1>3, <2>1 DEF Row
  <2>3. row' = [row EXCEPT ![b] = x]
    BY <1>1, <1>2, <1>4, <1>6 DEF TypeOK
  <2> HIDE DEF x
  <2>4. x # NoRow
    BY <2>2, NothingAssumption
  <2> QED
    BY <1>1, <1>2, <1>6, <2>2, <2>3, <2>4 DEF TypeOK
<1> QED
  BY <1>5, <1>6

LEMMA ChosenRows ==
    ASSUME BoardInv, NEW p \in Request, SetMainBoard(p)
    PROVE  /\ req[p] # Idle /\ req[p].op = "SetMain" /\ req[p].board \in Board
           /\ \A b \in Board : row'[b] = NoRow <=> row[b] = NoRow
           /\ \A b \in Boards : /\ row'[b].main = (b = req[p].board)
                                /\ row'[b].position = row[b].position /\ row'[b].born = row[b].born
           /\ UNCHANGED favorite
<1>1. TypeOK /\ req[p] # Idle /\ req[p].op = "SetMain" /\ req[p].at = "write" /\ UNCHANGED favorite
  BY DEF SetMainBoard, At, BoardInv
<1>2. req[p].board \in Board
  BY <1>1, RequestTypes DEF BoardInv, Staged, Stages
<1>3. row' = [b \in Board |-> IF row[b] = NoRow THEN NoRow
                              ELSE [row[b] EXCEPT !.main = (b = req[p].board)]]
  BY DEF SetMainBoard
<1>4. ASSUME NEW b \in Board, row[b] # NoRow
      PROVE  /\ [row[b] EXCEPT !.main = (b = req[p].board)] \in Row
             /\ [row[b] EXCEPT !.main = (b = req[p].board)].main = (b = req[p].board)
             /\ [row[b] EXCEPT !.main = (b = req[p].board)].position = row[b].position
             /\ [row[b] EXCEPT !.main = (b = req[p].board)].born = row[b].born
  <2>1. row[b] \in Row
    BY <1>1, <1>4 DEF TypeOK
  <2> QED
    BY <2>1 DEF Row
<1>5. \A b \in Board : row'[b] = NoRow <=> row[b] = NoRow
  BY <1>3, <1>4, NothingAssumption
<1>6. \A b \in Boards : /\ row'[b].main = (b = req[p].board)
                        /\ row'[b].position = row[b].position /\ row'[b].born = row[b].born
  BY <1>3, <1>4 DEF Boards
<1> QED
  BY <1>1, <1>2, <1>5, <1>6

LEMMA ReorderedRows ==
    ASSUME BoardInv, NEW p \in Request, ReorderBoards(p)
    PROVE  /\ req[p] # Idle /\ req[p].op = "Reorder"
           /\ \A b \in Board : row'[b] = NoRow <=> row[b] = NoRow
           /\ \A b \in Boards : row'[b].main = row[b].main /\ row'[b].born = row[b].born
           /\ UNCHANGED favorite
<1> DEFINE order == req[p].order
           Placed(b) == \E i \in DOMAIN order : order[i] = b
           place(b) == (CHOOSE i \in DOMAIN order : order[i] = b) - 1
           New(b) == [row[b] EXCEPT !.position = place(b)]
<1>1. TypeOK /\ req[p] # Idle /\ req[p].op = "Reorder" /\ req[p].at = "write" /\ UNCHANGED favorite
  BY DEF ReorderBoards, At, BoardInv
<1>2. row' = [b \in Board |-> IF row[b] # NoRow /\ Placed(b) THEN New(b) ELSE row[b]]
  BY DEF ReorderBoards
<1>3. PICK n \in 0..Cardinality(Board) : order \in [1..n -> Board]
  BY <1>1, RequestTypes
<1> HIDE DEF order
<1>4. ASSUME NEW b \in Board, row[b] # NoRow, Placed(b)
      PROVE  New(b) \in Row /\ New(b).main = row[b].main /\ New(b).born = row[b].born
  <2>1. row[b] \in Row
    BY <1>1, <1>4 DEF TypeOK
  <2>2. (CHOOSE i \in DOMAIN order : order[i] = b) \in 1..n
    BY <1>3, <1>4
  <2>3. place(b) \in Nat
    BY <2>2
  <2> HIDE DEF place
  <2> QED
    BY <2>1, <2>3 DEF Row
<1> HIDE DEF New, Placed
<1>5. \A b \in Board : row'[b] = NoRow <=> row[b] = NoRow
  BY <1>1, <1>2, <1>4, NothingAssumption
<1>6. \A b \in Boards : row'[b].main = row[b].main /\ row'[b].born = row[b].born
  BY <1>2, <1>4 DEF Boards
<1> QED
  BY <1>1, <1>5, <1>6

\* The rows after a deletion.
LEMMA RemovedRows ==
    ASSUME BoardInv, NEW p \in Request, Removes(p)
    PROVE  /\ row'[req[p].board] = NoRow
           /\ \A b \in Board \ {req[p].board} : row'[b] = row[b]
           /\ favorite' = {f \in favorite : f[2] # req[p].board}
  BY DEF Removes, Gone, BoardInv, TypeOK

-----------------------------------------------------------------------------
\* The main board.  What a request knows of it holds until it writes, when it is apart
\* from the operations that change it.
MainApart ==
    /\ {"Update", "SetMain"} \notin Together
    /\ {"SetMain", "Delete"} \notin Together
    /\ {"SetMain", "Create"} \notin Together

LEMMA ApartTwo ==
    ASSUME Allowed, NEW p \in Request, NEW o \in Request, p # o, req[p] # Idle, req[o] # Idle
    PROVE  {req[p].op, req[o].op} \in Together /\ {req[o].op, req[p].op} \in Together
  BY DEF Allowed

\* A step that leaves the boards and which of them is main.
LEMMA MainsKept ==
    ASSUME BoardInv, MainInv, NEW p \in Request,
           \A o \in Request \ {p} : req'[o] = req[o],
           req'[p] # Idle => MainKnown(req'[p], row),
           \A b \in Board : row'[b] = NoRow <=> row[b] = NoRow,
           \A b \in Boards : row'[b].main = row[b].main
    PROVE  MainInv'
<1>1. \A o \in Request : req'[o] # Idle => MainKnown(req'[o], row)
  BY DEF MainInv
<1>2. \A b \in Board : There(row', b) <=> There(row, b)
  BY DEF There
<1>3. \A b : There(row', b) => There(row, b) /\ row'[b].main = row[b].main
  BY DEF There, Boards
<1>4. \A o \in Request : req'[o] # Idle => MainKnown(req'[o], row')
  <2> SUFFICES ASSUME NEW o \in Request, req'[o] # Idle PROVE MainKnown(req'[o], row')
    OBVIOUS
  <2>1. MainKnown(req'[o], row)
    BY <1>1
  <2>2. There(row, req'[o].board) => There(row', req'[o].board)
    BY <1>2 DEF There
  <2> QED
    BY <1>3, <2>1, <2>2 DEF MainKnown
<1>5. Boards' = Boards /\ Chosen'
  BY DEF Boards, Chosen, MainInv
<1> QED
  BY <1>4, <1>5 DEF MainInv

LEMMA MainKept ==
    ASSUME MainApart, BoardInv, Allowed, MainInv, [Next]_vars
    PROVE  MainInv'
<1>1. ASSUME NEW p \in Request, Steps(p) PROVE MainInv'
  <2>0. \A o \in Request \ {p} : req'[o] = req[o]
    BY <1>1 DEF Steps
  <2>1. CASE Begins(p)
    <3>1. MainKnown(req'[p], row)
      BY <2>1, NothingAssumption DEF Begins, MainKnown, There, Boards
    <3> QED
      BY <2>0, <2>1, <3>1, MainsKept DEF Begins
  <2>2. CASE GoesOn(p)
    <3>1. req'[p] # Idle => MainKnown(req'[p], row)
      BY <2>2 DEF GoesOn, MainInv, MainKnown
    <3> QED
      BY <2>0, <2>2, <3>1, MainsKept DEF GoesOn
  <2>3. CASE Removes(p)
    <3> DEFINE b == req[p].board
    <3>1. /\ row'[b] = NoRow /\ \A c \in Board \ {b} : row'[c] = row[c]
          /\ b \in Board /\ req[p] # Idle /\ req'[p] = Idle /\ req[p].op \in {"Delete", "Create"}
      BY <2>3, RemovedRows DEF Removes
    <3>2. There(row, b) => ~row[b].main
      BY <3>1 DEF MainInv, MainKnown
    <3> HIDE DEF b
    <3>3. Boards' = Boards \ {b}
      BY <3>1 DEF Boards
    <3>4. Chosen'
      <4>1. PICK m \in Boards : row[m].main /\ \A c \in Boards : row[c].main => c = m
        BY DEF MainInv, Chosen
      <4>2. m # b
        BY <3>2, <4>1 DEF There, Boards
      <4>3. m \in Boards' /\ row'[m].main /\ \A c \in Boards' : row'[c].main => c = m
        BY <3>1, <3>3, <4>1, <4>2 DEF Boards
      <4> QED
        BY <4>3 DEF Chosen
    <3>5. ASSUME NEW o \in Request, req'[o] # Idle PROVE MainKnown(req'[o], row')
      <4>1. o # p /\ req'[o] = req[o] /\ MainKnown(req[o], row)
        BY <2>0, <3>1, <3>5 DEF MainInv
      <4>2. req[o].op # "SetMain"
        BY <3>1, <3>5, <4>1, ApartTwo DEF MainApart
      <4>3. There(row', req[o].board) => There(row, req[o].board) /\ row'[req[o].board] = row[req[o].board]
        BY <3>1 DEF There
      <4> QED
        BY <4>1, <4>2, <4>3 DEF MainKnown
    <3> QED
      BY <3>4, <3>5 DEF MainInv
  <2>4. CASE Inserts(p)
    <3>1. PICK b \in Board \ used, r \in Row : row' = [row EXCEPT ![b] = r] /\ ~r.main /\ req'[p].board = b
      BY <2>4 DEF Inserts
    <3>2. /\ req[p] # Idle /\ req[p].op = "Create" /\ req'[p] # Idle /\ req'[p].op = "Create"
          /\ row[b] = NoRow /\ TypeOK /\ Staged
      BY <2>4, <3>1 DEF Inserts, At, BoardInv, Fresher
    <3>3. row'[b] = r /\ \A c \in Board \ {b} : row'[c] = row[c]
      BY <3>1, <3>2 DEF TypeOK
    <3>4. Boards' = Boards \cup {b} /\ b \notin Boards
      BY <3>1, <3>2, <3>3, NothingAssumption DEF Boards
    <3>5. Chosen'
      <4>1. PICK m \in Boards : row[m].main /\ \A c \in Boards : row[c].main => c = m
        BY DEF MainInv, Chosen
      <4>2. m \in Boards' /\ row'[m].main /\ \A c \in Boards' : row'[c].main => c = m
        BY <3>1, <3>3, <3>4, <4>1 DEF Boards
      <4> QED
        BY <4>2 DEF Chosen
    <3>6. ASSUME NEW o \in Request, req'[o] # Idle PROVE MainKnown(req'[o], row')
      <4>1. CASE o = p
        <5>1. There(row', req'[p].board) => ~row'[req'[p].board].main
          BY <3>1, <3>3
        <5> QED
          BY <3>2, <4>1, <5>1 DEF MainKnown
      <4>2. CASE o # p
        <5>1. req'[o] = req[o] /\ MainKnown(req[o], row) /\ Stages(req[o], used)
          BY <2>0, <3>2, <3>6, <4>2 DEF MainInv, Staged
        <5>2. req[o].board # b
          BY <3>1, <5>1, NothingAssumption DEF Stages
        <5>3. There(row', req[o].board) <=> There(row, req[o].board)
          BY <3>3, <5>2 DEF There
        <5>4. There(row, req[o].board) => row'[req[o].board] = row[req[o].board]
          BY <3>3, <5>2 DEF There
        <5> QED
          BY <5>1, <5>3, <5>4 DEF MainKnown
      <4> QED
        BY <4>1, <4>2
    <3> QED
      BY <3>5, <3>6 DEF MainInv
  <2>5. CASE UpdateBoard(p) /\ req'[p] = Idle
    <3>1. There(row, req[p].board) => req[p].mine.main = row[req[p].board].main
      BY <2>5, UpdatedRows DEF MainInv, MainKnown
    <3>2. \A b \in Boards : row'[b].main = row[b].main
      BY <2>5, <3>1, UpdatedRows DEF Boards, There
    <3> QED
      BY <2>0, <2>5, <3>2, UpdatedRows, MainsKept
  <2>6. CASE SetMainBoard(p) /\ req'[p] = Idle
    <3>1. /\ \A b \in Board : row'[b] = NoRow <=> row[b] = NoRow
          /\ \A b \in Boards : row'[b].main = (b = req[p].board)
          /\ req[p] # Idle /\ req[p].op = "SetMain"
      BY <2>6, ChosenRows
    <3>2. There(row, req[p].board)
      BY <3>1 DEF MainInv, MainKnown
    <3>3. Boards' = Boards
      BY <3>1 DEF Boards
    <3>4. Chosen'
      BY <3>1, <3>2, <3>3 DEF Chosen, There, Boards
    <3>5. ASSUME NEW o \in Request, req'[o] # Idle PROVE MainKnown(req'[o], row')
      <4>1. o # p /\ req'[o] = req[o] /\ MainKnown(req[o], row)
        BY <2>0, <2>6, <3>5 DEF MainInv
      <4>2. req[o].op \notin {"Update", "Delete", "Create"}
        BY <3>1, <3>5, <4>1, ApartTwo DEF MainApart
      <4> QED
        BY <3>1, <4>1, <4>2 DEF MainKnown, There
    <3> QED
      BY <3>4, <3>5 DEF MainInv
  <2>7. CASE ReorderBoards(p) /\ req'[p] = Idle
    BY <2>0, <2>7, ReorderedRows, MainsKept
  <2>8. CASE AddFavorite(p) /\ req'[p] = Idle
    BY <2>0, <2>8, MainsKept DEF AddFavorite
  <2> QED
    BY <1>1, <2>1, <2>2, <2>3, <2>4, <2>5, <2>6, <2>7, <2>8 DEF Steps
<1>2. CASE UNCHANGED <<row, req>>
  BY <1>2 DEF MainInv, Chosen, Boards
<1> QED
  BY <1>1, <1>2, StepKinds

\* A workspace has one main board, as long as nobody chooses it while a board is
\* updated, deleted or created: each of those writes what it has read before, and a
\* deletion, or the one that undoes a creation, asks only before whether it is the main
\* one.
THEOREM OneMainBoard ==
    ASSUME MainApart
    PROVE  Spec => []OneMain
<1>1. Init => BoardInv /\ Allowed /\ MainInv
  BY InitHolds
<1>2. (BoardInv /\ Allowed /\ MainInv) /\ BoardInv' /\ [Next]_vars => (BoardInv /\ Allowed /\ MainInv)'
  BY AllowedKept, MainKept
<1>3. BoardInv /\ Allowed /\ MainInv => OneMain
  <2> SUFFICES ASSUME MainInv PROVE OneMain
    OBVIOUS
  <2>1. PICK m \in Boards : row[m].main /\ \A b \in Boards : row[b].main => b = m
    BY DEF MainInv, Chosen
  <2>2. {b \in Boards : row[b].main} = {m}
    BY <2>1
  <2> QED
    BY <2>2, FS_Singleton DEF OneMain
<1> QED
  BY <1>1, <1>2, <1>3, BoardInvariant, PTL DEF Spec

-----------------------------------------------------------------------------
\* A favorite is of a board that is there, as long as none is added while a board is
\* deleted or created (a creation may be undone): the board was looked up, and no
\* foreign key asks for it again.
THEOREM FavoritesPoint ==
    ASSUME {"AddFavorite", "Delete"} \notin Together, {"AddFavorite", "Create"} \notin Together
    PROVE  Spec => []NoDanglingFavorite
<1> DEFINE Inv == BoardInv /\ Allowed /\ FavoriteInv
<1>1. Init => Inv
  BY InitHolds
<1>2. Inv /\ BoardInv' /\ [Next]_vars => Inv'
  <2> SUFFICES ASSUME Inv, BoardInv', [Next]_vars PROVE FavoriteInv'
    BY AllowedKept
  <2>1. ASSUME NEW p \in Request, Steps(p) PROVE FavoriteInv'
    <3>0. \A o \in Request \ {p} : req'[o] = req[o]
      BY <2>1 DEF Steps
    <3>1. ASSUME \A b \in Board : row[b] # NoRow => row'[b] # NoRow,
                 \A f \in favorite' : f \in favorite \/ There(row, f[2]),
                 req'[p] # Idle => FavoriteKnown(req'[p], row)
          PROVE  FavoriteInv'
      <4>1. NoDanglingFavorite'
        BY <3>1 DEF NoDanglingFavorite, FavoriteInv, Boards, There
      <4>2. \A o \in Request : req'[o] # Idle => FavoriteKnown(req'[o], row)
        BY <3>0, <3>1 DEF FavoriteInv
      <4>3. \A o \in Request : req'[o] # Idle => FavoriteKnown(req'[o], row')
        BY <3>1, <4>2 DEF FavoriteKnown, There
      <4> QED
        BY <4>1, <4>3 DEF FavoriteInv
    <3>2. CASE Begins(p)
      <4>1. FavoriteKnown(req'[p], row)
        BY <3>2 DEF Begins, FavoriteKnown, There, Boards
      <4> QED
        BY <3>1, <3>2, <4>1 DEF Begins
    <3>3. CASE GoesOn(p)
      <4>1. req'[p] # Idle => FavoriteKnown(req'[p], row)
        BY <3>3 DEF GoesOn, FavoriteInv, FavoriteKnown
      <4> QED
        BY <3>1, <3>3, <4>1 DEF GoesOn
    <3>4. CASE Removes(p)
      <4> DEFINE b == req[p].board
      <4>1. /\ row'[b] = NoRow /\ \A c \in Board \ {b} : row'[c] = row[c]
            /\ favorite' = {f \in favorite : f[2] # b}
            /\ req[p] # Idle /\ req'[p] = Idle /\ req[p].op \in {"Delete", "Create"}
        BY <3>4, RemovedRows DEF Removes
      <4> HIDE DEF b
      <4>2. NoDanglingFavorite'
        BY <4>1 DEF NoDanglingFavorite, FavoriteInv, Boards
      <4>3. ASSUME NEW o \in Request, req'[o] # Idle PROVE FavoriteKnown(req'[o], row')
        <5>1. o # p /\ req'[o] = req[o]
          BY <3>0, <4>1, <4>3
        <5>2. req[o].op # "AddFavorite"
          BY <4>1, <4>3, <5>1, ApartTwo
        <5> QED
          BY <5>1, <5>2 DEF FavoriteKnown
      <4> QED
        BY <4>2, <4>3 DEF FavoriteInv
    <3>5. CASE Inserts(p)
      <4>1. /\ \A b \in Board : row[b] # NoRow => row'[b] # NoRow
            /\ favorite' = favorite /\ req'[p].op = "Create"
        BY <3>5, NothingAssumption DEF Inserts, BoardInv, TypeOK
      <4> QED
        BY <3>1, <4>1 DEF FavoriteKnown
    <3>6. CASE (UpdateBoard(p) \/ SetMainBoard(p) \/ ReorderBoards(p)) /\ req'[p] = Idle
      <4>1. (\A b \in Board : row'[b] = NoRow <=> row[b] = NoRow) /\ favorite' = favorite
        BY <3>6, UpdatedRows, ChosenRows, ReorderedRows
      <4> QED
        BY <3>1, <3>6, <4>1
    <3>7. CASE AddFavorite(p) /\ req'[p] = Idle
      <4>1. /\ req[p] # Idle /\ req[p].op = "AddFavorite" /\ UNCHANGED row
            /\ favorite' = favorite \cup {<<req[p].user, req[p].board>>}
        BY <3>7 DEF AddFavorite, At
      <4>2. There(row, req[p].board)
        BY <4>1 DEF FavoriteInv, FavoriteKnown
      <4> QED
        BY <3>1, <3>7, <4>1, <4>2
    <3> QED
      BY <2>1, <3>2, <3>3, <3>4, <3>5, <3>6, <3>7 DEF Steps
  <2>2. CASE UNCHANGED <<row, req>> /\ favorite' \subseteq favorite
    BY <2>2 DEF FavoriteInv, NoDanglingFavorite, Boards
  <2> QED
    BY <2>1, <2>2, StepKinds
<1>3. Inv => NoDanglingFavorite
  BY DEF FavoriteInv
<1> HIDE DEF Inv
<1> QED
  BY <1>1, <1>2, <1>3, BoardInvariant, PTL DEF Spec

-----------------------------------------------------------------------------
\* Places.  A board that stays keeps its place and its age, unless boards are put in order.
Stays == \A b \in Boards \cap Boards' :
            row'[b].position = row[b].position /\ row'[b].born = row[b].born

LEMMA PlacesStay ==
    ASSUME BoardInv, PlaceInv, NEW p \in Request, Steps(p), ~ReorderBoards(p)
    PROVE  Stays
<1>0. \A b \in Boards \cap Boards' : b \in Board /\ row[b] # NoRow /\ row'[b] # NoRow
  BY DEF Boards
<1>1. CASE Begins(p) \/ GoesOn(p) \/ (AddFavorite(p) /\ req'[p] = Idle)
  BY <1>1 DEF Stays, Begins, GoesOn, AddFavorite
<1>2. CASE Removes(p)
  BY <1>0, <1>2, RemovedRows DEF Stays
<1>3. CASE Inserts(p)
  <2>1. PICK b \in Board \ used, r \in Row : row' = [row EXCEPT ![b] = r]
    BY <1>3 DEF Inserts
  <2>2. row[b] = NoRow /\ TypeOK
    BY <2>1 DEF BoardInv, Fresher
  <2> QED
    BY <1>0, <2>1, <2>2 DEF Stays, TypeOK
<1>4. CASE UpdateBoard(p)
  <2>1. There(row, req[p].board) => req[p].mine.position = row[req[p].board].position
    BY <1>4, UpdatedRows DEF PlaceInv, PlaceKnown
  <2> QED
    BY <1>0, <1>4, <2>1, UpdatedRows DEF Stays, There
<1>5. CASE SetMainBoard(p)
  BY <1>5, ChosenRows DEF Stays
<1> QED
  BY <1>1, <1>2, <1>3, <1>4, <1>5 DEF Steps

LEMMA PlaceKept ==
    ASSUME {"Update", "Reorder"} \notin Together, BoardInv, Allowed, PlaceInv, [Next]_vars
    PROVE  PlaceInv'
<1>1. ASSUME NEW p \in Request, Steps(p) PROVE PlaceInv'
  <2>0. \A o \in Request \ {p} : req'[o] = req[o]
    BY <1>1 DEF Steps
  <2> SUFFICES ASSUME NEW o \in Request, req'[o] # Idle PROVE PlaceKnown(req'[o], row')
    BY DEF PlaceInv
  <2>1. CASE ReorderBoards(p)
    <3>1. req[p] # Idle /\ req[p].op = "Reorder"
      BY <2>1, ReorderedRows
    <3>2. req'[p] = Idle
      BY <2>1, BecomeTypes DEF ReorderBoards, Finish, BoardInv
    <3>3. o # p /\ req'[o] = req[o] /\ req[o].op # "Update"
      BY <2>0, <3>1, <3>2, ApartTwo
    <3> QED
      BY <3>3 DEF PlaceKnown
  <2>2. CASE ~ReorderBoards(p)
    <3>1. Stays
      BY <1>1, <2>2, PlacesStay
    <3> SUFFICES ASSUME req'[o].op = "Update", There(row', req'[o].board)
                 PROVE  req'[o].mine.position = row'[req'[o].board].position
      BY DEF PlaceKnown
    <3>2. CASE o = p
      <4>1. CASE Begins(p)
        BY <3>2, <4>1 DEF Begins
      <4>2. CASE ~Begins(p)
        <5>1. GoesOn(p)
          BY <1>1, <3>2, <4>2 DEF Steps, Removes, Inserts
        <5> QED
          BY <3>2, <5>1 DEF GoesOn, PlaceInv, PlaceKnown
      <4> QED
        BY <4>1, <4>2
    <3>3. CASE o # p
      <4>1. req'[o] = req[o] /\ PlaceKnown(req[o], row) /\ Stages(req[o], used)
        BY <2>0, <3>3 DEF PlaceInv, BoardInv, Staged
      <4>2. row[req[o].board] # NoRow
        <5>1. CASE Inserts(p)
          <6>1. PICK b \in Board \ used, r \in Row : row' = [row EXCEPT ![b] = r]
            BY <5>1 DEF Inserts
          <6>2. req[o].board # b
            BY <4>1, <6>1, NothingAssumption DEF Stages, There
          <6> QED
            BY <4>1, <6>1, <6>2 DEF There, BoardInv, TypeOK
        <5>2. CASE Removes(p)
          BY <4>1, <5>2, RemovedRows DEF There
        <5>3. CASE ~Inserts(p) /\ ~Removes(p)
          <6>1. \A b \in Board : row'[b] = NoRow <=> row[b] = NoRow
            BY <1>1, <2>2, <5>3, UpdatedRows, ChosenRows DEF Steps, Begins, GoesOn, AddFavorite
          <6> QED
            BY <4>1, <6>1 DEF There
        <5> QED
          BY <5>1, <5>2, <5>3
      <4>3. req[o].board \in Boards \cap Boards'
        BY <4>1, <4>2 DEF There, Boards
      <4> QED
        BY <3>1, <4>1, <4>3 DEF Stays, PlaceKnown, There, Boards
    <3> QED
      BY <3>2, <3>3
  <2> QED
    BY <2>1, <2>2
<1>2. CASE UNCHANGED <<row, req>>
  BY <1>2 DEF PlaceInv
<1> QED
  BY <1>1, <1>2, StepKinds

\* Boards change places only when they are put in order, as long as no board is updated
\* meanwhile: the write of an update is of the whole row as read, the place included.
THEOREM PlacesKeptButByOrder ==
    ASSUME {"Update", "Reorder"} \notin Together
    PROVE  Spec => OnlyReorderMoves
<1> DEFINE Inv == BoardInv /\ Allowed /\ PlaceInv
           Moves == \E p \in Request : At(p, "Reorder", "write") /\ req'[p] = Idle
           Same == \A b, c \in Boards \cap Boards' : Before(b, c) = Before(b, c)'
<1>1. Init => Inv
  BY InitHolds
<1>2. Inv /\ BoardInv' /\ [Next]_vars => Inv'
  BY AllowedKept, PlaceKept
<1>3. Inv /\ [Next]_vars => [Moves \/ Same]_vars
  <2> SUFFICES ASSUME Inv, [Next]_vars PROVE Moves \/ Same \/ UNCHANGED vars
    OBVIOUS
  <2>1. ASSUME NEW p \in Request, ReorderBoards(p) PROVE Moves
    <3>1. At(p, "Reorder", "write") /\ req'[p] = Idle
      BY <2>1, BecomeTypes DEF ReorderBoards, Finish, BoardInv
    <3> QED
      BY <3>1
  <2>2. ASSUME Stays PROVE Same
    BY <2>2 DEF Stays, Before
  <2>3. CASE UNCHANGED <<row, req>>
    <3>1. Stays
      BY <2>3 DEF Stays
    <3> QED
      BY <2>2, <3>1
  <2> QED
    BY <2>1, <2>2, <2>3, PlacesStay, StepKinds
<1> QED
  BY <1>1, <1>2, <1>3, BoardInvariant, PTL DEF Spec, OnlyReorderMoves

-----------------------------------------------------------------------------
\* The list of the boards.

\* R, a set of pairs, puts the members of S in an order, one after the other.
InOrder(R, S) ==
    /\ \A a \in S : <<a, a>> \notin R
    /\ \A a, b, c \in S : <<a, b>> \in R /\ <<b, c>> \in R => <<a, c>> \in R
    /\ \A a, b \in S : a # b => <<a, b>> \in R \/ <<b, a>> \in R

Earlier(R, S, b) == {c \in S : <<c, b>> \in R}

\* L lists the members of S in the order R.
Sorted(L, R, S) ==
    /\ L \in [1..Cardinality(S) -> S]
    /\ \A i, j \in 1..Cardinality(S) : i < j => <<L[i], L[j]>> \in R

\* What comes before another member has fewer members before itself.
LEMMA RankLess ==
    ASSUME NEW R, NEW S, IsFiniteSet(S), InOrder(R, S), NEW a \in S, NEW b \in S, <<a, b>> \in R
    PROVE  Cardinality(Earlier(R, S, a)) < Cardinality(Earlier(R, S, b))
<1> DEFINE A == Earlier(R, S, a)
           B == Earlier(R, S, b)
<1>1. A \in SUBSET B /\ a \in B /\ a \notin A /\ B \in SUBSET S
  BY DEF InOrder, Earlier
<1> HIDE DEF A, B
<1>2. IsFiniteSet(B)
  BY <1>1, FS_Subset
<1>3. /\ IsFiniteSet(A) /\ Cardinality(A) <= Cardinality(B)
      /\ Cardinality(B) = Cardinality(A) => B = A
  BY <1>1, <1>2, FS_Subset
<1>4. Cardinality(A) \in Nat /\ Cardinality(B) \in Nat
  BY <1>2, <1>3, FS_CardinalityType
<1>5. Cardinality(A) < Cardinality(B)
  BY <1>1, <1>3, <1>4
<1> QED
  BY <1>5 DEF A, B

\* A member has fewer before it than there are.
LEMMA RankType ==
    ASSUME NEW R, NEW S, IsFiniteSet(S), InOrder(R, S), NEW a \in S
    PROVE  /\ Cardinality(S) \in Nat /\ Cardinality(Earlier(R, S, a)) \in Nat
           /\ Cardinality(Earlier(R, S, a)) + 1 \in 1..Cardinality(S)
<1> DEFINE A == Earlier(R, S, a)
<1>1. A \in SUBSET S /\ a \notin A
  BY DEF InOrder, Earlier
<1> HIDE DEF A
<1>2. /\ IsFiniteSet(A) /\ Cardinality(A) <= Cardinality(S)
      /\ Cardinality(S) = Cardinality(A) => S = A
  BY <1>1, FS_Subset
<1>3. Cardinality(A) \in Nat /\ Cardinality(S) \in Nat
  BY <1>2, FS_CardinalityType
<1>4. Cardinality(A) + 1 \in 1..Cardinality(S)
  BY <1>1, <1>2, <1>3
<1> QED
  BY <1>3, <1>4 DEF A

\* Each place has one member.
LEMMA RankTaken ==
    ASSUME NEW R, NEW S, IsFiniteSet(S), InOrder(R, S), NEW n \in 1..Cardinality(S)
    PROVE  \E b \in S : Cardinality(Earlier(R, S, b)) = n - 1
<1> DEFINE C == 1..Cardinality(S)
           f == [b \in S |-> Cardinality(Earlier(R, S, b)) + 1]
<1>1. Cardinality(S) \in Nat
  BY FS_CardinalityType
<1>2. f \in [S -> C]
  BY RankType
<1>3. \A a, b \in S : f[a] = f[b] => a = b
  <2> SUFFICES ASSUME NEW a \in S, NEW b \in S, a # b PROVE f[a] # f[b]
    OBVIOUS
  <2>1. /\ Cardinality(Earlier(R, S, a)) \in Nat /\ Cardinality(Earlier(R, S, b)) \in Nat
        /\ <<a, b>> \in R \/ <<b, a>> \in R
    BY RankType DEF InOrder
  <2>2. \/ Cardinality(Earlier(R, S, a)) < Cardinality(Earlier(R, S, b))
        \/ Cardinality(Earlier(R, S, b)) < Cardinality(Earlier(R, S, a))
    BY <2>1, RankLess
  <2> QED
    BY <2>1, <2>2
<1>4. f \in Injection(S, C)
  BY <1>2, <1>3 DEF Injection, IsInjective
<1>5. IsFiniteSet(C) /\ Cardinality(C) = Cardinality(S)
  BY <1>1, FS_Interval
<1> HIDE DEF f
<1>6. f \in Surjection(S, C)
  BY <1>4, <1>5, FS_Injection
<1>7. PICK b \in S : f[b] = n
  BY <1>6 DEF Surjection
<1>8. f[b] = Cardinality(Earlier(R, S, b)) + 1 /\ Cardinality(Earlier(R, S, b)) \in Nat
  BY RankType DEF f
<1> QED
  BY <1>1, <1>7, <1>8

\* A list that puts each member at the place it has is sorted.
LEMMA RankedSorted ==
    ASSUME NEW R, NEW S, IsFiniteSet(S), InOrder(R, S), NEW L,
           L \in [1..Cardinality(S) -> S],
           \A n \in 1..Cardinality(S) : Cardinality(Earlier(R, S, L[n])) = n - 1
    PROVE  Sorted(L, R, S)
<1> SUFFICES ASSUME NEW i \in 1..Cardinality(S), NEW j \in 1..Cardinality(S), i < j,
                    <<L[i], L[j]>> \notin R
             PROVE  FALSE
  BY DEF Sorted
<1>1. L[i] \in S /\ L[j] \in S /\ Cardinality(S) \in Nat
  BY FS_CardinalityType
<1>2. Cardinality(Earlier(R, S, L[i])) = i - 1 /\ Cardinality(Earlier(R, S, L[j])) = j - 1
  OBVIOUS
<1>3. L[i] # L[j]
  BY <1>1, <1>2
<1>4. <<L[j], L[i]>> \in R
  BY <1>1, <1>3 DEF InOrder
<1>5. Cardinality(Earlier(R, S, L[j])) < Cardinality(Earlier(R, S, L[i]))
  BY <1>1, <1>4, RankLess
<1> QED
  BY <1>1, <1>2, <1>5

\* In a sorted list every member is there, once, at the place it has.
LEMMA SortedOnce ==
    ASSUME NEW R, NEW S, IsFiniteSet(S), InOrder(R, S), NEW L, Sorted(L, R, S)
    PROVE  /\ \A i, j \in 1..Cardinality(S) : L[i] = L[j] => i = j
           /\ \A b \in S : \E i \in 1..Cardinality(S) : L[i] = b
<1> DEFINE C == 1..Cardinality(S)
<1>1. Cardinality(S) \in Nat /\ L \in [C -> S]
  BY FS_CardinalityType DEF Sorted
<1>2. ASSUME NEW i \in C, NEW j \in C, L[i] = L[j], i # j PROVE FALSE
  <2>1. i < j \/ j < i
    BY <1>1, <1>2
  <2>2. <<L[i], L[j]>> \in R \/ <<L[j], L[i]>> \in R
    BY <2>1 DEF Sorted
  <2> QED
    BY <1>1, <1>2, <2>2 DEF InOrder
<1>3. L \in Injection(C, S)
  BY <1>1, <1>2 DEF Injection, IsInjective
<1>4. IsFiniteSet(C) /\ Cardinality(C) = Cardinality(S)
  BY <1>1, FS_Interval
<1>5. L \in Surjection(C, S)
  BY <1>3, <1>4, FS_Injection
<1> QED
  BY <1>2, <1>5 DEF Surjection

LEMMA SortedRanked ==
    ASSUME NEW R, NEW S, IsFiniteSet(S), InOrder(R, S), NEW L, Sorted(L, R, S),
           NEW n \in 1..Cardinality(S)
    PROVE  Cardinality(Earlier(R, S, L[n])) = n - 1
<1> DEFINE C == 1..Cardinality(S)
           B == 1..(n - 1)
           E == Earlier(R, S, L[n])
           f == [i \in B |-> L[i]]
<1>1. /\ Cardinality(S) \in Nat /\ L \in [C -> S] /\ n \in Nat
      /\ \A i, j \in C : i < j => <<L[i], L[j]>> \in R
  BY FS_CardinalityType DEF Sorted
<1>2. \A i \in B : i \in C /\ i < n
  BY <1>1
<1>3. \A i \in B : f[i] \in E
  BY <1>1, <1>2 DEF Earlier
<1>4. \A i, j \in B : f[i] = f[j] => i = j
  BY <1>2, SortedOnce
<1>5. \A e \in E : \E i \in B : f[i] = e
  <2> TAKE e \in E
  <2>1. e \in S /\ <<e, L[n]>> \in R
    BY DEF Earlier
  <2>2. PICK i \in C : L[i] = e
    BY <2>1, SortedOnce
  <2>3. i # n
    BY <1>1, <2>1, <2>2 DEF InOrder
  <2>4. ~(n < i)
    BY <1>1, <2>1, <2>2 DEF InOrder
  <2>5. i \in B
    BY <1>1, <2>3, <2>4
  <2> QED
    BY <2>2, <2>5
<1>6. f \in Bijection(B, E)
  BY <1>3, <1>4, <1>5 DEF Bijection, Injection, IsInjective, Surjection
<1>7. IsFiniteSet(B) /\ Cardinality(B) = n - 1
  <2>1. PICK k \in Nat : k = n - 1
    BY <1>1
  <2>2. IsFiniteSet(1..k) /\ Cardinality(1..k) = k
    BY FS_Interval
  <2> QED
    BY <2>1, <2>2
<1> HIDE DEF f, E
<1>8. Cardinality(E) = Cardinality(B)
  BY <1>6, <1>7, FS_Bijection DEF ExistsBijection
<1> QED
  BY <1>7, <1>8 DEF E

\* There is one sorted list only.
LEMMA SortedUnique ==
    ASSUME NEW R, NEW S, IsFiniteSet(S), InOrder(R, S), NEW L, NEW M,
           Sorted(L, R, S), Sorted(M, R, S)
    PROVE  L = M
<1>1. L \in [1..Cardinality(S) -> S] /\ M \in [1..Cardinality(S) -> S]
  BY DEF Sorted
<1>2. ASSUME NEW n \in 1..Cardinality(S), L[n] # M[n] PROVE FALSE
  <2>1. L[n] \in S /\ M[n] \in S /\ (<<L[n], M[n]>> \in R \/ <<M[n], L[n]>> \in R)
    BY <1>1, <1>2 DEF InOrder
  <2>2. Cardinality(Earlier(R, S, L[n])) = n - 1 /\ Cardinality(Earlier(R, S, M[n])) = n - 1
    BY SortedRanked
  <2>3. Cardinality(S) \in Nat
    BY FS_CardinalityType
  <2>4. \/ Cardinality(Earlier(R, S, L[n])) < Cardinality(Earlier(R, S, M[n]))
        \/ Cardinality(Earlier(R, S, M[n])) < Cardinality(Earlier(R, S, L[n]))
    BY <2>1, RankLess
  <2> QED
    BY <2>2, <2>3, <2>4
<1>3. \A n \in 1..Cardinality(S) : L[n] = M[n]
  BY <1>2
<1>4. L = [n \in 1..Cardinality(S) |-> L[n]] /\ M = [n \in 1..Cardinality(S) |-> M[n]]
  BY <1>1
<1> QED
  BY <1>3, <1>4
\* A new last member goes to the end.
LEMMA AppendSorted ==
    ASSUME NEW R, NEW S, IsFiniteSet(S), NEW L, Sorted(L, R, S), NEW b, b \notin S, NEW Q,
           \A x, y \in S : <<x, y>> \in R => <<x, y>> \in Q,
           \A x \in S : <<x, b>> \in Q
    PROVE  Sorted(Append(L, b), Q, S \cup {b})
<1> DEFINE n == Cardinality(S)
           M == Append(L, b)
<1>1. n \in Nat /\ Cardinality(S \cup {b}) = n + 1
  BY FS_CardinalityType, FS_AddElement
<1>2. L \in [1..n -> S] /\ \A i, j \in 1..n : i < j => <<L[i], L[j]>> \in R
  BY DEF Sorted
<1> HIDE DEF n
<1>3. L \in Seq(S \cup {b}) /\ Len(L) = n
  BY <1>1, <1>2
<1>4. /\ M \in Seq(S \cup {b}) /\ Len(M) = n + 1
      /\ \A i \in 1..n : M[i] = L[i]
      /\ M[n + 1] = b
  BY <1>3, AppendProperties
<1> HIDE DEF M
<1>5. M \in [1..(n + 1) -> S \cup {b}]
  BY <1>4, LenProperties
<1>6. ASSUME NEW i \in 1..(n + 1), NEW j \in 1..(n + 1), i < j PROVE <<M[i], M[j]>> \in Q
  <2>1. i \in 1..n /\ M[i] = L[i] /\ L[i] \in S
    BY <1>1, <1>2, <1>4, <1>6
  <2>2. CASE j \in 1..n
    <3>1. M[j] = L[j] /\ L[j] \in S /\ <<L[i], L[j]>> \in R
      BY <1>1, <1>2, <1>4, <1>6, <2>1, <2>2
    <3> QED
      BY <2>1, <3>1
  <2>3. CASE j \notin 1..n
    <3>1. M[j] = b
      BY <1>1, <1>4, <2>3
    <3> QED
      BY <2>1, <3>1
  <2> QED
    BY <2>2, <2>3
<1> QED
  BY <1>1, <1>5, <1>6 DEF M, Sorted

\* The others move up.
LEMMA RemoveSorted ==
    ASSUME NEW R, NEW S, IsFiniteSet(S), InOrder(R, S), NEW L, Sorted(L, R, S),
           NEW i \in 1..Cardinality(S), NEW Q,
           \A x, y \in S \ {L[i]} : <<x, y>> \in R => <<x, y>> \in Q
    PROVE  Sorted(List!RemoveAt(L, i), Q, S \ {L[i]})
<1> DEFINE n == Cardinality(S)
           M == List!RemoveAt(L, i)
           From(k) == IF k < i THEN k ELSE k + 1
<1>1. n \in Nat /\ L \in [1..n -> S] /\ \A j, k \in 1..n : j < k => <<L[j], L[k]>> \in R
  BY FS_CardinalityType DEF Sorted
<1>2. n - 1 \in Nat /\ Cardinality(S \ {L[i]}) = n - 1 /\ i \in 1..n
  <2>1. L[i] \in S /\ i \in 1..n
    BY <1>1
  <2>2. Cardinality(S \ {L[i]}) = n - 1
    BY <2>1, FS_RemoveElement
  <2> QED
    BY <1>1, <2>1, <2>2
<1>3. \A j, k \in 1..n : L[j] = L[k] => j = k
  BY SortedOnce
<1> HIDE DEF n
<1>4. M \in Seq(S) /\ Len(M) = n - 1 /\ \A k \in 1..(n - 1) : M[k] = L[From(k)]
  <2> DEFINE A == SubSeq(L, 1, i - 1)
             B == SubSeq(L, i + 1, n)
  <2>1. L \in Seq(S) /\ Len(L) = n
    BY <1>1
  <2>2. A \in Seq(S) /\ Len(A) = i - 1 /\ \A k \in 1..(i - 1) : A[k] = L[k]
    BY <1>1, <1>2, <2>1
  <2>3. B \in Seq(S) /\ Len(B) = n - i /\ \A k \in 1..(n - i) : B[k] = L[k + i]
    BY <1>1, <1>2, <2>1
  <2>4. M = A \o B
    BY <2>1 DEF List!RemoveAt
  <2> HIDE DEF A, B, M
  <2>5. /\ M \in Seq(S) /\ Len(M) = Len(A) + Len(B)
        /\ \A k \in 1..(Len(A) + Len(B)) : M[k] = IF k <= Len(A) THEN A[k] ELSE B[k - Len(A)]
    BY <2>2, <2>3, <2>4, ConcatProperties
  <2>6. Len(A) + Len(B) = n - 1
    BY <1>1, <1>2, <2>2, <2>3
  <2>7. \A k \in 1..(n - 1) : M[k] = IF k <= i - 1 THEN A[k] ELSE B[k - (i - 1)]
    BY <2>2, <2>5, <2>6
  <2>8. ASSUME NEW k \in 1..(n - 1) PROVE M[k] = L[From(k)]
    <3>1. CASE k < i
      BY <1>1, <1>2, <2>2, <2>7, <3>1
    <3>2. CASE ~(k < i)
      <4>1. M[k] = B[k - (i - 1)] /\ k - (i - 1) \in 1..(n - i) /\ k - (i - 1) + i = k + 1
        BY <1>1, <1>2, <2>7, <3>2
      <4> QED
        BY <2>3, <3>2, <4>1
    <3> QED
      BY <3>1, <3>2
  <2> QED
    BY <2>5, <2>6, <2>8
<1> HIDE DEF M
<1>5. \A k \in 1..(n - 1) : From(k) \in 1..n /\ From(k) # i
  BY <1>1, <1>2
<1>6. \A j, k \in 1..(n - 1) : j < k => From(j) < From(k)
  BY <1>1, <1>2
<1> HIDE DEF From
<1>7. \A k \in 1..(n - 1) : M[k] = L[From(k)] /\ L[From(k)] \in S \ {L[i]}
  BY <1>1, <1>2, <1>3, <1>4, <1>5
<1>8. M \in [1..(n - 1) -> S \ {L[i]}]
  <2>1. DOMAIN M = 1..(n - 1) /\ M \in [1..(n - 1) -> S]
    BY <1>4, LenProperties
  <2> QED
    BY <1>7, <2>1
<1>9. \A j, k \in 1..(n - 1) : j < k => <<M[j], M[k]>> \in Q
  BY <1>1, <1>5, <1>6, <1>7
<1> QED
  BY <1>2, <1>8, <1>9 DEF M, Sorted

\* M is L in another order.
Rearranged(L, M) ==
    \E f \in [DOMAIN L -> DOMAIN L] :
       /\ \A i, j \in DOMAIN L : f[i] = f[j] => i = j
       /\ M = [i \in DOMAIN L |-> L[f[i]]]

\* Two lists of the same members are one another in another order.
LEMMA SortedAnew ==
    ASSUME NEW R, NEW Q, NEW S, IsFiniteSet(S), InOrder(R, S), InOrder(Q, S), NEW L, NEW M,
           Sorted(L, R, S), Sorted(M, Q, S)
    PROVE  Rearranged(L, M)
<1> DEFINE C == 1..Cardinality(S)
           f == [i \in C |-> CHOOSE j \in C : L[j] = M[i]]
<1>1. DOMAIN L = C /\ L \in [C -> S] /\ M \in [C -> S]
  BY DEF Sorted
<1>2. \A b \in S : \E j \in C : L[j] = b
  BY SortedOnce
<1>3. \A i \in C : f[i] \in C /\ L[f[i]] = M[i]
  <2> TAKE i \in C
  <2>1. \E j \in C : L[j] = M[i]
    BY <1>1, <1>2
  <2> QED
    BY <2>1
<1>4. f \in [C -> C]
  BY <1>3
<1> HIDE DEF f
<1>5. \A i, j \in C : M[i] = M[j] => i = j
  BY SortedOnce
<1>6. \A i, j \in C : f[i] = f[j] => i = j
  BY <1>3, <1>5
<1>7. M = [i \in C |-> L[f[i]]]
  BY <1>1, <1>3
<1> QED
  BY <1>1, <1>4, <1>6, <1>7 DEF Rearranged

\* Boards have different ages, each less than the next one will have.
AgeInv ==
    /\ \A b \in Boards : row[b].born < Cardinality(used)
    /\ \A b, c \in Boards : row[b].born = row[c].born => b = c

\* One creation at a time has read the last place, and its board will come last.
LastInv ==
    \A p \in Request :
       At(p, "Create", "insert") =>
           /\ \A b \in Boards : row[b].position < req[p].place
           /\ \A o \in Request : At(o, "Create", "insert") => o = p

Precedes == {x \in Boards \X Boards : Before(x[1], x[2])}

LEMMA PrecedesIs == \A b, c \in Boards : <<b, c>> \in Precedes <=> Before(b, c)
  BY DEF Precedes

\* The boards listed are all boards, in their order.
Listing ==
    IsFiniteSet(Boards) /\ InOrder(Precedes, Boards) /\ Sorted(Listed, Precedes, Boards)

LEMMA ListingHolds == TypeOK /\ AgeInv => Listing
<1> SUFFICES ASSUME TypeOK, AgeInv PROVE Listing
  OBVIOUS
<1> DEFINE R == Precedes
           S == Boards
<1>1. IsFiniteSet(S)
  BY BoardAssumption, FS_Subset DEF Boards
<1>2. \A b \in S : row[b].position \in Nat /\ row[b].born \in Nat
  BY RowTypes
<1>3. \A b, c \in S : <<b, c>> \in R <=> Before(b, c)
  BY PrecedesIs
<1>4. \A b, c \in S : row[b].born = row[c].born => b = c
  BY DEF AgeInv
<1> HIDE DEF R, S
<1>5. InOrder(R, S)
  <2>1. \A a \in S : ~Before(a, a)
    BY <1>2 DEF Before
  <2>2. \A a, b, c \in S : Before(a, b) /\ Before(b, c) => Before(a, c)
    BY <1>2 DEF Before
  <2>3. \A a, b \in S : a # b => Before(a, b) \/ Before(b, a)
    BY <1>2, <1>4 DEF Before
  <2> QED
    BY <1>3, <2>1, <2>2, <2>3 DEF InOrder
<1>6. Sorted(Listed, R, S)
  <2> DEFINE C == 1..Cardinality(S)
  <2>1. Listed = [n \in C |-> CHOOSE b \in S : Cardinality({c \in S : Before(c, b)}) = n - 1]
    BY DEF Listed, S
  <2>2. \A b \in S : {c \in S : Before(c, b)} = Earlier(R, S, b)
    BY <1>3 DEF Earlier
  <2>3. ASSUME NEW n \in C PROVE Listed[n] \in S /\ Cardinality(Earlier(R, S, Listed[n])) = n - 1
    <3>1. PICK b \in S : Cardinality(Earlier(R, S, b)) = n - 1
      BY <1>1, <1>5, RankTaken
    <3>2. Cardinality({c \in S : Before(c, b)}) = n - 1
      BY <2>2, <3>1
    <3>3. Listed[n] \in S /\ Cardinality({c \in S : Before(c, Listed[n])}) = n - 1
      BY <2>1, <3>2
    <3> QED
      BY <2>2, <3>3
  <2>4. Listed \in [C -> S]
    BY <2>1, <2>3
  <2> QED
    BY <1>1, <1>5, <2>3, <2>4, RankedSorted
<1> QED
  BY <1>1, <1>5, <1>6 DEF Listing, R, S

-----------------------------------------------------------------------------
LEMMA ListInit == Init => AgeInv /\ LastInv
<1> SUFFICES ASSUME Init PROVE AgeInv /\ LastInv
  OBVIOUS
<1>1. PICK b \in Board :
         /\ row = [c \in Board |-> IF c = b THEN [position |-> 0, main |-> TRUE, born |-> 0]
                                   ELSE NoRow]
         /\ used = {b} /\ req = [p \in Request |-> Idle]
  BY DEF Init
<1>2. Boards \subseteq {b} /\ row[b].born = 0 /\ Cardinality(used) = 1
  BY <1>1, FS_Singleton DEF Boards
<1> QED
  BY <1>1, <1>2 DEF AgeInv, LastInv, At

\* The rows after an insertion.
LEMMA InsertedRows ==
    ASSUME BoardInv, NEW p \in Request, CreateBoard(p)
    PROVE  \E b \in Board \ used :
              /\ row'[b].position = req[p].place /\ row'[b].born = Cardinality(used)
              /\ ~row'[b].main
              /\ \A c \in Board \ {b} : row'[c] = row[c]
              /\ Boards' = Boards \cup {b} /\ b \notin Boards
              /\ Cardinality(used') = Cardinality(used) + 1
<1>1. PICK b \in Board \ used :
         /\ row' = [row EXCEPT ![b] = [position |-> req[p].place, main |-> FALSE,
                                       born |-> Cardinality(used)]]
         /\ used' = used \cup {b}
  BY DEF CreateBoard
<1> DEFINE new == [position |-> req[p].place, main |-> FALSE, born |-> Cardinality(used)]
<1>2. /\ TypeOK /\ req[p] # Idle /\ row[b] = NoRow /\ row' = [row EXCEPT ![b] = new]
  BY <1>1 DEF CreateBoard, At, BoardInv, Fresher
<1>3. IsFiniteSet(used) /\ Cardinality(used) \in Nat
  BY <1>2, BoardAssumption, FS_Subset, FS_CardinalityType DEF TypeOK
<1>4. new \in Row
  BY <1>2, <1>3, RequestTypes DEF Row
<1>5. ~new.main /\ new.born = Cardinality(used) /\ new.position = req[p].place
  OBVIOUS
<1> HIDE DEF new
<1>6. row'[b] = new /\ \A c \in Board \ {b} : row'[c] = row[c]
  BY <1>2 DEF TypeOK
<1>7. Boards' = Boards \cup {b} /\ b \notin Boards
  BY <1>2, <1>4, <1>6, NothingAssumption DEF Boards
<1>8. Cardinality(used') = Cardinality(used) + 1
  BY <1>1, <1>3, FS_AddElement
<1> QED
  BY <1>5, <1>6, <1>7, <1>8

\* All steps but an insertion leave the ids used, add no board, and leave its age.
LEMMA NoneInserted ==
    ASSUME BoardInv, [Next]_vars, \A p \in Request : ~CreateBoard(p)
    PROVE  /\ used' = used /\ Boards' \subseteq Boards
           /\ \A b \in Boards' : row'[b].born = row[b].born
<1>1. \A b \in Boards' : b \in Board /\ row'[b] # NoRow
  BY DEF Boards
<1>2. CASE UNCHANGED <<row, used>>
  BY <1>2 DEF Boards
<1>3. ASSUME NEW p \in Request, UpdateBoard(p) \/ SetMainBoard(p) \/ ReorderBoards(p)
      PROVE  UNCHANGED used /\ Boards' \subseteq Boards /\ \A b \in Boards' : row'[b].born = row[b].born
  <2>1. UNCHANGED used
    BY <1>3 DEF UpdateBoard, SetMainBoard, ReorderBoards
  <2>2. \A b \in Board : row'[b] = NoRow <=> row[b] = NoRow
    BY <1>3, UpdatedRows, ChosenRows, ReorderedRows
  <2>3. Boards' = Boards
    BY <2>2 DEF Boards
  <2>4. \A b \in Boards : row'[b].born = row[b].born
    <3>1. CASE UpdateBoard(p)
      <4>1. \A b \in Boards : b \in Board /\ row[b] # NoRow
        BY DEF Boards
      <4> QED
        BY <3>1, <4>1, UpdatedRows
    <3>2. CASE SetMainBoard(p) \/ ReorderBoards(p)
      BY <3>2, ChosenRows, ReorderedRows
    <3> QED
      BY <1>3, <3>1, <3>2
  <2> QED
    BY <2>1, <2>3, <2>4
<1>4. ASSUME NEW p \in Request, DeleteBoard(p) \/ UndoCreate(p)
      PROVE  UNCHANGED used /\ Boards' \subseteq Boards /\ \A b \in Boards' : row'[b].born = row[b].born
  <2>1. row' = [row EXCEPT ![req[p].board] = NoRow] /\ UNCHANGED used /\ TypeOK
    BY <1>4 DEF DeleteBoard, UndoCreate, Gone, BoardInv
  <2>2. \A b \in Boards' : row'[b] = row[b] /\ b \in Boards
    BY <1>1, <2>1 DEF TypeOK, Boards
  <2> QED
    BY <2>1, <2>2
<1>5. ASSUME NEW p \in Request,
             \/ Find(p) \/ LockWorkspace(p) \/ CreateColumn(p) \/ ColumnFails(p) \/ ListBoards(p)
             \/ AddFavorite(p) \/ (\E u \in User : Add(p, u)) \/ RequestFails(p)
      PROVE  UNCHANGED <<row, used>>
  BY <1>5 DEF Find, LockWorkspace, CreateColumn, ColumnFails, ListBoards, AddFavorite, Add,
              RequestFails, Stored
<1> QED
  BY <1>2, <1>3, <1>4, <1>5, StepCases

LEMMA AgeKept ==
    ASSUME BoardInv, AgeInv, [Next]_vars
    PROVE  AgeInv'
<1>1. ASSUME NEW p \in Request, CreateBoard(p) PROVE AgeInv'
  <2>1. PICK b \in Board \ used :
           /\ row'[b].born = Cardinality(used)
           /\ \A c \in Board \ {b} : row'[c] = row[c]
           /\ Boards' = Boards \cup {b} /\ b \notin Boards
           /\ Cardinality(used') = Cardinality(used) + 1
    BY <1>1, InsertedRows
  <2>2. \A c \in Boards : row'[c] = row[c] /\ row[c].born < Cardinality(used) /\ row[c].born \in Nat
    BY <2>1, RowTypes DEF AgeInv, BoardInv, Boards
  <2>3. Cardinality(used) \in Nat
    BY BoardAssumption, FS_Subset, FS_CardinalityType DEF BoardInv, TypeOK
  <2>4. \A c \in Boards' : row'[c].born < Cardinality(used')
    BY <2>1, <2>2, <2>3
  <2>5. \A c \in Boards : row'[c].born # row'[b].born
    BY <2>1, <2>2, <2>3
  <2>6. \A c, d \in Boards' : row'[c].born = row'[d].born => c = d
    BY <2>1, <2>2, <2>5 DEF AgeInv
  <2> QED
    BY <2>4, <2>6 DEF AgeInv
<1>2. CASE \A p \in Request : ~CreateBoard(p)
  BY <1>2, NoneInserted DEF AgeInv
<1> QED
  BY <1>1, <1>2

-----------------------------------------------------------------------------
\* Who has read the last place did so in this step, or before.
LEMMA LastReader ==
    ASSUME BoardInv, [Next]_vars, NEW o \in Request, At(o, "Create", "insert")'
    PROVE  LockWorkspace(o) \/ (At(o, "Create", "insert") /\ req'[o] = req[o])
<1>0. req'[o] # Idle /\ req'[o].op = "Create" /\ req'[o].at = "insert" /\ TypeOK
  BY DEF At, BoardInv
<1>1. CASE req'[o] = req[o]
  BY <1>0, <1>1 DEF At
<1>2. CASE req'[o] # req[o]
  <2>1. ASSUME NEW p \in Request, Steps(p) PROVE p = o
    BY <1>2, <2>1 DEF Steps
  <2>2. ASSUME Find(o) PROVE FALSE
    <3>1. PICK op \in {"Update", "Delete", "SetMain"}, b \in Boards : Become(o, Fresh(op, "write", b))
      BY <2>2 DEF Find
    <3>2. Fresh(op, "write", b) \in InProgress /\ Fresh(op, "write", b).at = "write"
      BY <1>0, FreshTypes DEF OpNames, Boards
    <3> QED
      BY <1>0, <3>1, <3>2, BecomeTypes
  <2>3. ASSUME NEW u \in User, Add(o, u) PROVE FALSE
    <3>1. PICK b \in Boards : Become(o, [Fresh("AddFavorite", "write", b) EXCEPT !.user = u])
      BY <2>3 DEF Add
    <3> DEFINE f == Fresh("AddFavorite", "write", b)
               x == [f EXCEPT !.user = u]
    <3>2. f \in InProgress /\ f.at = "write"
      BY <1>0, FreshTypes DEF OpNames, Boards
    <3>3. Become(o, x)
      BY <3>1
    <3> HIDE DEF f
    <3>4. x \in InProgress /\ x.at = "write"
      BY <3>2 DEF InProgress
    <3> HIDE DEF x
    <3> QED
      BY <1>0, <3>3, <3>4, BecomeTypes
  <2>4. ASSUME ListBoards(o) PROVE FALSE
    <3>1. Begins(o) /\ req'[o].op = "Create"
      <4>1. Steps(o) /\ req[o] = Idle
        BY <2>4, BeginSteps DEF ListBoards, MayBegin
      <4> QED
        BY <1>0, <4>1 DEF Steps, GoesOn, Removes, Inserts, At, UpdateBoard, SetMainBoard,
                          ReorderBoards, AddFavorite
    <3>2. PICK order : Become(o, [Fresh("Reorder", "write", NoBoard) EXCEPT !.order = order])
      BY <2>4 DEF ListBoards
    <3> DEFINE f == Fresh("Reorder", "write", NoBoard)
               x == [f EXCEPT !.order = order]
    <3>3. x.op = "Reorder"
      BY DEF Fresh
    <3>4. req'[o] = x
      BY <1>0, <3>2 DEF Become, TypeOK
    <3> QED
      BY <1>0, <3>3, <3>4
  <2>5. ASSUME CreateBoard(o) PROVE FALSE
    <3>1. PICK b \in Board \ used : Become(o, [req[o] EXCEPT !.at = "columns", !.board = b, !.place = 0])
      BY <2>5 DEF CreateBoard
    <3> DEFINE x == [[[req[o] EXCEPT !.at = "columns"] EXCEPT !.board = b] EXCEPT !.place = 0]
    <3>2. req[o] \in InProgress /\ Become(o, x)
      BY <1>0, <2>5, <3>1, RequestTypes DEF CreateBoard, At
    <3>3. x \in InProgress /\ x.at = "columns"
      BY <3>2 DEF InProgress
    <3> HIDE DEF x
    <3> QED
      BY <1>0, <3>2, <3>3, BecomeTypes
  <2>6. ASSUME ColumnFails(o) PROVE FALSE
    <3> DEFINE x == [req[o] EXCEPT !.at = "undo"]
    <3>1. req[o] \in InProgress /\ Become(o, x)
      BY <1>0, <2>6, RequestTypes DEF ColumnFails, At
    <3>2. x \in InProgress /\ x.at = "undo"
      BY <3>1 DEF InProgress
    <3> HIDE DEF x
    <3> QED
      BY <1>0, <3>1, <3>2, BecomeTypes
  <2>7. ASSUME \/ UpdateBoard(o) \/ DeleteBoard(o) \/ SetMainBoard(o) \/ CreateColumn(o)
               \/ UndoCreate(o) \/ ReorderBoards(o) \/ AddFavorite(o) \/ RequestFails(o)
        PROVE  FALSE
    <3>1. Become(o, Idle) \/ UNCHANGED req
      BY <2>7 DEF UpdateBoard, DeleteBoard, SetMainBoard, CreateColumn, UndoCreate, ReorderBoards,
                  AddFavorite, RequestFails, Finish
    <3> QED
      BY <1>0, <1>2, <3>1, BecomeTypes
  <2>8. \/ \E p \in Request :
              /\ Steps(p)
              /\ \/ Find(p) \/ UpdateBoard(p) \/ DeleteBoard(p) \/ SetMainBoard(p)
                 \/ LockWorkspace(p) \/ CreateBoard(p) \/ CreateColumn(p) \/ ColumnFails(p)
                 \/ UndoCreate(p)
                 \/ ListBoards(p) \/ ReorderBoards(p)
                 \/ AddFavorite(p) \/ (\E u \in User : Add(p, u))
                 \/ RequestFails(p)
        \/ UNCHANGED req
    BY StepCases, BeginSteps, CreateSteps, EndSteps, ColumnSteps
  <2> QED
    BY <1>2, <2>1, <2>2, <2>3, <2>4, <2>5, <2>6, <2>7, <2>8
<1> QED
  BY <1>1, <1>2

\* The last place stays the last one until the board is inserted, as long as nobody puts
\* boards in order meanwhile.
LEMMA LastKept ==
    ASSUME {"Create", "Reorder"} \notin Together,
           BoardInv, BoardInv', Allowed, PlaceInv, LastInv, [Next]_vars
    PROVE  LastInv'
<1> SUFFICES ASSUME NEW o \in Request, At(o, "Create", "insert")'
             PROVE  /\ \A b \in Boards' : row'[b].position < req'[o].place
                    /\ \A q \in Request : At(q, "Create", "insert")' => q = o
  BY DEF LastInv
<1>0. TypeOK /\ TypeOK'
  BY DEF BoardInv
<1>1. CASE LockWorkspace(o)
  <2> DEFINE f == Fresh("Create", "insert", NoBoard)
             x == [f EXCEPT !.place = NextPosition]
  <2>1. Become(o, x) /\ UNCHANGED row /\ \A q \in Request : ~At(q, "Create", "insert")
    BY <1>1 DEF LockWorkspace, Stored
  <2>2. f \in InProgress /\ NextPosition \in Nat
    BY <1>0, FreshTypes, NextPositionType DEF OpNames
  <2> HIDE DEF f
  <2>3. x \in InProgress /\ x.place = NextPosition
    BY <2>2 DEF InProgress
  <2> HIDE DEF x
  <2>4. req'[o].place = NextPosition /\ \A q \in Request \ {o} : req'[q] = req[q]
    BY <1>0, <2>1, <2>3, BecomeTypes
  <2>5. \A b \in Boards' : b \in Boards /\ row'[b] = row[b]
    BY <2>1 DEF Boards
  <2>6. \A q \in Request : At(q, "Create", "insert")' => q = o
    BY <2>1, <2>4 DEF At
  <2> QED
    BY <1>0, <2>4, <2>5, <2>6, NextPositionType
<1>2. CASE At(o, "Create", "insert") /\ req'[o] = req[o]
  <2>1. /\ \A b \in Boards : row[b].position < req[o].place
        /\ \A q \in Request : At(q, "Create", "insert") => q = o
    BY <1>2 DEF LastInv
  <2>2. ASSUME NEW q \in Request, At(q, "Create", "insert")' PROVE q = o
    <3>1. ~LockWorkspace(q)
      BY <1>2 DEF LockWorkspace
    <3> QED
      BY <2>1, <2>2, <3>1, LastReader
  <2>3. ASSUME NEW p \in Request, Steps(p) PROVE \A b \in Boards' : row'[b].position < req'[o].place
    <3>1. ~ReorderBoards(p)
      <4> SUFFICES ASSUME ReorderBoards(p) PROVE FALSE
        OBVIOUS
      <4>1. req[p] # Idle /\ req[p].op = "Reorder" /\ req[o] # Idle /\ req[o].op = "Create"
        BY <1>2, ReorderedRows DEF At
      <4>2. p # o
        BY <4>1
      <4> QED
        BY <4>1, <4>2, ApartTwo
    <3>2. ~Inserts(p)
      <4> SUFFICES ASSUME Inserts(p) PROVE FALSE
        OBVIOUS
      <4>1. p = o
        BY <2>1 DEF Inserts
      <4>2. req'[o].board # NoBoard
        BY <4>1, NothingAssumption DEF Inserts
      <4>3. req[o].board = NoBoard
        BY <1>2 DEF BoardInv, Staged, Stages, At
      <4> QED
        BY <1>2, <4>2, <4>3
    <3>3. Stays
      BY <2>3, <3>1, PlacesStay
    <3>4. Boards' \subseteq Boards
      <4>1. CASE Begins(p) \/ GoesOn(p) \/ AddFavorite(p)
        BY <4>1 DEF Begins, GoesOn, AddFavorite, Boards
      <4>2. CASE Removes(p)
        BY <4>2, RemovedRows DEF Boards
      <4>3. CASE UpdateBoard(p) \/ SetMainBoard(p)
        BY <4>3, UpdatedRows, ChosenRows DEF Boards
      <4> QED
        BY <2>3, <3>1, <3>2, <4>1, <4>2, <4>3 DEF Steps
    <3> QED
      BY <1>2, <2>1, <3>3, <3>4 DEF Stays
  <2>4. ASSUME UNCHANGED <<row, req>> PROVE \A b \in Boards' : row'[b].position < req'[o].place
    BY <2>1, <2>4 DEF Boards
  <2>5. \A b \in Boards' : row'[b].position < req'[o].place
    BY <2>3, <2>4, StepKinds
  <2> QED
    BY <2>2, <2>5
<1> QED
  BY <1>1, <1>2, LastReader

-----------------------------------------------------------------------------
\* What the list shows and which board is the main one.
MainThere == Main \in Boards /\ row[Main].main /\ \A b \in Boards : row[b].main => b = Main

LEMMA MainHolds == Chosen => MainThere
<1> SUFFICES ASSUME Chosen PROVE MainThere
  OBVIOUS
<1>1. PICK m \in Boards : row[m].main /\ \A b \in Boards : row[b].main => b = m
  BY DEF Chosen
<1>2. Main = CHOOSE b \in Boards : row[b].main
  BY <1>1 DEF Main
<1>3. Main \in Boards /\ row[Main].main
  BY <1>1, <1>2
<1> QED
  BY <1>1, <1>3 DEF MainThere

ListInv == BoardInv /\ Allowed /\ MainInv /\ PlaceInv /\ AgeInv /\ LastInv

Shown == Listing /\ MainThere

LEMMA ShownHolds == ListInv => Shown
  BY ListingHolds, MainHolds DEF ListInv, Shown, BoardInv, MainInv

LEMMA ListShows ==
    ASSUME Shown
    PROVE  List!Boards = Boards
<1>1. DOMAIN Listed = 1..Cardinality(Boards) /\ Listed \in [1..Cardinality(Boards) -> Boards]
  BY DEF Shown, Listing, Sorted
<1>2. \A b \in Boards : \E i \in 1..Cardinality(Boards) : Listed[i] = b
  BY SortedOnce DEF Shown, Listing
<1> QED
  BY <1>1, <1>2 DEF List!Boards

LEMMA ListStarts == Init => List!Init
<1> SUFFICES ASSUME Init PROVE List!Init
  OBVIOUS
<1>1. PICK b \in Board :
         row = [c \in Board |-> IF c = b THEN [position |-> 0, main |-> TRUE, born |-> 0] ELSE NoRow]
  BY DEF Init
<1>2. Shown
  BY InitHolds, ListInit, ListingHolds, MainHolds DEF Shown, BoardInv, MainInv
<1>3. Boards \subseteq {b} /\ Main \in Boards
  BY <1>1, <1>2 DEF Boards, Shown, MainThere
<1>4. Boards = {b} /\ Main = b
  BY <1>3
<1>5. Cardinality(Boards) = 1
  BY <1>4, FS_Singleton
<1>6. Listed \in [1..1 -> {b}]
  BY <1>2, <1>4, <1>5 DEF Shown, Listing, Sorted
<1>7. Listed = <<b>>
  BY <1>6
<1> QED
  BY <1>4, <1>7 DEF List!Init

\* The list stays when the boards and their places do.
LEMMA ListStays ==
    ASSUME Shown, Shown', Boards' = Boards, Stays
    PROVE  Listed' = Listed
<1>1. Precedes' = Precedes
  <2>1. \A b, c \in Boards : Before(b, c)' <=> Before(b, c)
    BY DEF Stays, Before
  <2> QED
    BY <2>1 DEF Precedes
<1> QED
  BY <1>1, SortedUnique DEF Shown, Listing

LEMMA MainStays ==
    ASSUME Shown, Shown', Main \in Boards', row'[Main].main = row[Main].main
    PROVE  Main' = Main
  BY DEF Shown, MainThere

LEMMA CreateAdds ==
    ASSUME Shown, Shown', BoardInv, LastInv, NEW p \in Request, CreateBoard(p)
    PROVE  List!Next
<1>1. PICK b \in Board \ used :
         /\ row'[b].position = req[p].place /\ row'[b].born = Cardinality(used)
         /\ ~row'[b].main
         /\ \A c \in Board \ {b} : row'[c] = row[c]
         /\ Boards' = Boards \cup {b} /\ b \notin Boards
  BY InsertedRows
<1>2. \A c \in Boards : row'[c] = row[c] /\ row[c].position < req[p].place
  BY <1>1 DEF CreateBoard, LastInv, Boards
<1>3. \A x, y \in Boards : <<x, y>> \in Precedes => <<x, y>> \in Precedes'
  BY <1>1, <1>2 DEF Precedes, Before
<1>4. \A x \in Boards : <<x, b>> \in Precedes'
  BY <1>1, <1>2 DEF Precedes, Before
<1>5. Sorted(Append(Listed, b), Precedes', Boards')
  BY <1>1, <1>3, <1>4, AppendSorted DEF Shown, Listing
<1>6. Listed' = Append(Listed, b)
  BY <1>5, SortedUnique DEF Shown, Listing
<1>7. Main' = Main
  BY <1>1, <1>2, MainStays DEF Shown, MainThere
<1>8. List!Add(b)
  BY <1>1, <1>6, <1>7, ListShows DEF List!Add
<1> QED
  BY <1>8 DEF List!Next

LEMMA DeleteDrops ==
    ASSUME Shown, Shown', BoardInv, MainInv, NEW p \in Request, Removes(p)
    PROVE  List!Next \/ UNCHANGED <<Listed, Main>>
<1> DEFINE b == req[p].board
<1>1. /\ b \in Board /\ row'[b] = NoRow /\ \A c \in Board \ {b} : row'[c] = row[c]
      /\ There(row, b) => ~row[b].main
  BY RemovedRows DEF Removes, MainInv, MainKnown
<1> HIDE DEF b
<1>2. Boards' = Boards \ {b} /\ \A c \in Boards' : c \in Boards /\ row'[c] = row[c]
  BY <1>1 DEF Boards
<1>3. Main # b
  BY <1>1 DEF Shown, MainThere, There, Boards
<1>4. Main' = Main
  BY <1>2, <1>3, MainStays DEF Shown, MainThere
<1>5. CASE b \in Boards
  <2>1. PICK i \in 1..Cardinality(Boards) : Listed[i] = b
    BY <1>5, SortedOnce DEF Shown, Listing
  <2>2. \A x, y \in Boards \ {Listed[i]} : <<x, y>> \in Precedes => <<x, y>> \in Precedes'
    BY <1>2, <2>1 DEF Precedes, Before
  <2>3. Sorted(List!RemoveAt(Listed, i), Precedes', Boards \ {Listed[i]})
    BY <2>2, RemoveSorted DEF Shown, Listing
  <2>4. Listed' = List!RemoveAt(Listed, i)
    BY <1>2, <2>1, <2>3, SortedUnique DEF Shown, Listing
  <2>5. i \in DOMAIN Listed
    BY DEF Shown, Listing, Sorted
  <2>6. List!Drop(b)
    BY <1>3, <1>4, <2>1, <2>4, <2>5 DEF List!Drop
  <2> QED
    BY <1>1, <2>6 DEF List!Next
<1>6. CASE b \notin Boards
  <2>1. Boards' = Boards /\ Stays
    BY <1>2, <1>6 DEF Stays
  <2> QED
    BY <1>4, <2>1, ListStays
<1> QED
  BY <1>5, <1>6

LEMMA OrderArranges ==
    ASSUME Shown, Shown', BoardInv, NEW p \in Request, ReorderBoards(p)
    PROVE  List!Next
<1>1. /\ \A b \in Board : row'[b] = NoRow <=> row[b] = NoRow
      /\ \A b \in Boards : row'[b].main = row[b].main
  BY ReorderedRows
<1>2. Boards' = Boards
  BY <1>1 DEF Boards
<1>3. Main' = Main
  BY <1>1, <1>2, MainStays DEF Shown, MainThere
<1>4. Rearranged(Listed, Listed')
  <2>1. IsFiniteSet(Boards) /\ InOrder(Precedes, Boards) /\ Sorted(Listed, Precedes, Boards)
    BY DEF Shown, Listing
  <2>2. InOrder(Precedes', Boards) /\ Sorted(Listed', Precedes', Boards)
    BY <1>2 DEF Shown, Listing
  <2> QED
    BY <2>1, <2>2, SortedAnew
<1>5. List!Arrange
  BY <1>3, <1>4 DEF List!Arrange, Rearranged
<1> QED
  BY <1>5 DEF List!Next

LEMMA ChoiceMakesMain ==
    ASSUME Shown, Shown', BoardInv, MainInv, NEW p \in Request, SetMainBoard(p)
    PROVE  List!Next
<1> DEFINE b == req[p].board
<1>1. /\ req[p] # Idle /\ req[p].op = "SetMain" /\ b \in Board
      /\ \A c \in Board : row'[c] = NoRow <=> row[c] = NoRow
      /\ \A c \in Boards : /\ row'[c].main = (c = b)
                           /\ row'[c].position = row[c].position /\ row'[c].born = row[c].born
  BY ChosenRows
<1>2. b \in Boards
  BY <1>1 DEF MainInv, MainKnown, There, Boards
<1> HIDE DEF b
<1>3. Boards' = Boards /\ Stays
  BY <1>1 DEF Boards, Stays
<1>4. Main' = b
  BY <1>1, <1>2, <1>3 DEF Shown, MainThere
<1>5. List!MakeMain(b)
  BY <1>2, <1>3, <1>4, ListShows, ListStays DEF List!MakeMain
<1> QED
  BY <1>1, <1>5 DEF List!Next

LEMMA UpdateStutters ==
    ASSUME Shown, Shown', BoardInv, MainInv, PlaceInv, NEW p \in Request, UpdateBoard(p)
    PROVE  UNCHANGED <<Listed, Main>>
<1> DEFINE b == req[p].board
<1>1. /\ req[p] # Idle /\ req[p].op = "Update" /\ b \in Board
      /\ row[b] # NoRow => /\ row'[b].main = req[p].mine.main
                           /\ row'[b].position = req[p].mine.position
                           /\ row'[b].born = row[b].born
      /\ \A c \in Board \ {b} : row'[c] = row[c]
      /\ \A c \in Board : row'[c] = NoRow <=> row[c] = NoRow
  BY UpdatedRows
<1>2. There(row, b) => req[p].mine.main = row[b].main /\ req[p].mine.position = row[b].position
  BY <1>1 DEF MainInv, MainKnown, PlaceInv, PlaceKnown
<1> HIDE DEF b
<1>3. Boards' = Boards
  BY <1>1 DEF Boards
<1>4. \A c \in Boards : /\ row'[c].main = row[c].main
                        /\ row'[c].position = row[c].position /\ row'[c].born = row[c].born
  BY <1>1, <1>2 DEF There, Boards
<1>5. Stays
  BY <1>4 DEF Stays
<1>6. Main' = Main
  BY <1>3, <1>4, MainStays DEF Shown, MainThere
<1> QED
  BY <1>3, <1>5, <1>6, ListStays

\* Each step of the boards is a step of the list, or leaves it.
LEMMA StepImplements ==
    ASSUME ListInv, ListInv', [Next]_vars
    PROVE  List!Next \/ UNCHANGED <<Listed, Main>>
<1>1. BoardInv /\ MainInv /\ PlaceInv /\ LastInv
  BY DEF ListInv
<1>2. Shown
  BY ShownHolds
<1>3. Shown'
  BY ShownHolds, PTL
<1>4. ASSUME NEW p \in Request, CreateBoard(p) \/ ReorderBoards(p) \/ SetMainBoard(p) PROVE List!Next
  BY <1>1, <1>2, <1>3, <1>4, CreateAdds, OrderArranges, ChoiceMakesMain
<1>5. ASSUME NEW p \in Request, UpdateBoard(p) PROVE UNCHANGED <<Listed, Main>>
  BY <1>1, <1>2, <1>3, <1>5, UpdateStutters
<1>6. ASSUME NEW p \in Request, DeleteBoard(p) \/ UndoCreate(p)
      PROVE  List!Next \/ UNCHANGED <<Listed, Main>>
  <2>1. TypeOK /\ Staged
    BY <1>1 DEF BoardInv
  <2>2. /\ req[p] # Idle /\ req[p].op \in {"Delete", "Create"} /\ req[p].at \in {"write", "undo"}
        /\ Gone(req[p].board) /\ Finish(p)
    BY <1>6 DEF DeleteBoard, UndoCreate, At
  <2>3. req[p].board \in Board /\ req'[p] = Idle
    BY <2>1, <2>2, RequestTypes, BecomeTypes DEF Staged, Stages, Finish
  <2>4. Removes(p)
    BY <2>2, <2>3 DEF Removes
  <2> QED
    BY <1>1, <1>2, <1>3, <2>4, DeleteDrops
<1>7. ASSUME UNCHANGED row PROVE UNCHANGED <<Listed, Main>>
  <2>1. Boards' = Boards /\ Stays
    BY <1>7 DEF Boards, Stays
  <2>2. Main' = Main
    BY <1>2, <1>3, <1>7, <2>1, MainStays DEF Shown, MainThere
  <2> QED
    BY <1>2, <1>3, <2>1, <2>2, ListStays
<1>8. ASSUME NEW p \in Request,
             \/ Find(p) \/ LockWorkspace(p) \/ CreateColumn(p) \/ ColumnFails(p) \/ ListBoards(p)
             \/ AddFavorite(p) \/ (\E u \in User : Add(p, u)) \/ RequestFails(p)
      PROVE  UNCHANGED row
  BY <1>8 DEF Find, LockWorkspace, CreateColumn, ColumnFails, ListBoards, AddFavorite, Add,
              RequestFails, Stored
<1> QED
  BY <1>4, <1>5, <1>6, <1>7, <1>8, StepCases

\* Users see a list of boards that grows at its end, that is put in another order as a
\* whole, and of which one is the main one: every behaviour of the boards is one of
\* BoardList, for any ids, requests and failures, as long as nobody updates a board or
\* chooses the main one, deletes or creates it, or puts boards in order, beside what would
\* write over that.
THEOREM BoardsKeepTheList ==
    ASSUME MainApart, {"Update", "Reorder"} \notin Together, {"Create", "Reorder"} \notin Together
    PROVE  Spec => ListKept
<1>1. Init => ListInv
  BY InitHolds, ListInit DEF ListInv
<1>2. ListInv /\ BoardInv' /\ [Next]_vars => ListInv'
  BY AllowedKept, MainKept, PlaceKept, AgeKept, LastKept DEF ListInv
<1>3. ListInv /\ ListInv' /\ [Next]_vars => [List!Next]_(List!vars)
  BY StepImplements DEF List!vars
<1> QED
  BY <1>1, <1>2, <1>3, BoardInvariant, ListStarts, PTL DEF Spec, ListKept, List!Spec
=============================================================================
