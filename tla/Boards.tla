------------------------------- MODULE Boards -------------------------------
(***************************************************************************)
(* The boards of a workspace: their order, the main one, their columns and *)
(* the favorites that point at them.                                       *)
(*                                                                         *)
(* The handlers read a board first and write in a later statement; the     *)
(* write of an update is of the whole row as read.  Each statement, and    *)
(* each transaction that locks what it writes, is one step.  A board is    *)
(* there for everybody before its columns are.                             *)
(***************************************************************************)
EXTENDS Naturals, FiniteSets, FiniteSetsExt

CONSTANTS
    Board,       \* board ids (never reused: uuid.New)
    User,
    ColumnCount, \* the number of columns a board starts with
    Request,     \* the HTTP requests in progress at one time
    Idle,        \* a request slot that serves nobody
    NoRow,
    NoBoard,
    Together     \* the sets of operations that may be in progress at one time

OpNames == {"Create", "Update", "Delete", "SetMain", "Reorder", "AddFavorite"}

Row == [position: Nat, main: BOOLEAN, born: Nat]

\* A request in progress: mine is the row as read, order the new order asked for.
InProgress == [op: OpNames, at: {"insert", "columns", "undo", "write"},
               board: Board \cup {NoBoard}, mine: Row \cup {NoRow}, place: Nat,
               order: UNION {[1..n -> Board] : n \in 0..Cardinality(Board)}, user: User]

ASSUME CountAssumption == ColumnCount \in Nat \ {0}
\* There are finitely many ids, and a workspace has a member at least, who owns it.
ASSUME BoardAssumption == IsFiniteSet(Board) /\ User # {}
ASSUME NothingAssumption == NoRow \notin Row /\ NoBoard \notin Board /\ Idle \notin InProgress

VARIABLES
    row,     \* row[b]: the row of the board, or NoRow
    columns, \* columns[b]: how many columns it has
    used,    \* the ids used so far
    favorite,\* the favorites, pairs of a user and a board
    req,     \* req[p]: the request in progress, or Idle
    left     \* the boards whose creation stopped half way

vars == <<row, columns, used, favorite, req, left>>

\* Every variable stays in its type.
TypeOK ==
    /\ row \in [Board -> Row \cup {NoRow}]
    /\ columns \in [Board -> 0..ColumnCount]
    /\ used \subseteq Board
    /\ favorite \subseteq User \X Board
    /\ req \in [Request -> InProgress \cup {Idle}]
    /\ left \subseteq Board

\* A workspace starts with its main board (createMainBoard).
Init ==
    \E b \in Board :
       /\ row = [c \in Board |-> IF c = b THEN [position |-> 0, main |-> TRUE, born |-> 0]
                                 ELSE NoRow]
       /\ columns = [c \in Board |-> IF c = b THEN ColumnCount ELSE 0]
       /\ used = {b}
       /\ favorite = {}
       /\ req = [p \in Request |-> Idle]
       /\ left = {}

Boards == {b \in Board : row[b] # NoRow}

-----------------------------------------------------------------------------
\* Requests.

Become(p, r) == req' = [req EXCEPT ![p] = r]
Finish(p) == Become(p, Idle)
At(p, op, stage) == req[p] # Idle /\ req[p].op = op /\ req[p].at = stage

MayBegin(p, op) ==
    /\ req[p] = Idle
    /\ \A o \in Request : req[o] # Idle => {op, req[o].op} \in Together

Fresh(op, stage, b) ==
    [op |-> op, at |-> stage, board |-> b, mine |-> IF op = "Update" THEN row[b] ELSE NoRow,
     place |-> 0, order |-> <<>>, user |-> CHOOSE u \in User : TRUE]

Stored == <<row, columns, used, favorite, left>>

\* BoardInWorkspace, before an update, a deletion or a choice of the main board:
\* the main board is not deleted.
Find(p) ==
    /\ \E op \in {"Update", "Delete", "SetMain"}, b \in Boards :
          /\ MayBegin(p, op)
          /\ op = "Delete" => ~row[b].main
          /\ Become(p, Fresh(op, "write", b))
    /\ UNCHANGED Stored

-----------------------------------------------------------------------------
\* Create: the row of the workspace is locked and the last place read ...

\* A bug: the place is not set.
FirstPosition == 0

NextPosition == IF Boards = {} THEN 0 ELSE Max({row[b].position : b \in Boards}) + 1

LockWorkspace(p) ==
    /\ MayBegin(p, "Create")
    /\ \A o \in Request : ~At(o, "Create", "insert")
    /\ Become(p, [Fresh("Create", "insert", NoBoard) EXCEPT !.place = NextPosition])
    /\ UNCHANGED Stored

\* ... the board is inserted ...
CreateBoard(p) ==
    /\ At(p, "Create", "insert")
    /\ \E b \in Board \ used :
          /\ row' = [row EXCEPT ![b] = [position |-> req[p].place, main |-> FALSE,
                                        born |-> Cardinality(used)]]
          /\ used' = used \cup {b}
          /\ Become(p, [req[p] EXCEPT !.at = "columns", !.board = b, !.place = 0])
    /\ UNCHANGED <<columns, favorite, left>>

\* A bug: a column too many.
CreateOneMore(p) ==
    /\ At(p, "Create", "columns")
    /\ LET b == req[p].board IN
       IF row[b] = NoRow
       THEN Finish(p) /\ UNCHANGED columns
       ELSE /\ columns' = [columns EXCEPT ![b] = @ + 1]
            /\ IF columns[b] = ColumnCount THEN Finish(p) ELSE UNCHANGED req
    /\ UNCHANGED <<row, used, favorite, left>>

\* ... and its columns, one by one, while the board is there (the foreign key) ...
CreateColumn(p) ==
    /\ At(p, "Create", "columns")
    /\ LET b == req[p].board IN
       IF row[b] = NoRow
       THEN Finish(p) /\ UNCHANGED columns
       ELSE /\ columns' = [columns EXCEPT ![b] = @ + 1]
            /\ IF columns[b] + 1 = ColumnCount THEN Finish(p) ELSE UNCHANGED req
    /\ UNCHANGED <<row, used, favorite, left>>

\* ... and when one fails, the board is deleted again.
ColumnFails(p) ==
    /\ At(p, "Create", "columns")
    /\ Become(p, [req[p] EXCEPT !.at = "undo"])
    /\ UNCHANGED Stored

\* A bug: the favorites stay.
GoneOnly(b) ==
    /\ row' = [row EXCEPT ![b] = NoRow]
    /\ columns' = [columns EXCEPT ![b] = 0]
    /\ left' = left \ {b}
    /\ UNCHANGED favorite

\* DeleteBoard: the columns, the favorites of all users and the board.
Gone(b) ==
    /\ row' = [row EXCEPT ![b] = NoRow]
    /\ columns' = [columns EXCEPT ![b] = 0]
    /\ favorite' = {f \in favorite : f[2] # b}
    /\ left' = left \ {b}

\* A bug: the board stays.
ColumnIgnored(p) ==
    /\ At(p, "Create", "undo")
    /\ Finish(p)
    /\ UNCHANGED Stored

UndoCreate(p) ==
    /\ At(p, "Create", "undo")
    /\ Gone(req[p].board)
    /\ Finish(p)
    /\ UNCHANGED used

-----------------------------------------------------------------------------
\* The writes of a board that was read.

\* A bug: the row is made from the request alone.
UpdateFresh(p) ==
    /\ At(p, "Update", "write")
    /\ LET b == req[p].board IN
       row' = IF row[b] = NoRow THEN row
              ELSE [row EXCEPT ![b].position = 0, ![b].main = req[p].mine.main]
    /\ Finish(p)
    /\ UNCHANGED <<columns, used, favorite, left>>

\* A board that is gone stays gone, and nobody is told.
UpdateBoard(p) ==
    /\ At(p, "Update", "write")
    /\ LET b == req[p].board IN
       row' = IF row[b] = NoRow THEN row
              ELSE [row EXCEPT ![b].position = req[p].mine.position, ![b].main = req[p].mine.main]
    /\ Finish(p)
    /\ UNCHANGED <<columns, used, favorite, left>>

DeleteBoard(p) ==
    /\ At(p, "Delete", "write")
    /\ Gone(req[p].board)
    /\ Finish(p)
    /\ UNCHANGED used

\* A bug: the others are left as they are.
AlsoMain(p) ==
    /\ At(p, "SetMain", "write")
    /\ row' = [b \in Board |-> IF b = req[p].board /\ row[b] # NoRow
                               THEN [row[b] EXCEPT !.main = TRUE] ELSE row[b]]
    /\ Finish(p)
    /\ UNCHANGED <<columns, used, favorite, left>>

\* One statement for all boards of the workspace.
SetMainBoard(p) ==
    /\ At(p, "SetMain", "write")
    /\ row' = [b \in Board |-> IF row[b] = NoRow THEN NoRow
                               ELSE [row[b] EXCEPT !.main = (b = req[p].board)]]
    /\ Finish(p)
    /\ UNCHANGED <<columns, used, favorite, left>>

-----------------------------------------------------------------------------
\* Reorder: the order asked for names every board listed, once.
ListBoards(p) ==
    /\ MayBegin(p, "Reorder")
    /\ \E order \in [1..Cardinality(Boards) -> Boards] :
          /\ \A b \in Boards : \E i \in DOMAIN order : order[i] = b
          /\ Become(p, [Fresh("Reorder", "write", NoBoard) EXCEPT !.order = order])
    /\ UNCHANGED Stored

ReorderBoards(p) ==
    /\ At(p, "Reorder", "write")
    /\ LET order == req[p].order IN
       row' = [b \in Board |->
                  IF row[b] # NoRow /\ \E i \in DOMAIN order : order[i] = b
                  THEN [row[b] EXCEPT !.position = (CHOOSE i \in DOMAIN order : order[i] = b) - 1]
                  ELSE row[b]]
    /\ Finish(p)
    /\ UNCHANGED <<columns, used, favorite, left>>

-----------------------------------------------------------------------------
\* Favorites of boards: the board is looked up, and the favorite inserted, unless
\* it is one already.
Add(p, u) ==
    /\ MayBegin(p, "AddFavorite")
    /\ \E b \in Boards : Become(p, [Fresh("AddFavorite", "write", b) EXCEPT !.user = u])
    /\ UNCHANGED Stored

AddFavorite(p) ==
    /\ At(p, "AddFavorite", "write")
    /\ favorite' = favorite \cup {<<req[p].user, req[p].board>>}
    /\ Finish(p)
    /\ UNCHANGED <<row, columns, used, left>>

RemoveFavorite(u, b) ==
    /\ <<u, b>> \in favorite
    /\ favorite' = favorite \ {<<u, b>>}
    /\ UNCHANGED <<row, columns, used, req, left>>

\* The account is deleted.
DeleteUserFavorites(u) ==
    /\ favorite' = {f \in favorite : f[1] # u}
    /\ UNCHANGED <<row, columns, used, req, left>>

-----------------------------------------------------------------------------
\* A statement fails, or the server stops.  A creation leaves what it has made.
RequestFails(p) ==
    /\ req[p] # Idle
    /\ Finish(p)
    /\ left' = IF req[p].at \in {"columns", "undo"}
               THEN left \cup ({req[p].board} \cap Boards) ELSE left
    /\ UNCHANGED <<row, columns, used, favorite>>

Next ==
    \/ \E p \in Request :
          \/ Find(p) \/ UpdateBoard(p) \/ DeleteBoard(p) \/ SetMainBoard(p)
          \/ LockWorkspace(p) \/ CreateBoard(p) \/ CreateColumn(p) \/ ColumnFails(p)
          \/ UndoCreate(p)
          \/ ListBoards(p) \/ ReorderBoards(p)
          \/ AddFavorite(p) \/ \E u \in User : Add(p, u)
          \/ RequestFails(p)
    \/ \E u \in User : DeleteUserFavorites(u) \/ \E b \in Board : RemoveFavorite(u, b)

Spec == Init /\ [][Next]_vars

-----------------------------------------------------------------------------
\* A workspace has one main board: it is chosen in one statement, and is the one
\* that is not deleted.
OneMain == Cardinality({b \in Boards : row[b].main}) = 1

\* A board has all its columns, while it is not being created: one whose columns
\* fail is deleted again, unless that fails too.
ColumnsComplete ==
    \A b \in Boards \ left :
        columns[b] = ColumnCount \/ \E p \in Request : req[p] # Idle /\ req[p].op = "Create"
                                                       /\ req[p].board = b

\* A favorite is of a board that is there, which no foreign key asks for.
NoDanglingFavorite == \A f \in favorite : f[2] \in Boards

\* The boards in the order in which they are listed.
Before(b, c) == \/ row[b].position < row[c].position
                \/ row[b].position = row[c].position /\ row[b].born < row[c].born

Listed == [n \in 1..Cardinality(Boards) |->
              CHOOSE b \in Boards : Cardinality({c \in Boards : Before(c, b)}) = n - 1]

\* Boards change places only when they are put in order: a change of the name, of
\* the main board, a creation and a deletion leave the others where they are.
OnlyReorderMoves ==
    [][\/ \E p \in Request : At(p, "Reorder", "write") /\ req'[p] = Idle
       \/ \A b, c \in Boards \cap Boards' : Before(b, c) = Before(b, c)']_vars

Main == IF \E b \in Boards : row[b].main THEN CHOOSE b \in Boards : row[b].main ELSE NoBoard

List == INSTANCE BoardList WITH list <- Listed, main <- Main

\* Users see a list that grows at its end, and of which one board is the main one.
ListKept == List!Spec
=============================================================================
