-------------------------------- MODULE Tasks -------------------------------
(***************************************************************************)
(* Tasks: their places in the columns of a board and their parents.        *)
(*                                                                         *)
(* An update reads the task, checks the new parent by walking up from it,  *)
(* one SELECT per task, and then writes the whole row, as read and changed.*)
(* A move and a creation are transactions of several statements, of which  *)
(* the first that locks rows sees those that match when it starts, waits   *)
(* for their locks and takes the newest version of those that still match  *)
(* (PostgreSQL, Read Committed).  Such a transaction is two steps: the     *)
(* start of that statement, and the rest, which commits.  Every other      *)
(* statement is one step.  A server that stops fails all its requests.     *)
(*                                                                         *)
(* A place in another board is a column like any other, and all tasks are  *)
(* those of one workspace.                                                 *)
(***************************************************************************)
EXTENDS Naturals, FiniteSets

CONSTANTS
    Task,    \* task ids (never reused: uuid.New)
    NoTask,
    Column,  \* column ids, in their order
    Request, \* the HTTP requests in progress at one time
    Idle,    \* a request slot that serves nobody
    NoRow,
    Together \* the sets of operations that may be in progress at one time

OpNames == {"Create", "Update"}

Parent == Task \cup {NoTask}
Row == [column: Column, position: Nat, parent: Parent, born: Nat]

\* A request in progress: mine is the row as read and changed, walk the next
\* ancestor to look at, seen those looked at, snap what the statement that
\* locks rows saw when it started.
InProgress == [op: OpNames, at: {"walk", "write", "commit"}, task: Parent, mine: Row,
               walk: Parent, seen: SUBSET Task, snap: [Task -> Row \cup {NoRow}],
               target: Column, to: Nat]

ASSUME TaskAssumption == IsFiniteSet(Task)
ASSUME ColumnAssumption == Column \subseteq Nat
ASSUME NothingAssumption == NoTask \notin Task /\ NoRow \notin Row /\ Idle \notin InProgress

VARIABLES
    row,  \* row[t]: the row of the task, or NoRow
    used, \* the ids used so far
    req   \* req[p]: the request in progress, or Idle

vars == <<row, used, req>>

\* Every variable stays in its type; in particular no position is negative.
TypeOK ==
    /\ row \in [Task -> Row \cup {NoRow}]
    /\ used \subseteq Task
    /\ req \in [Request -> InProgress \cup {Idle}]

NoRows == [t \in Task |-> NoRow]

Init ==
    /\ row = NoRows
    /\ used = {}
    /\ req = [p \in Request |-> Idle]

Tasks == {t \in Task : row[t] # NoRow}

\* What a parent may be.
Valid == Tasks \cup {NoTask}

-----------------------------------------------------------------------------
\* Requests.

Become(p, r) == req' = [req EXCEPT ![p] = r]
Finish(p) == Become(p, Idle)
At(p, op, stage) == req[p] # Idle /\ req[p].op = op /\ req[p].at = stage

MayBegin(p, op) ==
    /\ req[p] = Idle
    /\ \A o \in Request : req[o] # Idle => {op, req[o].op} \in Together

\* The task is found.  A new parent, if one is given, is not the task itself, and
\* is walked up from.
BeginUpdate(p) ==
    /\ MayBegin(p, "Update")
    /\ \E t \in Task, q \in Parent, given \in BOOLEAN :
          /\ row[t] # NoRow /\ q # t
          /\ Become(p, [op |-> "Update", at |-> IF given /\ q # NoTask THEN "walk" ELSE "write",
                        task |-> t,
                        mine |-> IF given THEN [row[t] EXCEPT !.parent = q] ELSE row[t],
                        walk |-> IF given THEN q ELSE NoTask, seen |-> {t},
                        snap |-> NoRows, target |-> row[t].column, to |-> 0])
    /\ UNCHANGED <<row, used>>

\* A bug: only the new parent itself is looked at.
WalkOnce(p) ==
    /\ req[p] # Idle /\ req[p].at = "walk"
    /\ IF row[req[p].walk] = NoRow \/ req[p].walk \in req[p].seen
       THEN Finish(p)
       ELSE Become(p, [req[p] EXCEPT !.seen = {}, !.walk = NoTask, !.at = "write"])
    /\ UNCHANGED <<row, used>>

\* ValidateParent, its next ancestor.
Walk(p) ==
    /\ req[p] # Idle /\ req[p].at = "walk"
    /\ LET s == req[p].walk IN
       IF row[s] = NoRow \/ s \in req[p].seen
       THEN Finish(p)
       ELSE Become(p, [req[p] EXCEPT
                          !.seen = IF row[s].parent = NoTask THEN {} ELSE @ \cup {s},
                          !.walk = row[s].parent,
                          !.at = IF row[s].parent = NoTask THEN "write" ELSE "walk"])
    /\ UNCHANGED <<row, used>>

\* What a locking statement on these columns sees.
Seen(columns) ==
    [t \in Task |-> IF row[t] # NoRow /\ row[t].column \in columns THEN row[t] ELSE NoRow]

-----------------------------------------------------------------------------
\* Create.

Creation(c, q) ==
    [op |-> "Create", at |-> "commit", task |-> NoTask,
     mine |-> [column |-> c, position |-> 0, parent |-> q, born |-> 0],
     walk |-> NoTask, seen |-> {}, snap |-> Seen({c}), target |-> c, to |-> 0]

\* A bug: the column is not locked, and two creations shift the same tasks.
LockNothing(p) ==
    /\ MayBegin(p, "Create")
    /\ \E c \in Column, q \in Valid : Become(p, Creation(c, q))
    /\ UNCHANGED <<row, used>>

\* The row of the column is locked, and the shift starts.  (The walk up from the
\* parent refuses those that are gone, as the insert does, and those in a circle.)
LockColumn(p) ==
    /\ MayBegin(p, "Create")
    /\ \E c \in Column, q \in Valid :
          /\ \A o \in Request : At(o, "Create", "commit") => req[o].mine.column # c
          /\ Become(p, Creation(c, q))
    /\ UNCHANGED <<row, used>>

\* A bug: the sign is wrong.
ShiftedUp(c, snap) ==
    [t \in Task |-> IF snap[t] # NoRow /\ row[t] # NoRow /\ row[t].column = c
                    THEN [row[t] EXCEPT !.position = @ - 1] ELSE row[t]]

Shifted(c, snap) ==
    [t \in Task |-> IF snap[t] # NoRow /\ row[t] # NoRow /\ row[t].column = c
                    THEN [row[t] EXCEPT !.position = @ + 1] ELSE row[t]]

\* The tasks below are shifted and the new one inserted, unless its parent is
\* gone (the foreign key).
InsertTask(p) ==
    /\ At(p, "Create", "commit")
    /\ LET new == req[p].mine IN
       IF new.parent \in Valid
       THEN \E t \in Task \ used :
               /\ row' = [Shifted(new.column, req[p].snap)
                             EXCEPT ![t] = [new EXCEPT !.born = Cardinality(used)]]
               /\ used' = used \cup {t}
       ELSE UNCHANGED <<row, used>>
    /\ Finish(p)

-----------------------------------------------------------------------------
\* Update.

\* The row as it was read replaces the row as it is.
Written(t, mine) == [row[t] EXCEPT !.column = mine.column, !.position = mine.position,
                                   !.parent = mine.parent]

UpdateTask(p) ==
    /\ At(p, "Update", "write")
    /\ LET t == req[p].task IN
       row' = IF row[t] # NoRow /\ req[p].mine.parent \in Valid
              THEN [row EXCEPT ![t] = Written(t, req[p].mine)]
              ELSE row
    /\ Finish(p)
    /\ UNCHANGED used

\* A move starts: the rows of both columns are selected for update.  (Bound: places
\* below the number of tasks; a greater one is cut to the number of others.)
SelectRows(p) ==
    /\ At(p, "Update", "write")
    /\ \E c \in Column, i \in 0..(Cardinality(Task) - 1) :
          Become(p, [req[p] EXCEPT !.at = "commit", !.target = c, !.to = i,
                                   !.snap = Seen({req[p].mine.column, c})])
    /\ UNCHANGED <<row, used>>

\* ORDER BY sorts what was seen, before the locks are waited for.
Above(snap, s, t) ==
    \/ snap[s].column < snap[t].column
    \/ /\ snap[s].column = snap[t].column
       /\ \/ snap[s].position < snap[t].position
          \/ snap[s].position = snap[t].position /\ snap[s].born < snap[t].born

Rank(snap, S, t) == Cardinality({s \in S : Above(snap, s, t)})

\* Where t ends up when something is inserted into S at i.
PlaceAround(snap, S, t, i) ==
    IF Rank(snap, S, t) >= i THEN Rank(snap, S, t) + 1 ELSE Rank(snap, S, t)

\* The source without the task and the target with it are numbered from 0.  A
\* task that is in the target already is in its list twice, and the later
\* number stays.
MoveTask(p) ==
    /\ At(p, "Update", "commit")
    /\ LET r == req[p]
           from == r.mine.column
           found == {s \in Task : r.snap[s] # NoRow /\ row[s] # NoRow
                                  /\ row[s].column \in {from, r.target}}
           source == {s \in found \ {r.task} : row[s].column = from}
           target == {s \in found : row[s].column = r.target /\ (from = r.target => s # r.task)}
           asked == IF r.to > Cardinality(target) THEN Cardinality(target) ELSE r.to
           place(s) == PlaceAround(r.snap, target, s, asked)
           last == IF r.task \in target /\ place(r.task) > asked THEN place(r.task) ELSE asked
       IN row' =
            IF r.task \in found /\ r.mine.parent \in Valid
            THEN [t \in Task |->
                    IF t = r.task
                    THEN Written(t, [r.mine EXCEPT !.column = r.target, !.position = last])
                    ELSE IF t \in target THEN [row[t] EXCEPT !.position = place(t)]
                    ELSE IF t \in source
                    THEN [row[t] EXCEPT !.position = Rank(r.snap, source, t)]
                    ELSE row[t]]
            ELSE row
    /\ Finish(p)
    /\ UNCHANGED used

-----------------------------------------------------------------------------
\* Delete: the task and its children, whose children lose their parent (ON
\* DELETE SET NULL).

\* A bug: only the task is deleted.
DeleteAlone(t) ==
    /\ row[t] # NoRow
    /\ row' = [s \in Task |->
                  IF row[s] = NoRow \/ s = t THEN NoRow
                  ELSE IF row[s].parent = t THEN [row[s] EXCEPT !.parent = NoTask]
                  ELSE row[s]]
    /\ UNCHANGED <<used, req>>

DeleteTask(t) ==
    /\ row[t] # NoRow
    /\ LET gone == {s \in Task : row[s] # NoRow /\ (s = t \/ row[s].parent = t)} IN
       row' = [s \in Task |->
                  IF row[s] = NoRow \/ s \in gone THEN NoRow
                  ELSE IF row[s].parent \in gone THEN [row[s] EXCEPT !.parent = NoTask]
                  ELSE row[s]]
    /\ UNCHANGED <<used, req>>

-----------------------------------------------------------------------------
\* A statement fails, or the server stops: a transaction in progress is undone.
RequestFails(p) ==
    /\ req[p] # Idle
    /\ Finish(p)
    /\ UNCHANGED <<row, used>>

Next ==
    \/ \E p \in Request :
          \/ BeginUpdate(p) \/ Walk(p)
          \/ LockColumn(p) \/ InsertTask(p)
          \/ UpdateTask(p) \/ SelectRows(p) \/ MoveTask(p)
          \/ RequestFails(p)
    \/ \E t \in Task : DeleteTask(t)

Spec == Init /\ [][Next]_vars

-----------------------------------------------------------------------------
ParentOf == [t \in Task |-> IF row[t] = NoRow THEN NoTask ELSE row[t].parent]

\* The tasks of a column have distinct positions: CreateTask and moveTaskTx
\* renumber the others, also when tasks are created at the same time.
PositionsDistinct ==
    \A s, t \in Tasks :
        s # t /\ row[s].column = row[t].column => row[s].position # row[t].position

\* No task is its own ancestor, which ValidateParent rules out: in any set of
\* tasks there is one whose parent is not among them.
NoCycles == \A S \in SUBSET Task : S # {} => \E t \in S : ParentOf[t] \notin S

\* The columns as their readers see them, sorted by position and age.
List(c) ==
    LET S == {t \in Tasks : row[t].column = c} IN
    [n \in 1..Cardinality(S) |-> CHOOSE t \in S : Rank(row, S, t) = n - 1]

Board == INSTANCE TaskBoard WITH lists <- [c \in Column |-> List(c)], parent <- ParentOf

\* Users see lists of tasks that change where they change them, and trees.
ListsKept == Board!Spec
=============================================================================
