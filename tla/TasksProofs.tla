----------------------------- MODULE TasksProofs ----------------------------
(***************************************************************************)
(* Proofs about Tasks, for any finite set of task ids, and any number of   *)
(* columns and requests.                                                   *)
(*                                                                         *)
(* An update writes back the whole row it read.  What the trees need is    *)
(* that no other update runs meanwhile, what the places need is that no    *)
(* creation does either; MCTasks keeps them apart as well, and the run     *)
(* parent_cycle shows what happens where it does not.                      *)
(***************************************************************************)
EXTENDS Tasks, FiniteSetTheorems, SequenceTheorems, TLAPS

\* What each request has in hand.
Stages(r) ==
    /\ r.op = "Create" => r.at = "commit"
    /\ r.op = "Update" => r.task \in Task
    /\ r.at = "walk" => r.op = "Update" /\ r.walk \in Task

Staged == \A p \in Request : req[p] # Idle => Stages(req[p])

TypeInv == TypeOK /\ Staged

\* Operations are in progress together only where they may be.
Allowed ==
    \A p, o \in Request :
       p # o /\ req[p] # Idle /\ req[o] # Idle => {req[p].op, req[o].op} \in Together

\* A task that is there, and its parent, have ids that are used.
RowsUsed == \A t \in Tasks : t \in used /\ row[t].parent \in used \cup {NoTask}

\* A walk has seen, below the task it looks at next, nothing but ancestors of the
\* new parent, and they lead to that task.
Climbed(r) ==
    LET below == r.seen \ {r.task} IN
    /\ r.task \in r.seen /\ r.seen \subseteq used
    /\ r.mine.parent \in below \cup {r.walk}
    /\ \A v \in below : ParentOf[v] \in below \cup {r.walk, NoTask}

\* A is closed under parents, without t, and q can be found in it.
Leads(A, q, t) ==
    /\ q \in A \cup {NoTask} /\ t \notin A
    /\ \A a \in A : ParentOf[a] \in A \cup {NoTask}

\* A parent that may be written is the one that the task has, or has ancestors
\* without the task.
Sound(r) ==
    /\ r.mine.parent \in used \cup {NoTask}
    /\ \/ r.mine.parent \notin Valid
       \/ row[r.task] = NoRow
       \/ ParentOf[r.task] = r.mine.parent
       \/ \E A \in SUBSET used : Leads(A, r.mine.parent, r.task)

TreeKnown(r) ==
    /\ r.op = "Update" => /\ r.task \in used
                          /\ IF r.at = "walk" THEN Climbed(r) ELSE Sound(r)
    /\ r.op = "Create" => r.mine.parent \in used \cup {NoTask}

TreesKnown == \A p \in Request : req[p] # Idle => TreeKnown(req[p])

TreeInv == TypeInv /\ Allowed /\ RowsUsed /\ TreesKnown /\ NoCycles

\* What a statement that locks these columns saw is still in its place.
StillThere(r, columns) ==
    \A s \in Tasks : row[s].column \in columns =>
        /\ r.snap[s] # NoRow
        /\ r.snap[s].column = row[s].column /\ r.snap[s].position = row[s].position

PlaceKnown(r) ==
    /\ r.op = "Update" /\ row[r.task] # NoRow =>
          r.mine.column = row[r.task].column /\ r.mine.position = row[r.task].position
    /\ r.op = "Update" /\ r.at = "commit" => StillThere(r, {r.mine.column, r.target})
    /\ r.op = "Create" =>
          /\ r.mine.position = 0
          /\ \A s \in Tasks : row[s].column = r.mine.column => r.snap[s] # NoRow

PlacesKnown == \A p \in Request : req[p] # Idle => PlaceKnown(req[p])

\* Each column is added to by one request at a time.
OneCreates ==
    \A p, o \in Request :
       /\ p # o /\ req[p] # Idle /\ req[o] # Idle
       /\ req[p].op = "Create" /\ req[o].op = "Create"
       => req[p].mine.column # req[o].mine.column

PlaceInv ==
    TypeInv /\ Allowed /\ RowsUsed /\ PlacesKnown /\ OneCreates /\ PositionsDistinct

LEMMA RequestTypes ==
    ASSUME TypeOK, NEW p \in Request, req[p] # Idle
    PROVE  /\ req[p] \in InProgress
           /\ req[p].op \in OpNames /\ req[p].at \in {"walk", "write", "commit"}
           /\ req[p].task \in Parent /\ req[p].mine \in Row /\ req[p].walk \in Parent
           /\ req[p].seen \subseteq Task /\ req[p].snap \in [Task -> Row \cup {NoRow}]
           /\ req[p].target \in Column /\ req[p].to \in Nat
<1>1. req[p] \in InProgress
  BY DEF TypeOK
<1> QED
  BY <1>1 DEF InProgress

\* A request becomes another record, or ends; the others stay.
LEMMA BecomeTypes ==
    ASSUME TypeOK, NEW p \in Request, NEW x \in InProgress \cup {Idle}, Become(p, x)
    PROVE  /\ req' \in [Request -> InProgress \cup {Idle}]
           /\ req'[p] = x
           /\ \A o \in Request \ {p} : req'[o] = req[o]
  BY DEF TypeOK, Become

\* A row that was read, or is there.
LEMMA RowTypes ==
    ASSUME NEW x \in Row
    PROVE  /\ x.column \in Column /\ x.column \in Nat /\ x.position \in Nat
           /\ x.parent \in Parent /\ x.born \in Nat /\ x # NoRow
  BY ColumnAssumption, NothingAssumption DEF Row

LEMMA TaskTypes ==
    ASSUME TypeOK, NEW t \in Task
    PROVE  /\ row[t] # NoRow => row[t] \in Row /\ row[t].parent \in Parent
           /\ ParentOf[t] \in Parent
<1>1. row[t] # NoRow => row[t] \in Row
  BY DEF TypeOK
<1>2. row[t] # NoRow => row[t].parent \in Parent
  BY <1>1, RowTypes
<1> QED
  BY <1>1, <1>2 DEF ParentOf, Parent

LEMMA SeenTypes ==
    ASSUME TypeOK, NEW columns
    PROVE  /\ Seen(columns) \in [Task -> Row \cup {NoRow}]
           /\ \A t \in Tasks : row[t].column \in columns => Seen(columns)[t] = row[t]
  BY DEF TypeOK, Seen, Tasks

\* A row with other fields written to it is a row.
LEMMA WrittenTypes ==
    ASSUME TypeOK, NEW t \in Task, row[t] # NoRow, NEW m \in Row
    PROVE  /\ Written(t, m) \in Row /\ Written(t, m) # NoRow
           /\ Written(t, m).column = m.column /\ Written(t, m).position = m.position
           /\ Written(t, m).parent = m.parent
<1>1. row[t] \in Row
  BY TaskTypes
<1>2. Written(t, m) \in Row
  BY <1>1, RowTypes DEF Written, Row
<1> QED
  BY <1>1, <1>2, NothingAssumption DEF Written, Row

\* A row in another place is a row.
LEMMA PlacedTypes ==
    ASSUME NEW x \in Row, NEW n \in Nat
    PROVE  LET y == [x EXCEPT !.position = n] IN
           /\ y \in Row /\ y # NoRow
           /\ y.column = x.column /\ y.position = n /\ y.parent = x.parent
<1>1. [x EXCEPT !.position = n] \in Row
  BY DEF Row
<1> QED
  BY <1>1, NothingAssumption DEF Row

\* The tasks that a statement finds can be counted.
LEMMA RankTypes ==
    ASSUME NEW snap, NEW S \in SUBSET Task, NEW t
    PROVE  /\ IsFiniteSet(S) /\ Cardinality(S) \in Nat
           /\ Rank(snap, S, t) \in Nat
           /\ \A i \in Nat : PlaceAround(snap, S, t, i) \in Nat
<1> DEFINE T == {s \in S : Above(snap, s, t)}
<1>1. IsFiniteSet(S)
  BY TaskAssumption, FS_Subset
<1>2. IsFiniteSet(T)
  <2>1. T \subseteq S
    OBVIOUS
  <2> HIDE DEF T
  <2> QED
    BY <1>1, <2>1, FS_Subset
<1> HIDE DEF T
<1>3. Cardinality(S) \in Nat /\ Cardinality(T) \in Nat
  BY <1>1, <1>2, FS_CardinalityType
<1>4. Rank(snap, S, t) \in Nat
  BY <1>3 DEF Rank, T
<1> QED
  BY <1>1, <1>3, <1>4 DEF PlaceAround

-----------------------------------------------------------------------------
\* The types stay when a request takes its next step.
LEMMA TypesKept ==
    ASSUME TypeInv, NEW p \in Request, NEW x \in InProgress \cup {Idle}, Become(p, x),
           x # Idle => Stages(x), row' \in [Task -> Row \cup {NoRow}], used' \subseteq Task
    PROVE  TypeInv'
<1>1. TypeOK'
  BY BecomeTypes DEF TypeInv, TypeOK
<1>2. Staged'
  <2> SUFFICES ASSUME NEW o \in Request, req'[o] # Idle PROVE Stages(req'[o])
    BY DEF Staged
  <2>1. CASE o = p
    BY <2>1, BecomeTypes DEF TypeInv
  <2>2. CASE o # p
    BY <2>2, BecomeTypes DEF TypeInv, Staged
  <2> QED
    BY <2>1, <2>2
<1> QED
  BY <1>1, <1>2 DEF TypeInv

\* An update begins: it has the row of a task that is there, with the parent as it
\* is, with none, or with another one that it walks up from.
LEMMA BeginStep ==
    ASSUME TypeInv, NEW p \in Request, BeginUpdate(p)
    PROVE  \E x \in InProgress :
              /\ Become(p, x) /\ x # Idle /\ Stages(x)
              /\ x.op = "Update" /\ x.at \in {"walk", "write"} /\ x.task \in Tasks
              /\ x.mine.column = row[x.task].column
              /\ x.mine.position = row[x.task].position
              /\ x.at = "walk" => x.seen = {x.task} /\ x.walk = x.mine.parent
              /\ x.at = "write" => x.mine.parent \in {NoTask, row[x.task].parent}
<1>1. PICK t \in Task, q \in Parent, given \in BOOLEAN :
         /\ row[t] # NoRow /\ q # t
         /\ Become(p, [op |-> "Update", at |-> IF given /\ q # NoTask THEN "walk" ELSE "write",
                       task |-> t,
                       mine |-> IF given THEN [row[t] EXCEPT !.parent = q] ELSE row[t],
                       walk |-> IF given THEN q ELSE NoTask, seen |-> {t},
                       snap |-> NoRows, target |-> row[t].column, to |-> 0])
  BY DEF BeginUpdate
<1> DEFINE m == IF given THEN [row[t] EXCEPT !.parent = q] ELSE row[t]
           x == [op |-> "Update", at |-> IF given /\ q # NoTask THEN "walk" ELSE "write",
                 task |-> t, mine |-> m, walk |-> IF given THEN q ELSE NoTask, seen |-> {t},
                 snap |-> NoRows, target |-> row[t].column, to |-> 0]
<1>2. row[t] \in Row /\ row[t].column \in Column
  BY <1>1, TaskTypes, RowTypes DEF TypeInv
<1>3. /\ m \in Row /\ m.column = row[t].column /\ m.position = row[t].position
      /\ m.parent = IF given THEN q ELSE row[t].parent
  BY <1>2 DEF Row
<1>4. Become(p, x)
  BY <1>1
<1> HIDE DEF m
<1>5. x \in InProgress
  <2>1. NoRows \in [Task -> Row \cup {NoRow}]
    BY DEF NoRows
  <2> QED
    BY <1>2, <1>3, <2>1 DEF InProgress, OpNames, Parent
<1>6. x # Idle
  BY <1>5, NothingAssumption
<1>7. Stages(x)
  BY DEF Stages, Parent
<1>8. t \in Tasks
  BY <1>1 DEF Tasks
<1>9. /\ x.at = "walk" => x.seen = {x.task} /\ x.walk = x.mine.parent
      /\ x.at = "write" => x.mine.parent \in {NoTask, row[x.task].parent}
  BY <1>3
<1> QED
  BY <1>3, <1>4, <1>5, <1>6, <1>7, <1>8, <1>9
\* An update looks at an ancestor: it ends, goes on to the next, or may write.
LEMMA WalkStep ==
    ASSUME TypeInv, NEW p \in Request, Walk(p)
    PROVE  /\ req[p] # Idle /\ req[p].at = "walk" /\ req[p].op = "Update"
           /\ req[p].walk \in Task /\ req[p].task \in Task
           /\ \/ Become(p, Idle)
              \/ /\ req[p].walk \in Tasks \ req[p].seen
                 /\ \E x \in InProgress :
                       /\ Become(p, x) /\ x # Idle /\ Stages(x)
                       /\ x.op = "Update" /\ x.task = req[p].task /\ x.mine = req[p].mine
                       /\ x.walk = row[req[p].walk].parent
                       /\ \/ x.at = "write" /\ x.walk = NoTask
                          \/ x.at = "walk" /\ x.seen = req[p].seen \cup {req[p].walk}
<1>0. TypeOK /\ req[p] # Idle /\ req[p].at = "walk"
  BY DEF TypeInv, Walk
<1>1. req[p].op = "Update" /\ req[p].task \in Task /\ req[p].walk \in Task
  BY <1>0 DEF TypeInv, Staged, Stages
<1> DEFINE s == req[p].walk
           r == req[p]
           q == row[s].parent
           x == [r EXCEPT !.seen = IF q = NoTask THEN {} ELSE @ \cup {s},
                          !.walk = q, !.at = IF q = NoTask THEN "write" ELSE "walk"]
<1>2. CASE row[s] = NoRow \/ s \in r.seen
  BY <1>0, <1>1, <1>2 DEF Walk, Finish
<1>3. CASE row[s] # NoRow /\ s \notin r.seen
  <2>1. Become(p, x)
    BY <1>0, <1>3 DEF Walk
  <2>2. s \in Tasks \ r.seen /\ q \in Parent
    BY <1>0, <1>1, <1>3, TaskTypes DEF Tasks
  <2>3. r \in InProgress /\ r.seen \subseteq Task
    BY <1>0, RequestTypes
  <2> HIDE DEF q, s, r
  <2>4. /\ x \in InProgress
        /\ x.op = r.op /\ x.task = r.task /\ x.mine = r.mine /\ x.walk = q
        /\ \/ x.at = "write" /\ q = NoTask
           \/ x.at = "walk" /\ q # NoTask /\ x.seen = r.seen \cup {s}
    <3>1. s \in Task
      BY <1>1 DEF s
    <3> QED
      BY <2>2, <2>3, <3>1 DEF InProgress, Parent
  <2> HIDE DEF x
  <2>5. x # Idle
    BY <2>4, NothingAssumption
  <2>6. r.op = "Update" /\ r.task \in Task
    BY <1>1 DEF r
  <2>7. Stages(x)
    BY <2>2, <2>4, <2>6 DEF Stages, Parent
  <2>8. \E y \in InProgress :
           /\ Become(p, y) /\ y # Idle /\ Stages(y)
           /\ y.op = "Update" /\ y.task = r.task /\ y.mine = r.mine /\ y.walk = q
           /\ \/ y.at = "write" /\ y.walk = NoTask
              \/ y.at = "walk" /\ y.seen = r.seen \cup {s}
    BY <2>1, <2>4, <2>5, <2>6, <2>7
  <2> QED
    BY <1>0, <1>1, <2>2, <2>8 DEF q, s, r
<1> QED
  BY <1>2, <1>3

\* A creation locks its column.
LEMMA LockStep ==
    ASSUME TypeInv, NEW p \in Request, LockColumn(p)
    PROVE  \E x \in InProgress :
              /\ Become(p, x) /\ x # Idle /\ Stages(x)
              /\ x.op = "Create" /\ x.mine.position = 0 /\ x.mine.parent \in Valid
              /\ x.snap = Seen({x.mine.column})
              /\ \A o \in Request : At(o, "Create", "commit") => req[o].mine.column # x.mine.column
<1>1. PICK c \in Column, q \in Valid :
         /\ \A o \in Request : At(o, "Create", "commit") => req[o].mine.column # c
         /\ Become(p, Creation(c, q))
  BY DEF LockColumn
<1> DEFINE x == Creation(c, q)
<1>2. x \in InProgress
  <2>1. q \in Parent
    BY DEF Valid, Tasks, Parent
  <2>2. Seen({c}) \in [Task -> Row \cup {NoRow}]
    BY SeenTypes DEF TypeInv
  <2> QED
    BY <2>1, <2>2 DEF Creation, InProgress, OpNames, Parent, Row
<1>3. x # Idle
  BY <1>2, NothingAssumption
<1>4. /\ x.op = "Create" /\ x.at = "commit" /\ x.mine.position = 0 /\ x.mine.parent = q
      /\ x.mine.column = c /\ x.snap = Seen({c})
  BY DEF Creation
<1> HIDE DEF x
<1>5. Stages(x)
  BY <1>4 DEF Stages
<1>6. Become(p, x)
  BY <1>1 DEF x
<1> QED
  BY <1>1, <1>2, <1>3, <1>4, <1>5, <1>6

\* A move starts.
LEMMA SelectStep ==
    ASSUME TypeInv, NEW p \in Request, SelectRows(p)
    PROVE  /\ req[p] # Idle /\ req[p].op = "Update" /\ req[p].at = "write"
           /\ \E x \in InProgress :
                 /\ Become(p, x) /\ x # Idle /\ Stages(x)
                 /\ x.op = "Update" /\ x.at = "commit"
                 /\ x.task = req[p].task /\ x.mine = req[p].mine
                 /\ x.snap = Seen({x.mine.column, x.target})
<1>0. TypeOK /\ req[p] # Idle /\ req[p].op = "Update" /\ req[p].at = "write"
  BY DEF TypeInv, SelectRows, At
<1>1. PICK c \in Column, i \in 0..(Cardinality(Task) - 1) :
         Become(p, [req[p] EXCEPT !.at = "commit", !.target = c, !.to = i,
                                  !.snap = Seen({req[p].mine.column, c})])
  BY DEF SelectRows
<1> DEFINE r == req[p]
           z == Seen({r.mine.column, c})
           x == [r EXCEPT !.at = "commit", !.target = c, !.to = i, !.snap = z]
<1>2. i \in Nat
  OBVIOUS
<1>3. r \in InProgress /\ z \in [Task -> Row \cup {NoRow}]
  BY <1>0, RequestTypes, SeenTypes
<1>4. r.op = "Update" /\ r.task \in Task
  BY <1>0 DEF TypeInv, Staged, Stages
<1>5. Become(p, x)
  BY <1>1
<1> HIDE DEF r, z
<1>6. /\ x \in InProgress
      /\ x.op = r.op /\ x.at = "commit" /\ x.task = r.task /\ x.mine = r.mine
      /\ x.target = c /\ x.snap = z
  BY <1>2, <1>3 DEF InProgress
<1> HIDE DEF x
<1>7. x # Idle /\ Stages(x)
  BY <1>4, <1>6, NothingAssumption DEF Stages
<1>8. z = Seen({x.mine.column, x.target})
  BY <1>6 DEF z
<1>9. r.mine = req[p].mine /\ r.task = req[p].task
  BY DEF r
<1> QED
  BY <1>0, <1>4, <1>5, <1>6, <1>7, <1>8, <1>9
\* A creation shifts what it found in its column, and adds its task with an id that
\* was not used.
Adds(r, t) ==
    /\ used' = used \cup {t}
    /\ row'[t] # NoRow /\ r.mine.parent \in Valid
    /\ row'[t].column = r.mine.column /\ row'[t].position = r.mine.position
    /\ row'[t].parent = r.mine.parent
    /\ \A s \in Task \ {t} :
          /\ row'[s] = NoRow <=> row[s] = NoRow
          /\ row[s] # NoRow =>
                /\ row'[s].column = row[s].column /\ row'[s].parent = row[s].parent
                /\ row'[s].position = IF r.snap[s] # NoRow /\ row[s].column = r.mine.column
                                      THEN row[s].position + 1 ELSE row[s].position

LEMMA InsertStep ==
    ASSUME TypeInv, NEW p \in Request, InsertTask(p)
    PROVE  /\ req[p] # Idle /\ req[p].op = "Create" /\ Become(p, Idle)
           /\ row' \in [Task -> Row \cup {NoRow}] /\ used' \subseteq Task
           /\ \/ UNCHANGED <<row, used>>
              \/ \E t \in Task \ used : Adds(req[p], t)
<1>0. TypeOK /\ req[p] # Idle /\ req[p].op = "Create" /\ Become(p, Idle)
  BY DEF TypeInv, InsertTask, At, Finish
<1>1. CASE req[p].mine.parent \notin Valid
  BY <1>0, <1>1 DEF InsertTask, TypeOK
<1>2. CASE req[p].mine.parent \in Valid
  <2> DEFINE new == req[p].mine
             snap == req[p].snap
             shifted == Shifted(new.column, snap)
             born == Cardinality(used)
             x == [new EXCEPT !.born = born]
  <2>1. PICK t \in Task \ used : row' = [shifted EXCEPT ![t] = x] /\ used' = used \cup {t}
    BY <1>2 DEF InsertTask
  <2>2. new \in Row /\ born \in Nat
    <3>1. IsFiniteSet(used)
      BY <1>0, TaskAssumption, FS_Subset DEF TypeOK
    <3> QED
      BY <1>0, <3>1, RequestTypes, FS_CardinalityType
  <2>3. ASSUME NEW s \in Task
        PROVE  /\ shifted[s] \in Row \cup {NoRow}
               /\ shifted[s] = NoRow <=> row[s] = NoRow
               /\ row[s] # NoRow =>
                     /\ shifted[s].column = row[s].column /\ shifted[s].parent = row[s].parent
                     /\ shifted[s].position = IF snap[s] # NoRow /\ row[s].column = new.column
                                              THEN row[s].position + 1 ELSE row[s].position
    <3>1. CASE snap[s] # NoRow /\ row[s] # NoRow /\ row[s].column = new.column
      <4> DEFINE y == row[s]
                 n == y.position + 1
      <4>1. y \in Row /\ n \in Nat
        BY <1>0, <3>1, TaskTypes, RowTypes
      <4>2. shifted[s] = [y EXCEPT !.position = n]
        BY <3>1 DEF Shifted
      <4> HIDE DEF n
      <4>3. /\ shifted[s] \in Row /\ shifted[s] # NoRow /\ shifted[s].position = n
            /\ shifted[s].column = y.column /\ shifted[s].parent = y.parent
        BY <4>1, <4>2, PlacedTypes
      <4> QED
        BY <3>1, <4>3 DEF n
    <3>2. CASE ~(snap[s] # NoRow /\ row[s] # NoRow /\ row[s].column = new.column)
      <4>1. shifted[s] = row[s]
        BY <3>2 DEF Shifted
      <4> QED
        BY <1>0, <3>2, <4>1 DEF TypeOK
    <3> QED
      BY <3>1, <3>2
  <2>4. shifted = [s \in Task |-> shifted[s]]
    BY DEF Shifted
  <2> HIDE DEF new, shifted, born
  <2>5. /\ x \in Row /\ x.column = new.column /\ x.position = new.position
        /\ x.parent = new.parent
    BY <2>2 DEF Row
  <2>6. x # NoRow
    BY <2>5, NothingAssumption
  <2> HIDE DEF x
  <2>7. /\ row' \in [Task -> Row \cup {NoRow}] /\ row'[t] = x
        /\ \A s \in Task \ {t} : row'[s] = shifted[s]
    BY <2>1, <2>3, <2>4, <2>5
  <2>8. used' \subseteq Task
    BY <1>0, <2>1 DEF TypeOK
  <2>9. Adds(req[p], t)
    BY <1>2, <2>1, <2>3, <2>5, <2>6, <2>7 DEF Adds, new
  <2> QED
    BY <1>0, <2>7, <2>8, <2>9
<1> QED
  BY <1>1, <1>2

\* An update writes nothing, or no parent but one.
Reparents(r) ==
    /\ \A s \in Task : row'[s] = NoRow <=> row[s] = NoRow
    /\ \/ row' = row
       \/ /\ r.mine.parent \in Valid
          /\ r.task \in Tasks /\ row'[r.task].parent = r.mine.parent
          /\ \A s \in Tasks \ {r.task} : row'[s].parent = row[s].parent

LEMMA UpdateStep ==
    ASSUME TypeInv, NEW p \in Request, UpdateTask(p)
    PROVE  /\ req[p] # Idle /\ req[p].op = "Update" /\ req[p].at = "write"
           /\ Become(p, Idle) /\ used' = used
           /\ row' \in [Task -> Row \cup {NoRow}] /\ Reparents(req[p])
           /\ \/ row' = row
              \/ /\ row[req[p].task] # NoRow
                 /\ row'[req[p].task].column = req[p].mine.column
                 /\ row'[req[p].task].position = req[p].mine.position
                 /\ \A s \in Task \ {req[p].task} : row'[s] = row[s]
<1>0. /\ TypeOK /\ req[p] # Idle /\ req[p].op = "Update" /\ req[p].at = "write"
      /\ Become(p, Idle) /\ used' = used
  BY DEF TypeInv, UpdateTask, At, Finish
<1> DEFINE t == req[p].task
           m == req[p].mine
<1>1. CASE ~(row[t] # NoRow /\ m.parent \in Valid)
  <2>1. row' = row
    BY <1>1 DEF UpdateTask
  <2> QED
    BY <1>0, <2>1 DEF TypeOK, Reparents, Tasks
<1>2. CASE row[t] # NoRow /\ m.parent \in Valid
  <2>1. row' = [row EXCEPT ![t] = Written(t, m)]
    BY <1>2 DEF UpdateTask
  <2>2. t \in Task /\ m \in Row
    BY <1>0, RequestTypes DEF TypeInv, Staged, Stages
  <2>3. /\ Written(t, m) \in Row /\ Written(t, m) # NoRow
        /\ Written(t, m).column = m.column /\ Written(t, m).position = m.position
        /\ Written(t, m).parent = m.parent
    BY <1>0, <1>2, <2>2, WrittenTypes
  <2>4. /\ row' \in [Task -> Row \cup {NoRow}] /\ row'[t] = Written(t, m)
        /\ \A s \in Task \ {t} : row'[s] = row[s]
    BY <1>0, <2>1, <2>2, <2>3 DEF TypeOK
  <2>5. Reparents(req[p])
    BY <1>2, <2>2, <2>3, <2>4 DEF Reparents, Tasks
  <2> QED
    BY <1>0, <1>2, <2>3, <2>4, <2>5
<1> QED
  BY <1>1, <1>2

\* What a deletion leaves has lost nothing but a parent that is gone.
LEMMA DeleteStep ==
    ASSUME TypeOK, NEW t \in Task, DeleteTask(t)
    PROVE  /\ UNCHANGED <<used, req>>
           /\ row' \in [Task -> Row \cup {NoRow}]
           /\ \A s \in Task : row'[s] # NoRow =>
                 /\ row[s] # NoRow
                 /\ row'[s].column = row[s].column /\ row'[s].position = row[s].position
                 /\ \/ row'[s].parent = row[s].parent
                    \/ /\ row'[s].parent = NoTask
                       /\ row[s].parent \in Task /\ row'[row[s].parent] = NoRow
<1> DEFINE gone == {s \in Task : row[s] # NoRow /\ (s = t \/ row[s].parent = t)}
<1>1. /\ UNCHANGED <<used, req>>
      /\ row' = [s \in Task |->
                    IF row[s] = NoRow \/ s \in gone THEN NoRow
                    ELSE IF row[s].parent \in gone THEN [row[s] EXCEPT !.parent = NoTask]
                    ELSE row[s]]
  BY DEF DeleteTask
<1>2. gone \subseteq Task
  OBVIOUS
<1> HIDE DEF gone
<1>3. ASSUME NEW s \in Task
      PROVE  /\ row'[s] \in Row \cup {NoRow}
             /\ row'[s] # NoRow =>
                 /\ row[s] # NoRow
                 /\ row'[s].column = row[s].column /\ row'[s].position = row[s].position
                 /\ \/ row'[s].parent = row[s].parent
                    \/ /\ row'[s].parent = NoTask
                       /\ row[s].parent \in Task /\ row'[row[s].parent] = NoRow
  <2>1. CASE row[s] = NoRow \/ s \in gone
    BY <1>1, <2>1
  <2>2. CASE ~(row[s] = NoRow \/ s \in gone) /\ row[s].parent \in gone
    <3>1. row[s] \in Row /\ row[s].parent \in Task
      BY <1>2, <2>2, TaskTypes
    <3>2. row'[s] = [row[s] EXCEPT !.parent = NoTask] /\ row'[row[s].parent] = NoRow
      BY <1>1, <2>2, <3>1
    <3>3. /\ row'[s] \in Row /\ row'[s].parent = NoTask
          /\ row'[s].column = row[s].column /\ row'[s].position = row[s].position
      BY <3>1, <3>2 DEF Row, Parent
    <3> QED
      BY <2>2, <3>1, <3>2, <3>3
  <2>3. CASE ~(row[s] = NoRow \/ s \in gone) /\ row[s].parent \notin gone
    <3>1. row'[s] = row[s]
      BY <1>1, <2>3
    <3> QED
      BY <2>3, <3>1, TaskTypes
  <2> QED
    BY <2>1, <2>2, <2>3
<1>4. row' \in [Task -> Row \cup {NoRow}]
  BY <1>1, <1>3
<1> QED
  BY <1>1, <1>3, <1>4
\* What a move finds, and the lists that it numbers.
Found(r) ==
    {s \in Task : r.snap[s] # NoRow /\ row[s] # NoRow /\ row[s].column \in {r.mine.column, r.target}}
SourceOf(r) == {s \in Found(r) \ {r.task} : row[s].column = r.mine.column}
TargetOf(r) ==
    {s \in Found(r) : row[s].column = r.target /\ (r.mine.column = r.target => s # r.task)}

\* The task goes to a place of its own, and the others around it.
Numbers(r, asked, last) ==
    /\ r.task \in Found(r)
    /\ r.task \notin TargetOf(r) => last = asked
    /\ row'[r.task].column = r.target /\ row'[r.task].position = last
    /\ \A s \in Tasks \ {r.task} :
          /\ row'[s].column = row[s].column
          /\ s \in TargetOf(r) => row'[s].position = PlaceAround(r.snap, TargetOf(r), s, asked)
          /\ s \in SourceOf(r) \ TargetOf(r) => row'[s].position = Rank(r.snap, SourceOf(r), s)
          /\ s \notin SourceOf(r) \cup TargetOf(r) => row'[s].position = row[s].position

LEMMA MoveStep ==
    ASSUME TypeInv, NEW p \in Request, MoveTask(p)
    PROVE  /\ req[p] # Idle /\ req[p].op = "Update" /\ req[p].at = "commit"
           /\ Become(p, Idle) /\ used' = used
           /\ row' \in [Task -> Row \cup {NoRow}] /\ Reparents(req[p])
           /\ \/ row' = row
              \/ \E asked, last \in Nat : Numbers(req[p], asked, last)
<1>0. /\ TypeOK /\ req[p] # Idle /\ req[p].op = "Update" /\ req[p].at = "commit"
      /\ Become(p, Idle) /\ used' = used
  BY DEF TypeInv, MoveTask, At, Finish
<1> DEFINE r == req[p]
           t == r.task
           m == r.mine
           source == SourceOf(r)
           target == TargetOf(r)
           asked == IF r.to > Cardinality(target) THEN Cardinality(target) ELSE r.to
           place(s) == PlaceAround(r.snap, target, s, asked)
           rank(s) == Rank(r.snap, source, s)
           last == IF t \in target /\ place(t) > asked THEN place(t) ELSE asked
           moved == [m EXCEPT !.column = r.target, !.position = last]
           new(s) == IF s = t THEN Written(t, moved)
                     ELSE IF s \in target THEN [row[s] EXCEPT !.position = place(s)]
                     ELSE IF s \in source THEN [row[s] EXCEPT !.position = rank(s)]
                     ELSE row[s]
<1>1. row' = IF t \in Found(r) /\ m.parent \in Valid THEN [s \in Task |-> new(s)] ELSE row
  BY DEF MoveTask, Found, SourceOf, TargetOf
<1>2. CASE ~(t \in Found(r) /\ m.parent \in Valid)
  <2>1. row' = row
    BY <1>1, <1>2
  <2> QED
    BY <1>0, <2>1 DEF TypeOK, Reparents, Tasks
<1>3. CASE t \in Found(r) /\ m.parent \in Valid
  <2>1. row' = [s \in Task |-> new(s)]
    BY <1>1, <1>3
  <2>2. /\ source \subseteq Found(r) /\ target \subseteq Found(r)
        /\ \A s \in Found(r) : s \in Task /\ row[s] # NoRow
    BY DEF SourceOf, TargetOf, Found
  <2>3. source \in SUBSET Task /\ target \in SUBSET Task
    BY <2>2
  <2>4. m \in Row /\ r.to \in Nat /\ r.target \in Column
    BY <1>0, RequestTypes
  <2>5. Cardinality(target) \in Nat
    BY <2>3, RankTypes
  <2>6. asked \in Nat
    BY <2>4, <2>5
  <2> HIDE DEF asked
  <2>7. \A s \in Task : place(s) \in Nat /\ rank(s) \in Nat
    BY <2>3, <2>6, RankTypes
  <2>8. t \in Task /\ row[t] # NoRow
    BY <1>3, <2>2
  <2>9. last \in Nat
    BY <2>6, <2>7, <2>8
  <2>10. t \notin target => last = asked
    OBVIOUS
  <2> HIDE DEF last, place, rank
  <2>11. /\ moved \in Row /\ moved.column = r.target /\ moved.position = last
         /\ moved.parent = m.parent
    <3> HIDE DEF m
    <3> QED
      BY <2>4, <2>9 DEF Row
  <2> HIDE DEF moved
  <2>12. /\ Written(t, moved) \in Row /\ Written(t, moved) # NoRow
         /\ Written(t, moved).column = r.target /\ Written(t, moved).position = last
         /\ Written(t, moved).parent = m.parent
    BY <1>0, <2>8, <2>11, WrittenTypes
  <2>13. new(t) = Written(t, moved)
    OBVIOUS
  <2>14. ASSUME NEW s \in Task, s # t, row[s] # NoRow
         PROVE  /\ new(s) \in Row /\ new(s) # NoRow
                /\ new(s).column = row[s].column /\ new(s).parent = row[s].parent
                /\ s \in target => new(s).position = place(s)
                /\ s \in source \ target => new(s).position = rank(s)
                /\ s \notin source \cup target => new(s).position = row[s].position
    <3>1. row[s] \in Row
      BY <1>0, <2>14, TaskTypes
    <3>2. CASE s \in target
      <4>1. new(s) = [row[s] EXCEPT !.position = place(s)]
        BY <2>14, <3>2
      <4>2. place(s) \in Nat
        BY <2>7
      <4> HIDE DEF new, target
      <4>3. /\ new(s) \in Row /\ new(s) # NoRow /\ new(s).position = place(s)
            /\ new(s).column = row[s].column /\ new(s).parent = row[s].parent
        BY <3>1, <4>1, <4>2, PlacedTypes
      <4> QED
        BY <3>2, <4>3
    <3>3. CASE s \in source \ target
      <4>1. new(s) = [row[s] EXCEPT !.position = rank(s)]
        BY <2>14, <3>3
      <4>2. rank(s) \in Nat
        BY <2>7
      <4> HIDE DEF new, target, source
      <4>3. /\ new(s) \in Row /\ new(s) # NoRow /\ new(s).position = rank(s)
            /\ new(s).column = row[s].column /\ new(s).parent = row[s].parent
        BY <3>1, <4>1, <4>2, PlacedTypes
      <4> QED
        BY <3>3, <4>3
    <3>4. CASE s \notin source \cup target
      <4>1. new(s) = row[s]
        BY <2>14, <3>4
      <4> HIDE DEF new
      <4> QED
        BY <2>14, <3>1, <3>4, <4>1
    <3> QED
      BY <3>2, <3>3, <3>4
  <2>15. ASSUME NEW s \in Task, row[s] = NoRow PROVE new(s) = NoRow
    BY <2>2, <2>8, <2>15
  <2> HIDE DEF new
  <2>16. \A s \in Task : /\ row'[s] = new(s)
                         /\ new(s) \in Row \cup {NoRow}
                         /\ new(s) = NoRow <=> row[s] = NoRow
    BY <2>1, <2>8, <2>12, <2>13, <2>14, <2>15
  <2>17. row' \in [Task -> Row \cup {NoRow}]
    BY <2>1, <2>16
  <2>18. Reparents(r)
    BY <1>3, <2>8, <2>12, <2>13, <2>14, <2>16 DEF Reparents, Tasks
  <2>19. Numbers(r, asked, last)
    <3>1. row'[t].column = r.target /\ row'[t].position = last
      BY <2>8, <2>12, <2>13, <2>16
    <3>2. ASSUME NEW s \in Tasks \ {t}
          PROVE  /\ row'[s].column = row[s].column
                 /\ s \in target => row'[s].position = place(s)
                 /\ s \in source \ target => row'[s].position = rank(s)
                 /\ s \notin source \cup target => row'[s].position = row[s].position
      BY <2>14, <2>16 DEF Tasks
    <3> QED
      BY <1>3, <2>10, <3>1, <3>2 DEF Numbers, place, rank
  <2> QED
    BY <1>0, <2>6, <2>9, <2>17, <2>18, <2>19
<1> QED
  BY <1>2, <1>3
-----------------------------------------------------------------------------
LEMMA TypesInit == Init => TypeInv
  BY DEF Init, TypeInv, TypeOK, Staged, NoRows

LEMMA TypesStep == TypeInv /\ [Next]_vars => TypeInv'
<1> SUFFICES ASSUME TypeInv, [Next]_vars PROVE TypeInv'
  OBVIOUS
<1>0. TypeOK
  BY DEF TypeInv
<1>1. CASE UNCHANGED vars
  BY <1>1 DEF TypeInv, TypeOK, Staged, vars
<1>2. ASSUME NEW p \in Request, NEW x \in InProgress \cup {Idle}, Become(p, x),
             x # Idle => Stages(x), UNCHANGED <<row, used>>
      PROVE  TypeInv'
  BY <1>0, <1>2, TypesKept DEF TypeOK
<1>3. ASSUME NEW p \in Request, BeginUpdate(p) PROVE TypeInv'
  <2>1. UNCHANGED <<row, used>>
    BY <1>3 DEF BeginUpdate
  <2> QED
    BY <1>2, <1>3, <2>1, BeginStep
<1>4. ASSUME NEW p \in Request, Walk(p) PROVE TypeInv'
  <2>1. UNCHANGED <<row, used>>
    BY <1>4 DEF Walk
  <2> QED
    BY <1>2, <1>4, <2>1, WalkStep
<1>5. ASSUME NEW p \in Request, LockColumn(p) PROVE TypeInv'
  <2>1. UNCHANGED <<row, used>>
    BY <1>5 DEF LockColumn
  <2> QED
    BY <1>2, <1>5, <2>1, LockStep
<1>6. ASSUME NEW p \in Request, InsertTask(p) PROVE TypeInv'
  BY <1>6, InsertStep, TypesKept
<1>7. ASSUME NEW p \in Request, UpdateTask(p) PROVE TypeInv'
  <2>1. used' \subseteq Task
    BY <1>0, <1>7, UpdateStep DEF TypeOK
  <2> QED
    BY <1>7, <2>1, UpdateStep, TypesKept
<1>8. ASSUME NEW p \in Request, SelectRows(p) PROVE TypeInv'
  <2>1. UNCHANGED <<row, used>>
    BY <1>8 DEF SelectRows
  <2> QED
    BY <1>2, <1>8, <2>1, SelectStep
<1>9. ASSUME NEW p \in Request, MoveTask(p) PROVE TypeInv'
  <2>1. used' \subseteq Task
    BY <1>0, <1>9, MoveStep DEF TypeOK
  <2> QED
    BY <1>9, <2>1, MoveStep, TypesKept
<1>10. ASSUME NEW p \in Request, RequestFails(p) PROVE TypeInv'
  BY <1>2, <1>10 DEF RequestFails, Finish
<1>11. ASSUME NEW t \in Task, DeleteTask(t) PROVE TypeInv'
  BY <1>0, <1>11, DeleteStep DEF TypeInv, TypeOK, Staged
<1> QED
  BY <1>1, <1>3, <1>4, <1>5, <1>6, <1>7, <1>8, <1>9, <1>10, <1>11 DEF Next

LEMMA TypesHold == Spec => []TypeInv
  BY TypesInit, TypesStep, PTL DEF Spec

\* Every variable stays in its type, whatever runs beside what: no shift, no move
\* and no row written back gives a task a place that is not a number.
THEOREM TypeCorrect == Spec => []TypeOK
<1>1. TypeInv => TypeOK
  BY DEF TypeInv
<1> QED
  BY <1>1, TypesHold, PTL

-----------------------------------------------------------------------------
\* Requests are in progress together only where they may be, whatever they do.
LEMMA AllowedKept ==
    ASSUME TypeOK, Allowed, NEW p \in Request, NEW x \in InProgress \cup {Idle}, Become(p, x),
           x # Idle => \/ req[p] # Idle /\ x.op = req[p].op
                       \/ MayBegin(p, x.op)
    PROVE  Allowed'
<1>1. ASSUME NEW o \in Request, NEW q \in Request, o # q, req'[o] # Idle, req'[q] # Idle
      PROVE  {req'[o].op, req'[q].op} \in Together
  <2>1. CASE o # p /\ q # p
    BY <1>1, <2>1, BecomeTypes DEF Allowed
  <2>2. CASE o = p
    BY <1>1, <2>2, BecomeTypes DEF Allowed, MayBegin
  <2>3. CASE q = p
    <3>1. req'[q] = x /\ x # Idle /\ req'[o] = req[o] /\ req[o] # Idle
      BY <1>1, <2>3, BecomeTypes
    <3>2. {x.op, req[o].op} \in Together
      BY <1>1, <2>3, <3>1 DEF Allowed, MayBegin
    <3>3. {x.op, req[o].op} = {req[o].op, x.op}
      OBVIOUS
    <3> QED
      BY <3>1, <3>2, <3>3
  <2> QED
    BY <2>1, <2>2, <2>3
<1> QED
  BY <1>1 DEF Allowed

LEMMA AllowedStep == TypeInv /\ Allowed /\ [Next]_vars => Allowed'
<1> SUFFICES ASSUME TypeInv, Allowed, [Next]_vars PROVE Allowed'
  OBVIOUS
<1>0. TypeOK
  BY DEF TypeInv
<1>1. CASE UNCHANGED vars
  BY <1>1 DEF Allowed, vars
<1>2. ASSUME NEW p \in Request, Become(p, Idle) PROVE Allowed'
  BY <1>0, <1>2, AllowedKept
<1>3. ASSUME NEW p \in Request, BeginUpdate(p) PROVE Allowed'
  <2>1. MayBegin(p, "Update")
    BY <1>3 DEF BeginUpdate
  <2> QED
    BY <1>0, <1>3, <2>1, BeginStep, AllowedKept
<1>4. ASSUME NEW p \in Request, Walk(p) PROVE Allowed'
  BY <1>0, <1>2, <1>4, WalkStep, AllowedKept
<1>5. ASSUME NEW p \in Request, LockColumn(p) PROVE Allowed'
  <2>1. MayBegin(p, "Create")
    BY <1>5 DEF LockColumn
  <2> QED
    BY <1>0, <1>5, <2>1, LockStep, AllowedKept
<1>6. ASSUME NEW p \in Request, SelectRows(p) PROVE Allowed'
  <2>1. /\ req[p] # Idle /\ req[p].op = "Update"
        /\ \E x \in InProgress : Become(p, x) /\ x.op = "Update"
    BY <1>6, SelectStep
  <2>2. PICK x \in InProgress : Become(p, x) /\ x.op = req[p].op
    BY <2>1
  <2> QED
    BY <1>0, <2>1, <2>2, AllowedKept
<1>7. ASSUME NEW p \in Request, InsertTask(p) \/ UpdateTask(p) \/ MoveTask(p) \/ RequestFails(p)
      PROVE  Allowed'
  BY <1>2, <1>7, InsertStep, UpdateStep, MoveStep DEF RequestFails, Finish
<1>8. ASSUME NEW t \in Task, DeleteTask(t) PROVE Allowed'
  BY <1>0, <1>8, DeleteStep DEF Allowed
<1> QED
  BY <1>1, <1>3, <1>4, <1>5, <1>6, <1>7, <1>8 DEF Next
-----------------------------------------------------------------------------
\* Rows, and their parents, have ids that are used.
LEMMA RowsStep == TypeInv /\ RowsUsed /\ [Next]_vars => RowsUsed'
<1> SUFFICES ASSUME TypeInv, RowsUsed, [Next]_vars PROVE RowsUsed'
  OBVIOUS
<1>0. TypeOK
  BY DEF TypeInv
<1>1. CASE UNCHANGED <<row, used>>
  BY <1>1 DEF RowsUsed, Tasks
<1>2. Valid \subseteq used \cup {NoTask}
  BY DEF Valid, RowsUsed
<1>3. ASSUME NEW p \in Request, InsertTask(p) PROVE RowsUsed'
  <2>1. CASE UNCHANGED <<row, used>>
    BY <1>1, <2>1
  <2>2. ASSUME NEW t \in Task \ used, Adds(req[p], t) PROVE RowsUsed'
    BY <1>2, <2>2 DEF Adds, RowsUsed, Tasks
  <2> QED
    BY <1>3, <2>1, <2>2, InsertStep
<1>4. ASSUME NEW p \in Request, UpdateTask(p) \/ MoveTask(p) PROVE RowsUsed'
  <2>1. used' = used /\ Reparents(req[p])
    BY <1>4, UpdateStep, MoveStep
  <2> QED
    BY <1>2, <2>1 DEF Reparents, RowsUsed, Tasks
<1>5. ASSUME NEW t \in Task, DeleteTask(t) PROVE RowsUsed'
  BY <1>0, <1>5, DeleteStep DEF RowsUsed, Tasks
<1>6. ASSUME NEW p \in Request,
             BeginUpdate(p) \/ Walk(p) \/ LockColumn(p) \/ SelectRows(p) \/ RequestFails(p)
      PROVE  UNCHANGED <<row, used>>
  BY <1>6 DEF BeginUpdate, Walk, LockColumn, SelectRows, RequestFails
<1> QED
  BY <1>1, <1>3, <1>4, <1>5, <1>6 DEF Next, vars

\* A step that changes no parent of a task there was, but where that parent goes.
Quiet ==
    \A t \in used :
       /\ row[t] = NoRow => row'[t] = NoRow
       /\ ParentOf'[t] \in {ParentOf[t], NoTask}
       /\ row'[t] # NoRow /\ ParentOf'[t] # ParentOf[t] =>
             ParentOf[t] \in Task /\ row'[ParentOf[t]] = NoRow

\* What a request knows of the trees stays so beside such a step.
LEMMA TreeKeeps ==
    ASSUME TypeInv, RowsUsed, NEW o \in Request, req[o] # Idle, TreeKnown(req[o]),
           used \subseteq used', used' \subseteq Task, req'[o] = req[o],
           req[o].op = "Update" => Quiet
    PROVE  (TreeKnown(req[o]))'
<1>0. TypeOK /\ used \subseteq Task
  BY DEF TypeInv, TypeOK
<1>1. req[o].op = "Create" => req'[o].mine.parent \in used' \cup {NoTask}
  BY DEF TreeKnown
<1>2. ASSUME req[o].op = "Update", req[o].at = "walk" PROVE (Climbed(req[o]))'
  <2>1. Climbed(req[o]) /\ Quiet
    BY <1>2 DEF TreeKnown
  <2>2. req[o].seen \subseteq used
    BY <2>1 DEF Climbed
  <2>3. \A v \in used : ParentOf'[v] \in {ParentOf[v], NoTask}
    BY <2>1 DEF Quiet
  <2>4. \A v \in req[o].seen \ {req[o].task} :
           ParentOf'[v] \in (req[o].seen \ {req[o].task}) \cup {req[o].walk, NoTask}
    BY <2>1, <2>2, <2>3 DEF Climbed
  <2> QED
    BY <2>1, <2>2, <2>4 DEF Climbed
<1>3. ASSUME req[o].op = "Update", req[o].at # "walk" PROVE (Sound(req[o]))'
  <2> DEFINE t == req[o].task
             q == req[o].mine.parent
  <2>1. Sound(req[o]) /\ Quiet /\ t \in used
    BY <1>3 DEF TreeKnown
  <2>2. q \in used' \cup {NoTask}
    BY <2>1 DEF Sound
  <2>3. CASE q \notin Valid
    <3>1. q \in used /\ row[q] = NoRow
      BY <1>0, <2>1, <2>3 DEF Sound, Valid, Tasks
    <3>2. row'[q] = NoRow /\ q \in Task
      BY <1>0, <2>1, <3>1 DEF Quiet
    <3>3. q \notin Valid'
      BY <3>2, NothingAssumption DEF Valid, Tasks
    <3> QED
      BY <2>2, <3>3 DEF Sound
  <2>4. CASE row[t] = NoRow
    <3>1. row'[t] = NoRow
      BY <2>1, <2>4 DEF Quiet
    <3> QED
      BY <2>2, <3>1 DEF Sound
  <2>5. CASE ParentOf[t] = q
    <3>1. CASE ParentOf'[t] = q
      BY <2>2, <3>1 DEF Sound
    <3>2. CASE row'[t] = NoRow
      BY <2>2, <3>2 DEF Sound
    <3>3. CASE ParentOf'[t] # q /\ row'[t] # NoRow
      <4>1. q \in Task /\ row'[q] = NoRow
        BY <2>1, <2>5, <3>3 DEF Quiet
      <4>2. q \notin Valid'
        BY <4>1, NothingAssumption DEF Valid, Tasks
      <4> QED
        BY <2>2, <4>2 DEF Sound
    <3> QED
      BY <3>1, <3>2, <3>3
  <2>6. ASSUME NEW A \in SUBSET used, Leads(A, q, t) PROVE (Sound(req[o]))'
    <3>1. \A a \in A : ParentOf'[a] \in {ParentOf[a], NoTask}
      BY <2>1 DEF Quiet
    <3>2. /\ q \in A \cup {NoTask} /\ t \notin A
          /\ \A a \in A : ParentOf'[a] \in A \cup {NoTask}
      BY <2>6, <3>1 DEF Leads
    <3>3. A \in SUBSET used'
      OBVIOUS
    <3>4. \E B \in SUBSET used' : /\ q \in B \cup {NoTask} /\ t \notin B
                                  /\ \A a \in B : ParentOf'[a] \in B \cup {NoTask}
      BY <3>2, <3>3
    <3> QED
      BY <2>2, <3>4 DEF Sound, Leads
  <2> QED
    BY <2>1, <2>3, <2>4, <2>5, <2>6 DEF Sound
<1>4. req[o].op = "Update" => req[o].task \in used'
  BY DEF TreeKnown
<1> QED
  BY <1>1, <1>2, <1>3, <1>4 DEF TreeKnown

\* A request takes its next step: the others know what they knew.
LEMMA TreesKept ==
    ASSUME TypeInv, RowsUsed, TreesKnown, NEW p \in Request, NEW x \in InProgress \cup {Idle},
           Become(p, x), used \subseteq used', used' \subseteq Task,
           \A o \in Request \ {p} : req[o] # Idle /\ req[o].op = "Update" => Quiet,
           req'[p] # Idle => (TreeKnown(req[p]))'
    PROVE  TreesKnown'
<1> SUFFICES ASSUME NEW o \in Request, req'[o] # Idle PROVE (TreeKnown(req[o]))'
  BY DEF TreesKnown
<1>1. CASE o = p
  BY <1>1
<1>2. CASE o # p
  <2>1. req'[o] = req[o]
    BY <1>2, BecomeTypes DEF TypeInv
  <2>2. req[o] # Idle /\ TreeKnown(req[o])
    BY <2>1 DEF TreesKnown
  <2>3. req[o].op = "Update" => Quiet
    BY <1>2, <2>2
  <2> QED
    BY <2>1, <2>2, <2>3, TreeKeeps
<1> QED
  BY <1>1, <1>2
-----------------------------------------------------------------------------
\* To lose a parent closes no circle.
LEMMA LosingParents ==
    ASSUME NoCycles, \A t \in Task : ParentOf'[t] \in {ParentOf[t], NoTask}
    PROVE  NoCycles'
<1> SUFFICES ASSUME NEW S \in SUBSET Task, S # {} PROVE \E t \in S : ParentOf'[t] \notin S
  BY DEF NoCycles
<1>1. PICK t \in S : ParentOf[t] \notin S
  BY DEF NoCycles
<1>2. NoTask \notin S
  BY NothingAssumption
<1> QED
  BY <1>1, <1>2

\* Nor does it to get a parent that has ancestors without the task: a set of tasks
\* that has one of them has one whose parent is not in it, as before; a set that has
\* none of them, but has the task, has not its parent.
LEMMA ClimbingParents ==
    ASSUME NoCycles, NEW t \in Task, NEW A \in SUBSET Task,
           Leads(A, ParentOf'[t], t),
           \A s \in Task \ {t} : ParentOf'[s] = ParentOf[s]
    PROVE  NoCycles'
<1> SUFFICES ASSUME NEW S \in SUBSET Task, S # {} PROVE \E s \in S : ParentOf'[s] \notin S
  BY DEF NoCycles
<1>0. /\ ParentOf'[t] \in A \cup {NoTask} /\ t \notin A /\ NoTask \notin S
      /\ \A a \in A : ParentOf[a] \in A \cup {NoTask}
  BY NothingAssumption DEF Leads
<1>1. CASE S \cap A # {}
  <2>1. PICK s \in S \cap A : ParentOf[s] \notin S \cap A
    BY <1>1 DEF NoCycles
  <2>2. ParentOf'[s] = ParentOf[s] /\ ParentOf[s] \in A \cup {NoTask}
    BY <1>0
  <2> QED
    BY <1>0, <2>1, <2>2
<1>2. CASE S \cap A = {} /\ t \in S
  BY <1>0, <1>2
<1>3. CASE S \cap A = {} /\ t \notin S
  BY <1>3 DEF NoCycles
<1> QED
  BY <1>1, <1>2, <1>3

-----------------------------------------------------------------------------
\* A step of a request that leaves the rows.
LEMMA LookingKeepsTrees ==
    ASSUME TreeInv, TypeInv', Allowed', RowsUsed', NEW p \in Request,
           NEW x \in InProgress \cup {Idle}, Become(p, x), UNCHANGED <<row, used>>,
           req'[p] # Idle => (TreeKnown(req[p]))'
    PROVE  TreeInv'
<1>0. TypeInv /\ RowsUsed /\ TreesKnown /\ NoCycles
  BY DEF TreeInv
<1>1. ParentOf' = ParentOf
  BY DEF ParentOf
<1>2. Quiet
  BY <1>1 DEF Quiet
<1>3. used' \subseteq Task
  BY <1>0 DEF TypeInv, TypeOK
<1>4. TreesKnown'
  BY <1>0, <1>2, <1>3, TreesKept
<1>5. NoCycles'
  BY <1>0, <1>1 DEF NoCycles
<1> QED
  BY <1>4, <1>5 DEF TreeInv

\* An update begins.
LEMMA BeginTrees ==
    ASSUME TreeInv, TypeInv', Allowed', RowsUsed', NEW p \in Request, BeginUpdate(p)
    PROVE  TreeInv'
<1>0. TypeInv /\ RowsUsed
  BY DEF TreeInv
<1>1. PICK x \in InProgress :
         /\ Become(p, x) /\ x # Idle
         /\ x.op = "Update" /\ x.at \in {"walk", "write"} /\ x.task \in Tasks
         /\ x.at = "walk" => x.seen = {x.task} /\ x.walk = x.mine.parent
         /\ x.at = "write" => x.mine.parent \in {NoTask, row[x.task].parent}
  BY <1>0, BeginStep
<1>2. UNCHANGED <<row, used>>
  BY DEF BeginUpdate
<1>3. req'[p] = x
  BY <1>0, <1>1, BecomeTypes DEF TypeInv
<1>4. x.task \in used /\ row[x.task].parent \in used \cup {NoTask} /\ x.task \in Task /\ row[x.task] # NoRow
  BY <1>0, <1>1 DEF RowsUsed, Tasks
<1>5. x.at = "walk" => (Climbed(req[p]))'
  BY <1>1, <1>2, <1>3, <1>4 DEF Climbed
<1>6. x.at = "write" => (Sound(req[p]))'
  <2> SUFFICES ASSUME x.at = "write" PROVE (Sound(req[p]))'
    OBVIOUS
  <2>1. x.mine.parent \in used \cup {NoTask}
    BY <1>1, <1>4
  <2>2. CASE x.mine.parent = NoTask
    <3>1. Leads({}, x.mine.parent, x.task)
      BY <2>2 DEF Leads
    <3>2. (Leads({}, req[p].mine.parent, req[p].task))'
      BY <1>3, <3>1 DEF Leads
    <3>3. {} \in SUBSET used'
      OBVIOUS
    <3> QED
      BY <1>2, <1>3, <2>1, <3>2, <3>3 DEF Sound
  <2>3. CASE x.mine.parent = row[x.task].parent
    <3>1. ParentOf'[x.task] = x.mine.parent
      BY <1>2, <1>4, <2>3 DEF ParentOf
    <3> QED
      BY <1>2, <1>3, <2>1, <3>1 DEF Sound
  <2> QED
    BY <1>1, <2>2, <2>3
<1>7. (TreeKnown(req[p]))'
  BY <1>1, <1>2, <1>3, <1>4, <1>5, <1>6 DEF TreeKnown
<1> QED
  BY <1>1, <1>2, <1>7, LookingKeepsTrees

\* An update looks at an ancestor.  At the last one it has them all, the task not
\* among them.
LEMMA WalkTrees ==
    ASSUME TreeInv, TypeInv', Allowed', RowsUsed', NEW p \in Request, Walk(p)
    PROVE  TreeInv'
<1>0. TypeInv /\ RowsUsed /\ TreesKnown
  BY DEF TreeInv
<1>1. UNCHANGED <<row, used>>
  BY DEF Walk
<1>2. CASE Become(p, Idle)
  <2>1. req'[p] = Idle
    BY <1>0, <1>2, BecomeTypes DEF TypeInv
  <2> QED
    BY <1>1, <1>2, <2>1, LookingKeepsTrees
<1>3. CASE ~Become(p, Idle)
  <2> DEFINE s == req[p].walk
             t == req[p].task
             below == req[p].seen \ {t}
  <2>1. /\ req[p] # Idle /\ req[p].op = "Update" /\ req[p].at = "walk" /\ s \in Tasks \ req[p].seen
        /\ s \in Task /\ t \in Task
    BY <1>0, <1>3, WalkStep
  <2>2. PICK x \in InProgress :
           /\ Become(p, x) /\ x # Idle
           /\ x.op = "Update" /\ x.task = t /\ x.mine = req[p].mine
           /\ x.walk = row[s].parent
           /\ \/ x.at = "write" /\ x.walk = NoTask
              \/ x.at = "walk" /\ x.seen = req[p].seen \cup {s}
    BY <1>0, <1>3, WalkStep
  <2>3. req'[p] = x
    BY <1>0, <2>2, BecomeTypes DEF TypeInv
  <2>4. t \in used /\ Climbed(req[p])
    BY <1>0, <2>1 DEF TreesKnown, TreeKnown
  <2>5. /\ t \in req[p].seen /\ req[p].seen \subseteq used
        /\ x.mine.parent \in below \cup {s}
        /\ \A v \in below : ParentOf[v] \in below \cup {s, NoTask}
    BY <2>2, <2>4 DEF Climbed
  <2>6. s \in used /\ ParentOf[s] = x.walk /\ s # t
    BY <1>0, <2>1, <2>2, <2>5 DEF RowsUsed, ParentOf, Tasks
  <2>7. ParentOf' = ParentOf
    BY <1>1 DEF ParentOf
  <2> HIDE DEF s, t
  <2>8. CASE x.at = "walk" /\ x.seen = req[p].seen \cup {s}
    <3>1. x.seen \ {t} = below \cup {s}
      BY <2>6, <2>8
    <3>2. /\ t \in x.seen /\ x.seen \subseteq used
          /\ x.mine.parent \in (x.seen \ {t}) \cup {x.walk}
          /\ \A v \in x.seen \ {t} : ParentOf[v] \in (x.seen \ {t}) \cup {x.walk, NoTask}
      BY <2>5, <2>6, <2>8, <3>1
    <3>3. (Climbed(req[p]))'
      BY <1>1, <2>2, <2>3, <2>7, <3>2 DEF Climbed
    <3>4. (TreeKnown(req[p]))'
      BY <1>1, <2>2, <2>3, <2>4, <2>8, <3>3 DEF TreeKnown
    <3> QED
      BY <1>1, <2>2, <3>4, LookingKeepsTrees
  <2>9. CASE x.at = "write" /\ x.walk = NoTask
    <3>0. PICK A : A = below \cup {s}
      OBVIOUS
    <3>1. /\ A \in SUBSET used /\ x.mine.parent \in A /\ t \notin A
          /\ \A a \in A : ParentOf[a] \in A \cup {NoTask}
      BY <2>5, <2>6, <2>9, <3>0
    <3>2. (Leads(A, req[p].mine.parent, req[p].task))'
      BY <2>2, <2>3, <2>7, <3>1 DEF Leads
    <3>3. (Sound(req[p]))'
      <4>1. A \in SUBSET used' /\ x.mine.parent \in used' \cup {NoTask}
        BY <1>1, <3>1
      <4> QED
        BY <2>3, <3>2, <4>1 DEF Sound
    <3>4. (TreeKnown(req[p]))'
      BY <1>1, <2>2, <2>3, <2>4, <2>9, <3>3 DEF TreeKnown
    <3> QED
      BY <1>1, <2>2, <3>4, LookingKeepsTrees
  <2> QED
    BY <2>2, <2>8, <2>9
<1> QED
  BY <1>2, <1>3
\* A creation locks its column, and a move its rows.
LEMMA LockTrees ==
    ASSUME TreeInv, TypeInv', Allowed', RowsUsed', NEW p \in Request, LockColumn(p)
    PROVE  TreeInv'
<1>0. TypeInv /\ RowsUsed
  BY DEF TreeInv
<1>1. PICK x \in InProgress :
         Become(p, x) /\ x # Idle /\ x.op = "Create" /\ x.mine.parent \in Valid
  BY <1>0, LockStep
<1>2. UNCHANGED <<row, used>>
  BY DEF LockColumn
<1>3. req'[p] = x
  BY <1>0, <1>1, BecomeTypes DEF TypeInv
<1>4. x.mine.parent \in used \cup {NoTask}
  BY <1>0, <1>1 DEF RowsUsed, Valid
<1>5. (TreeKnown(req[p]))'
  BY <1>1, <1>2, <1>3, <1>4 DEF TreeKnown
<1> QED
  BY <1>1, <1>2, <1>5, LookingKeepsTrees

LEMMA SelectTrees ==
    ASSUME TreeInv, TypeInv', Allowed', RowsUsed', NEW p \in Request, SelectRows(p)
    PROVE  TreeInv'
<1>0. TypeInv /\ TreesKnown
  BY DEF TreeInv
<1>1. PICK x \in InProgress :
         /\ Become(p, x) /\ x # Idle /\ x.op = "Update" /\ x.at = "commit"
         /\ x.task = req[p].task /\ x.mine = req[p].mine
  BY <1>0, SelectStep
<1>2. UNCHANGED <<row, used>>
  BY DEF SelectRows
<1>3. req'[p] = x
  BY <1>0, <1>1, BecomeTypes DEF TypeInv
<1>4. req[p].task \in used /\ Sound(req[p])
  BY <1>0, SelectStep DEF TreesKnown, TreeKnown
<1>5. ParentOf' = ParentOf /\ Valid' = Valid
  BY <1>2 DEF ParentOf, Valid, Tasks
<1>6. (Sound(req[p]))'
  BY <1>1, <1>2, <1>3, <1>4, <1>5 DEF Sound, Leads
<1>7. (TreeKnown(req[p]))'
  BY <1>1, <1>2, <1>3, <1>4, <1>6 DEF TreeKnown
<1> QED
  BY <1>1, <1>2, <1>7, LookingKeepsTrees

\* A new task is nobody's parent, so its own may be any that is there.
LEMMA InsertTrees ==
    ASSUME TreeInv, TypeInv', Allowed', RowsUsed', NEW p \in Request, InsertTask(p)
    PROVE  TreeInv'
<1>0. TypeInv /\ TypeOK /\ RowsUsed /\ TreesKnown /\ NoCycles
  BY DEF TreeInv, TypeInv
<1>1. Become(p, Idle) /\ req'[p] = Idle
  BY <1>0, InsertStep, BecomeTypes
<1>2. CASE UNCHANGED <<row, used>>
  BY <1>1, <1>2, LookingKeepsTrees
<1>3. ASSUME NEW t \in Task \ used, Adds(req[p], t) PROVE TreeInv'
  <2>1. \A s \in Task \ {t} : ParentOf'[s] = ParentOf[s] /\ (row'[s] = NoRow <=> row[s] = NoRow)
    BY <1>3 DEF Adds, ParentOf
  <2>2. used \subseteq Task /\ used' = used \cup {t} /\ used' \subseteq Task
    BY <1>0, <1>3 DEF TypeOK, Adds
  <2>3. Quiet
    BY <2>1, <2>2 DEF Quiet
  <2>4. TreesKnown'
    BY <1>0, <1>1, <2>2, <2>3, TreesKept
  <2>5. ParentOf'[t] \in used \cup {NoTask}
    <3>1. ParentOf'[t] = req[p].mine.parent
      BY <1>3 DEF Adds, ParentOf
    <3>2. Valid \subseteq used \cup {NoTask}
      BY <1>0 DEF RowsUsed, Valid
    <3> QED
      BY <1>3, <3>1, <3>2 DEF Adds
  <2>6. \A a \in used : ParentOf[a] \in used \cup {NoTask}
    BY <1>0, <2>2 DEF RowsUsed, ParentOf, Tasks
  <2>7. Leads(used, ParentOf'[t], t)
    BY <2>5, <2>6 DEF Leads
  <2>8. NoCycles'
    BY <1>0, <2>1, <2>2, <2>7, ClimbingParents
  <2> QED
    BY <2>4, <2>8 DEF TreeInv
<1> QED
  BY <1>0, <1>2, <1>3, InsertStep

\* An update writes the parent that it has checked, and nobody else has changed a
\* parent since.
LEMMA WriteTrees ==
    ASSUME TreeInv, TypeInv', Allowed', RowsUsed', {"Update"} \notin Together,
           NEW p \in Request, req[p] # Idle, req[p].op = "Update", req[p].at # "walk",
           Become(p, Idle), used' = used, Reparents(req[p])
    PROVE  TreeInv'
<1>0. TypeInv /\ TypeOK /\ Allowed /\ RowsUsed /\ TreesKnown /\ NoCycles
  BY DEF TreeInv, TypeInv
<1> DEFINE t == req[p].task
           q == req[p].mine.parent
<1>1. req'[p] = Idle
  BY <1>0, BecomeTypes
<1>2. \A o \in Request \ {p} : ~(req[o] # Idle /\ req[o].op = "Update")
  <2> SUFFICES ASSUME NEW o \in Request \ {p}, req[o] # Idle, req[o].op = "Update" PROVE FALSE
    OBVIOUS
  <2>1. {req[p].op, req[o].op} \in Together
    BY <1>0 DEF Allowed
  <2>2. {req[p].op, req[o].op} = {"Update"}
    OBVIOUS
  <2> QED
    BY <2>1, <2>2
<1>3. used' \subseteq Task
  BY <1>0 DEF TypeOK
<1>4. TreesKnown'
  BY <1>0, <1>1, <1>2, <1>3, TreesKept
<1>5. CASE \A s \in Tasks : row'[s].parent = row[s].parent
  <2>1. \A s \in Task : ParentOf'[s] = ParentOf[s]
    BY <1>5 DEF Reparents, ParentOf, Tasks
  <2>2. NoCycles'
    BY <1>0, <2>1, LosingParents
  <2> QED
    BY <1>4, <2>2 DEF TreeInv
<1>6. CASE /\ q \in Valid /\ t \in Tasks /\ row'[t].parent = q
           /\ \A s \in Tasks \ {t} : row'[s].parent = row[s].parent
  <2>1. t \in Task /\ row[t] # NoRow /\ ParentOf'[t] = q
    BY <1>6 DEF Reparents, ParentOf, Tasks
  <2>2. \A s \in Task \ {t} : ParentOf'[s] = ParentOf[s]
    BY <1>6 DEF Reparents, ParentOf, Tasks
  <2>3. Sound(req[p])
    BY <1>0 DEF TreesKnown, TreeKnown
  <2>4. CASE ParentOf[t] = q
    <3>1. \A s \in Task : ParentOf'[s] = ParentOf[s]
      BY <2>1, <2>2, <2>4
    <3>2. NoCycles'
      BY <1>0, <3>1, LosingParents
    <3> QED
      BY <1>4, <3>2 DEF TreeInv
  <2>5. ASSUME NEW A \in SUBSET used, Leads(A, q, t) PROVE TreeInv'
    <3>1. A \in SUBSET Task
      BY <1>0 DEF TypeOK
    <3>2. Leads(A, ParentOf'[t], t)
      BY <2>1, <2>5
    <3>3. NoCycles'
      BY <1>0, <2>1, <2>2, <3>1, <3>2, ClimbingParents
    <3> QED
      BY <1>4, <3>3 DEF TreeInv
  <2> QED
    BY <1>6, <2>1, <2>3, <2>4, <2>5 DEF Sound
<1> QED
  BY <1>5, <1>6 DEF Reparents

\* A task is deleted, with its children.
LEMMA DeleteTrees ==
    ASSUME TreeInv, TypeInv', Allowed', RowsUsed', NEW t \in Task, DeleteTask(t)
    PROVE  TreeInv'
<1>0. TypeInv /\ TypeOK /\ RowsUsed /\ TreesKnown /\ NoCycles
  BY DEF TreeInv, TypeInv
<1>1. /\ UNCHANGED <<used, req>>
      /\ \A s \in Task : row'[s] # NoRow =>
            /\ row[s] # NoRow
            /\ \/ row'[s].parent = row[s].parent
               \/ /\ row'[s].parent = NoTask
                  /\ row[s].parent \in Task /\ row'[row[s].parent] = NoRow
  BY <1>0, DeleteStep
<1>2. ASSUME NEW s \in Task
      PROVE  /\ row[s] = NoRow => row'[s] = NoRow
             /\ ParentOf'[s] \in {ParentOf[s], NoTask}
             /\ row'[s] # NoRow /\ ParentOf'[s] # ParentOf[s] =>
                   ParentOf[s] \in Task /\ row'[ParentOf[s]] = NoRow
  BY <1>1 DEF ParentOf
<1>3. used \subseteq Task
  BY <1>0 DEF TypeOK
<1>4. Quiet
  BY <1>2, <1>3 DEF Quiet
<1>5. NoCycles'
  BY <1>0, <1>2, LosingParents
<1>6. TreesKnown'
  <2> SUFFICES ASSUME NEW o \in Request, req'[o] # Idle PROVE (TreeKnown(req[o]))'
    BY DEF TreesKnown
  <2> QED
    BY <1>0, <1>1, <1>3, <1>4, TreeKeeps DEF TreesKnown
<1> QED
  BY <1>5, <1>6 DEF TreeInv

LEMMA TreesStep ==
    ASSUME {"Update"} \notin Together
    PROVE  TreeInv /\ [Next]_vars => TreeInv'
<1> SUFFICES ASSUME TreeInv, [Next]_vars PROVE TreeInv'
  OBVIOUS
<1>0. TypeInv /\ TypeInv' /\ Allowed' /\ RowsUsed'
  BY TypesStep, AllowedStep, RowsStep DEF TreeInv
<1>1. CASE UNCHANGED vars
  <2>1. ParentOf' = ParentOf /\ Valid' = Valid
    BY <1>1 DEF ParentOf, Valid, Tasks, vars
  <2> QED
    BY <1>0, <1>1, <2>1
    DEF TreeInv, TreesKnown, TreeKnown, Climbed, Sound, Leads, NoCycles, vars
<1>2. ASSUME NEW p \in Request, UpdateTask(p) PROVE TreeInv'
  BY <1>0, <1>2, UpdateStep, WriteTrees
<1>3. ASSUME NEW p \in Request, MoveTask(p) PROVE TreeInv'
  BY <1>0, <1>3, MoveStep, WriteTrees
<1>4. ASSUME NEW p \in Request, RequestFails(p) PROVE TreeInv'
  <2>1. Become(p, Idle) /\ UNCHANGED <<row, used>>
    BY <1>4 DEF RequestFails, Finish
  <2>2. req'[p] = Idle
    BY <1>0, <2>1, BecomeTypes DEF TypeInv
  <2> QED
    BY <1>0, <2>1, <2>2, LookingKeepsTrees
<1> QED
  BY <1>0, <1>1, <1>2, <1>3, <1>4, BeginTrees, WalkTrees, LockTrees, SelectTrees,
     InsertTrees, DeleteTrees DEF Next

LEMMA TreesInit == Init => TreeInv
<1> SUFFICES ASSUME Init PROVE TreeInv
  OBVIOUS
<1>1. ParentOf = [t \in Task |-> NoTask] /\ Tasks = {}
  BY DEF Init, NoRows, ParentOf, Tasks
<1>2. NoCycles
  BY <1>1, NothingAssumption DEF NoCycles
<1> QED
  BY <1>1, <1>2, TypesInit DEF Init, TreeInv, Allowed, RowsUsed, TreesKnown

\* No task is its own ancestor, though an update walks up one SELECT at a time and
\* writes last, while tasks are created and deleted: if no two updates are in
\* progress at one time.
THEOREM TreesStayTrees ==
    ASSUME {"Update"} \notin Together
    PROVE  Spec => []NoCycles
<1>1. Init => TreeInv
  BY TreesInit
<1>2. TreeInv /\ [Next]_vars => TreeInv'
  BY TreesStep
<1>3. TreeInv => NoCycles
  BY DEF TreeInv
<1> QED
  BY <1>1, <1>2, <1>3, PTL DEF Spec
-----------------------------------------------------------------------------
\* What was seen at a higher position in a column has a higher rank.
LEMMA RankOrder ==
    ASSUME NEW S \in SUBSET Task, NEW snap, NEW c, NEW s \in S, NEW t \in S,
           \A u \in S : snap[u] \in Row /\ snap[u].column = c,
           snap[s].position < snap[t].position
    PROVE  Rank(snap, S, s) < Rank(snap, S, t)
<1> DEFINE T(x) == {u \in S : Above(snap, u, x)}
<1>1. ASSUME NEW x \in S PROVE IsFiniteSet(T(x)) /\ Cardinality(T(x)) \in Nat
  <2>1. IsFiniteSet(S) /\ T(x) \subseteq S
    BY RankTypes
  <2> HIDE DEF T
  <2>2. IsFiniteSet(T(x))
    BY <2>1, FS_Subset
  <2> QED
    BY <2>2, FS_CardinalityType
<1>2. ASSUME NEW u \in S
      PROVE  snap[u].position \in Nat /\ snap[u].born \in Nat /\ snap[u].column \in Nat
  BY RowTypes
<1>3. snap[s].column = c /\ snap[t].column = c /\ c \in Nat
  BY <1>2
<1>4. ASSUME NEW u \in T(s) PROVE u \in T(t)
  <2>1. u \in S /\ snap[u].column = c /\ Above(snap, u, s)
    OBVIOUS
  <2>2. snap[u].position <= snap[s].position
    BY <1>2, <1>3, <2>1 DEF Above
  <2>3. snap[u].position < snap[t].position
    BY <1>2, <2>1, <2>2
  <2> QED
    BY <1>3, <2>1, <2>3 DEF Above
<1>5. s \in T(t) /\ s \notin T(s)
  BY <1>2, <1>3 DEF Above
<1>6. T(s) \subseteq T(t) /\ T(s) # T(t)
  BY <1>4, <1>5
<1> HIDE DEF T
<1>7. Cardinality(T(s)) <= Cardinality(T(t)) /\ Cardinality(T(s)) # Cardinality(T(t))
  BY <1>1, <1>6, FS_Subset
<1>8. Cardinality(T(s)) < Cardinality(T(t))
  BY <1>1, <1>7
<1> QED
  BY <1>8 DEF Rank, T

\* So tasks that were seen at distinct positions get distinct numbers, none of them
\* the one that is kept free.
LEMMA RanksDiffer ==
    ASSUME NEW S \in SUBSET Task, NEW snap, NEW c, NEW s \in S, NEW t \in S, NEW i \in Nat,
           \A u \in S : snap[u] \in Row /\ snap[u].column = c,
           snap[s].position # snap[t].position
    PROVE  /\ Rank(snap, S, s) # Rank(snap, S, t)
           /\ PlaceAround(snap, S, s, i) # PlaceAround(snap, S, t, i)
<1>1. Rank(snap, S, s) \in Nat /\ Rank(snap, S, t) \in Nat
  BY RankTypes
<1>2. snap[s].position \in Nat /\ snap[t].position \in Nat
  BY RowTypes
<1>3. Rank(snap, S, s) # Rank(snap, S, t)
  <2>1. CASE snap[s].position < snap[t].position
    <3>1. Rank(snap, S, s) < Rank(snap, S, t)
      BY <2>1, RankOrder
    <3> QED
      BY <1>1, <3>1
  <2>2. CASE snap[t].position < snap[s].position
    <3>1. Rank(snap, S, t) < Rank(snap, S, s)
      BY <2>2, RankOrder
    <3> QED
      BY <1>1, <3>1
  <2> QED
    BY <1>2, <2>1, <2>2
<1> QED
  BY <1>1, <1>3 DEF PlaceAround

LEMMA PlaceKeptFree ==
    ASSUME NEW S \in SUBSET Task, NEW snap, NEW s, NEW i \in Nat
    PROVE  PlaceAround(snap, S, s, i) # i
<1>1. Rank(snap, S, s) \in Nat
  BY RankTypes
<1> QED
  BY <1>1 DEF PlaceAround

-----------------------------------------------------------------------------
\* What a request knows of the places stays so beside a step that moves no task and
\* adds none to its column.
LEMMA PlaceKeeps ==
    ASSUME NEW o \in Request, PlaceKnown(req[o]), req'[o] = req[o],
           \A s \in Task : row'[s] # NoRow /\ row[s] = NoRow =>
               req[o].op = "Create" /\ row'[s].column # req[o].mine.column,
           \A s \in Task : row'[s] # NoRow /\ row[s] # NoRow =>
               /\ row'[s].column = row[s].column
               /\ req[o].op = "Update" => row'[s].position = row[s].position,
           req[o].op = "Update" => req[o].task \in Task
    PROVE  (PlaceKnown(req[o]))'
<1>1. CASE req[o].op = "Update"
  <2>1. \A s \in Task : row'[s] # NoRow =>
           /\ row[s] # NoRow
           /\ row'[s].column = row[s].column /\ row'[s].position = row[s].position
    BY <1>1
  <2>2. row'[req[o].task] # NoRow =>
           /\ req[o].mine.column = row'[req[o].task].column
           /\ req[o].mine.position = row'[req[o].task].position
    BY <1>1, <2>1 DEF PlaceKnown
  <2>3. req[o].at = "commit" => (StillThere(req[o], {req[o].mine.column, req[o].target}))'
    BY <1>1, <2>1 DEF PlaceKnown, StillThere, Tasks
  <2> QED
    BY <1>1, <2>2, <2>3 DEF PlaceKnown
<1>2. CASE req[o].op = "Create"
  BY <1>2 DEF PlaceKnown, Tasks
<1>3. CASE req[o].op # "Update" /\ req[o].op # "Create"
  BY <1>3 DEF PlaceKnown
<1> QED
  BY <1>1, <1>2, <1>3

\* Each column is added to by one request, when another takes its next step.
LEMMA OneCreatesKept ==
    ASSUME TypeInv, OneCreates, NEW p \in Request, NEW x \in InProgress \cup {Idle},
           Become(p, x),
           x # Idle /\ x.op = "Create" =>
               \A o \in Request : At(o, "Create", "commit") => req[o].mine.column # x.mine.column
    PROVE  OneCreates'
<1>0. /\ req'[p] = x
      /\ \A o \in Request \ {p} : req'[o] = req[o]
      /\ \A o \in Request : req[o] # Idle /\ req[o].op = "Create" => req[o].at = "commit"
  BY BecomeTypes DEF TypeInv, Staged, Stages
<1>1. ASSUME NEW q \in Request, NEW o \in Request, q # o, req'[q] # Idle, req'[o] # Idle,
             req'[q].op = "Create", req'[o].op = "Create"
      PROVE  req'[q].mine.column # req'[o].mine.column
  <2>1. CASE q # p /\ o # p
    BY <1>0, <1>1, <2>1 DEF OneCreates
  <2>2. CASE q = p
    BY <1>0, <1>1, <2>2 DEF At
  <2>3. CASE o = p
    BY <1>0, <1>1, <2>3 DEF At
  <2> QED
    BY <2>1, <2>2, <2>3
<1> QED
  BY <1>1 DEF OneCreates

\* A step of a request that leaves the rows.
LEMMA LookingKeepsPlaces ==
    ASSUME PlaceInv, TypeInv', Allowed', RowsUsed', NEW p \in Request,
           NEW x \in InProgress \cup {Idle}, Become(p, x), UNCHANGED row,
           x # Idle /\ x.op = "Create" =>
               \A o \in Request : At(o, "Create", "commit") => req[o].mine.column # x.mine.column,
           req'[p] # Idle => (PlaceKnown(req[p]))'
    PROVE  PlaceInv'
<1>0. TypeInv /\ PlacesKnown /\ OneCreates /\ PositionsDistinct
  BY DEF PlaceInv
<1>1. PlacesKnown'
  <2> SUFFICES ASSUME NEW o \in Request, req'[o] # Idle, o # p PROVE (PlaceKnown(req[o]))'
    BY DEF PlacesKnown
  <2>1. req'[o] = req[o] /\ req[o] # Idle
    BY <1>0, BecomeTypes DEF TypeInv
  <2>2. PlaceKnown(req[o]) /\ (req[o].op = "Update" => req[o].task \in Task)
    BY <1>0, <2>1 DEF PlacesKnown, TypeInv, Staged, Stages
  <2> QED
    BY <2>1, <2>2, PlaceKeeps
<1>2. OneCreates'
  BY <1>0, OneCreatesKept
<1>3. PositionsDistinct'
  BY <1>0 DEF PositionsDistinct, Tasks
<1> QED
  BY <1>1, <1>2, <1>3 DEF PlaceInv
\* An update begins with the place that the task has.
LEMMA BeginPlaces ==
    ASSUME PlaceInv, TypeInv', Allowed', RowsUsed', NEW p \in Request, BeginUpdate(p)
    PROVE  PlaceInv'
<1>0. TypeInv
  BY DEF PlaceInv
<1>1. PICK x \in InProgress :
         /\ Become(p, x) /\ x # Idle
         /\ x.op = "Update" /\ x.at \in {"walk", "write"} /\ x.task \in Tasks
         /\ x.mine.column = row[x.task].column /\ x.mine.position = row[x.task].position
  BY <1>0, BeginStep
<1>2. UNCHANGED row
  BY DEF BeginUpdate
<1>3. req'[p] = x
  BY <1>0, <1>1, BecomeTypes DEF TypeInv
<1>4. (PlaceKnown(req[p]))'
  BY <1>1, <1>2, <1>3 DEF PlaceKnown
<1> QED
  BY <1>1, <1>2, <1>4, LookingKeepsPlaces

LEMMA WalkPlaces ==
    ASSUME PlaceInv, TypeInv', Allowed', RowsUsed', NEW p \in Request, Walk(p)
    PROVE  PlaceInv'
<1>0. TypeInv /\ PlacesKnown
  BY DEF PlaceInv
<1>1. UNCHANGED row
  BY DEF Walk
<1>2. CASE Become(p, Idle)
  <2>1. req'[p] = Idle
    BY <1>0, <1>2, BecomeTypes DEF TypeInv
  <2> QED
    BY <1>1, <1>2, <2>1, LookingKeepsPlaces
<1>3. CASE ~Become(p, Idle)
  <2>1. PICK x \in InProgress :
           /\ Become(p, x) /\ x # Idle
           /\ x.op = "Update" /\ x.task = req[p].task /\ x.mine = req[p].mine
           /\ x.at \in {"write", "walk"}
    BY <1>0, <1>3, WalkStep
  <2>2. req'[p] = x
    BY <1>0, <2>1, BecomeTypes DEF TypeInv
  <2>3. PlaceKnown(req[p]) /\ req[p].op = "Update"
    BY <1>0, WalkStep DEF PlacesKnown
  <2>4. (PlaceKnown(req[p]))'
    BY <1>1, <2>1, <2>2, <2>3 DEF PlaceKnown
  <2> QED
    BY <1>1, <2>1, <2>4, LookingKeepsPlaces
<1> QED
  BY <1>2, <1>3

\* A creation and a move see all of the columns that they lock.
LEMMA LockPlaces ==
    ASSUME PlaceInv, TypeInv', Allowed', RowsUsed', NEW p \in Request, LockColumn(p)
    PROVE  PlaceInv'
<1>0. TypeInv /\ TypeOK
  BY DEF PlaceInv, TypeInv
<1>1. PICK x \in InProgress :
         /\ Become(p, x) /\ x # Idle /\ x.op = "Create" /\ x.mine.position = 0
         /\ x.snap = Seen({x.mine.column})
         /\ \A o \in Request : At(o, "Create", "commit") => req[o].mine.column # x.mine.column
  BY <1>0, LockStep
<1>2. UNCHANGED row
  BY DEF LockColumn
<1>3. req'[p] = x
  BY <1>0, <1>1, BecomeTypes
<1>4. \A s \in Tasks : row[s].column = x.mine.column => x.snap[s] # NoRow
  BY <1>0, <1>1, SeenTypes DEF Tasks
<1>5. (PlaceKnown(req[p]))'
  BY <1>1, <1>2, <1>3, <1>4 DEF PlaceKnown, Tasks
<1> QED
  BY <1>1, <1>2, <1>5, LookingKeepsPlaces

LEMMA SelectPlaces ==
    ASSUME PlaceInv, TypeInv', Allowed', RowsUsed', NEW p \in Request, SelectRows(p)
    PROVE  PlaceInv'
<1>0. TypeInv /\ TypeOK /\ PlacesKnown
  BY DEF PlaceInv, TypeInv
<1>1. PICK x \in InProgress :
         /\ Become(p, x) /\ x # Idle /\ x.op = "Update" /\ x.at = "commit"
         /\ x.task = req[p].task /\ x.mine = req[p].mine
         /\ x.snap = Seen({x.mine.column, x.target})
  BY <1>0, SelectStep
<1>2. UNCHANGED row
  BY DEF SelectRows
<1>3. req'[p] = x
  BY <1>0, <1>1, BecomeTypes
<1>4. PlaceKnown(req[p]) /\ req[p].op = "Update"
  BY <1>0, SelectStep DEF PlacesKnown
<1>5. \A s \in Tasks : row[s].column \in {x.mine.column, x.target} =>
         x.snap[s] = row[s] /\ row[s] # NoRow
  BY <1>0, <1>1, SeenTypes DEF Tasks
<1>6. (StillThere(req[p], {req[p].mine.column, req[p].target}))'
  BY <1>2, <1>3, <1>5 DEF StillThere, Tasks
<1>7. (PlaceKnown(req[p]))'
  BY <1>1, <1>2, <1>3, <1>4, <1>6 DEF PlaceKnown
<1> QED
  BY <1>1, <1>2, <1>7, LookingKeepsPlaces

\* A new task is at 0, and those that were there have moved down; the others being
\* added are added to other columns.
LEMMA InsertPlaces ==
    ASSUME PlaceInv, TypeInv', Allowed', RowsUsed', {"Create", "Update"} \notin Together,
           NEW p \in Request, InsertTask(p)
    PROVE  PlaceInv'
<1>0. /\ TypeInv /\ TypeOK /\ Allowed /\ RowsUsed /\ PlacesKnown /\ OneCreates
      /\ PositionsDistinct
  BY DEF PlaceInv, TypeInv
<1>1. /\ Become(p, Idle) /\ req'[p] = Idle /\ req[p] # Idle /\ req[p].op = "Create"
      /\ \A o \in Request \ {p} : req'[o] = req[o]
  BY <1>0, InsertStep, BecomeTypes
<1>2. CASE UNCHANGED <<row, used>>
  BY <1>1, <1>2, LookingKeepsPlaces
<1>3. ASSUME NEW t \in Task \ used, Adds(req[p], t) PROVE PlaceInv'
  <2> DEFINE c == req[p].mine.column
             up(s) == IF row[s].column = c THEN row[s].position + 1 ELSE row[s].position
  <2>1. row[t] = NoRow /\ row'[t] # NoRow /\ row'[t].column = c /\ row'[t].position = 0
    <3>1. PlaceKnown(req[p])
      BY <1>0, <1>1 DEF PlacesKnown
    <3> QED
      BY <1>0, <1>1, <1>3, <3>1 DEF Adds, RowsUsed, Tasks, PlaceKnown
  <2>2. ASSUME NEW s \in Task \ {t}
        PROVE  /\ row'[s] = NoRow <=> row[s] = NoRow
               /\ row[s] # NoRow => row'[s].column = row[s].column /\ row'[s].position = up(s)
    <3>1. PlaceKnown(req[p])
      BY <1>0, <1>1 DEF PlacesKnown
    <3>2. row[s] # NoRow /\ row[s].column = c => req[p].snap[s] # NoRow
      BY <1>1, <3>1 DEF PlaceKnown, Tasks
    <3> QED
      BY <1>3, <3>2 DEF Adds
  <2>3. \A s \in Tasks : row[s].position \in Nat
    BY <1>0, TaskTypes, RowTypes DEF Tasks
  <2>4. PositionsDistinct'
    <3> SUFFICES ASSUME NEW s \in Task, NEW q \in Task, row'[s] # NoRow, row'[q] # NoRow,
                        s # q, row'[s].column = row'[q].column
                 PROVE  row'[s].position # row'[q].position
      BY DEF PositionsDistinct, Tasks
    <3>1. CASE s # t /\ q # t
      <4>1. s \in Tasks /\ q \in Tasks /\ row[s].column = row[q].column
        BY <2>2, <3>1 DEF Tasks
      <4>2. row[s].position # row[q].position
        BY <1>0, <4>1 DEF PositionsDistinct
      <4>3. row'[s].position = up(s) /\ row'[q].position = up(q)
        BY <2>2, <3>1, <4>1 DEF Tasks
      <4> QED
        BY <2>3, <4>1, <4>2, <4>3
    <3>2. CASE s = t
      <4>1. q \in Tasks /\ row[q].column = c /\ row'[q].position = up(q)
        BY <2>1, <2>2, <3>2 DEF Tasks
      <4>2. row'[q].position = row[q].position + 1 /\ row[q].position \in Nat
        BY <2>3, <4>1
      <4> QED
        BY <2>1, <3>2, <4>2
    <3>3. CASE q = t
      <4>1. s \in Tasks /\ row[s].column = c /\ row'[s].position = up(s)
        BY <2>1, <2>2, <3>3 DEF Tasks
      <4>2. row'[s].position = row[s].position + 1 /\ row[s].position \in Nat
        BY <2>3, <4>1
      <4> QED
        BY <2>1, <3>3, <4>2
    <3> QED
      BY <3>1, <3>2, <3>3
  <2>5. PlacesKnown'
    <3> SUFFICES ASSUME NEW o \in Request, req'[o] # Idle PROVE (PlaceKnown(req[o]))'
      BY DEF PlacesKnown
    <3>1. o # p /\ req'[o] = req[o] /\ req[o] # Idle
      BY <1>1
    <3>2. {req[p].op, req[o].op} \in Together
      BY <1>0, <1>1, <3>1 DEF Allowed
    <3>3. req[o].op # "Update"
      BY <1>1, <3>2
    <3>4. req[o].op = "Create"
      BY <1>0, <3>1, <3>3, RequestTypes DEF OpNames
    <3>5. req[o].mine.column # c
      BY <1>0, <1>1, <3>1, <3>4 DEF OneCreates
    <3>6. PlaceKnown(req[o])
      BY <1>0, <3>1 DEF PlacesKnown
    <3>7. /\ \A s \in Task : row'[s] # NoRow /\ row[s] = NoRow => row'[s].column # req[o].mine.column
          /\ \A s \in Task : row'[s] # NoRow /\ row[s] # NoRow => row'[s].column = row[s].column
      BY <2>1, <2>2, <3>5
    <3> HIDE DEF c, up
    <3> QED
      BY <3>1, <3>3, <3>4, <3>6, <3>7, PlaceKeeps
  <2>6. OneCreates'
    BY <1>0, <1>1, OneCreatesKept
  <2> QED
    BY <2>4, <2>5, <2>6 DEF PlaceInv
<1> QED
  BY <1>0, <1>2, <1>3, InsertStep
\* Nothing else is in progress when an update writes.
LEMMA WritesAlone ==
    ASSUME PlaceInv, TypeInv', Allowed', RowsUsed',
           {"Update"} \notin Together, {"Create", "Update"} \notin Together,
           NEW p \in Request, req[p] # Idle, req[p].op = "Update", Become(p, Idle),
           PositionsDistinct'
    PROVE  PlaceInv'
<1>0. TypeInv /\ TypeOK /\ Allowed /\ OneCreates
  BY DEF PlaceInv, TypeInv
<1>1. \A o \in Request : req'[o] = Idle
  <2> SUFFICES ASSUME NEW o \in Request, req'[o] # Idle PROVE FALSE
    OBVIOUS
  <2>1. o # p /\ req[o] # Idle
    BY <1>0, BecomeTypes
  <2>2. {req[p].op, req[o].op} \in Together
    BY <1>0, <2>1 DEF Allowed
  <2>3. req[o].op \in {"Create", "Update"}
    BY <1>0, <2>1, RequestTypes DEF OpNames
  <2>4. {req[p].op, req[o].op} \in {{"Update"}, {"Create", "Update"}}
    BY <2>3
  <2> QED
    BY <2>2, <2>4
<1> QED
  BY <1>1 DEF PlaceInv, PlacesKnown, OneCreates

\* The row as it was read has the place that the task has.
LEMMA UpdatePlaces ==
    ASSUME PlaceInv, TypeInv', Allowed', RowsUsed',
           {"Update"} \notin Together, {"Create", "Update"} \notin Together,
           NEW p \in Request, UpdateTask(p)
    PROVE  PlaceInv'
<1>0. TypeInv /\ PlacesKnown /\ PositionsDistinct
  BY DEF PlaceInv
<1>1. /\ req[p] # Idle /\ req[p].op = "Update" /\ Become(p, Idle)
      /\ \A s \in Task : row'[s] = NoRow <=> row[s] = NoRow
      /\ \/ row' = row
         \/ /\ row[req[p].task] # NoRow
            /\ row'[req[p].task].column = req[p].mine.column
            /\ row'[req[p].task].position = req[p].mine.position
            /\ \A s \in Task \ {req[p].task} : row'[s] = row[s]
  BY <1>0, UpdateStep DEF Reparents
<1>2. PlaceKnown(req[p])
  BY <1>0, <1>1 DEF PlacesKnown
<1>3. \A s \in Tasks : row'[s].column = row[s].column /\ row'[s].position = row[s].position
  BY <1>1, <1>2 DEF PlaceKnown, Tasks
<1>4. PositionsDistinct'
  BY <1>0, <1>1, <1>3 DEF PositionsDistinct, Tasks
<1> QED
  BY <1>1, <1>4, WritesAlone

\* What was above another task gets a smaller number.
LEMMA PlaceOrder ==
    ASSUME NEW S \in SUBSET Task, NEW snap, NEW c, NEW s \in S, NEW t \in S, NEW i \in Nat,
           \A u \in S : snap[u] \in Row /\ snap[u].column = c,
           snap[s].position < snap[t].position
    PROVE  /\ Rank(snap, S, s) < Rank(snap, S, t)
           /\ PlaceAround(snap, S, s, i) < PlaceAround(snap, S, t, i)
<1>1. Rank(snap, S, s) \in Nat /\ Rank(snap, S, t) \in Nat
  BY RankTypes
<1>2. Rank(snap, S, s) < Rank(snap, S, t)
  BY RankOrder
<1> QED
  BY <1>1, <1>2 DEF PlaceAround

\* A move numbers the columns that it saw, and nothing in them has changed but that
\* some tasks are gone: the others stay in their order, around its task.
LEMMA MoveOrders ==
    ASSUME PlaceInv, NEW p \in Request, MoveTask(p), row' # row
    PROVE  /\ req[p].task \in Tasks
           /\ row'[req[p].task].column \in Column
           /\ \A s \in Tasks \ {req[p].task} :
                 /\ row'[s].column = row[s].column
                 /\ row'[s].column = row'[req[p].task].column =>
                       row'[s].position # row'[req[p].task].position
           /\ \A s, q \in Tasks \ {req[p].task} :
                 row[s].column = row[q].column /\ row[s].position < row[q].position =>
                    row'[s].position < row'[q].position
<1>0. TypeInv /\ TypeOK /\ PlacesKnown
  BY DEF PlaceInv, TypeInv
<1>1. /\ req[p] # Idle /\ req[p].op = "Update" /\ req[p].at = "commit"
      /\ \E asked, last \in Nat : Numbers(req[p], asked, last)
  BY <1>0, MoveStep
<1>2. PICK asked \in Nat, last \in Nat : Numbers(req[p], asked, last)
  BY <1>1
<1> DEFINE r == req[p]
           t == r.task
           from == r.mine.column
           source == SourceOf(r)
           target == TargetOf(r)
           snap == r.snap
<1>3. t \in Tasks /\ r.target \in Column
  BY <1>0, <1>1, <1>2, RequestTypes DEF Numbers, Found, Tasks
<1>4. row[t].column = from
  BY <1>0, <1>1, <1>3 DEF PlacesKnown, PlaceKnown, Tasks
<1>5. \A s \in Tasks : row[s].column \in {from, r.target} =>
         /\ snap[s] # NoRow
         /\ snap[s].column = row[s].column /\ snap[s].position = row[s].position
  BY <1>0, <1>1 DEF PlacesKnown, PlaceKnown, StillThere
<1>6. \A s \in Task : s \in source <=> s \in Tasks \ {t} /\ row[s].column = from
  BY <1>5 DEF SourceOf, Found, Tasks
<1>7. \A s \in Task : s \in target <=> s \in Tasks \ {t} /\ row[s].column = r.target
  BY <1>4, <1>5 DEF TargetOf, Found, Tasks
<1>8. source \in SUBSET Task /\ target \in SUBSET Task
  BY DEF SourceOf, TargetOf, Found
<1>9. /\ \A s \in source : snap[s] \in Row /\ snap[s].column = from
      /\ \A s \in target : snap[s] \in Row /\ snap[s].column = r.target
  <2>1. \A s \in Task : snap[s] # NoRow => snap[s] \in Row
    BY <1>0, <1>1, RequestTypes
  <2> QED
    BY <1>5, <1>6, <1>7, <1>8, <2>1
<1>10. /\ row'[t].column = r.target /\ row'[t].position = asked
       /\ \A s \in Tasks \ {t} :
             /\ row'[s].column = row[s].column
             /\ s \in target => row'[s].position = PlaceAround(snap, target, s, asked)
             /\ s \in source \ target => row'[s].position = Rank(snap, source, s)
             /\ s \notin source \cup target => row'[s].position = row[s].position
  <2>1. t \notin target
    BY <1>3, <1>7 DEF Tasks
  <2> QED
    BY <1>2, <2>1 DEF Numbers
<1>11. \A s \in Tasks : s \in Task
  BY DEF Tasks
<1>12. t \in Tasks /\ row'[t].column \in Column
  BY <1>3, <1>10
<1> HIDE DEF r, t, from, source, target, snap
<1>13. ASSUME NEW s \in Tasks \ {t}, row'[s].column = row'[t].column
       PROVE  row'[s].position # row'[t].position
  <2>1. s \in target
    BY <1>7, <1>10, <1>11, <1>13
  <2>2. row'[s].position = PlaceAround(snap, target, s, asked)
    BY <1>10, <2>1
  <2> QED
    BY <1>8, <1>10, <2>2, PlaceKeptFree
<1>14. ASSUME NEW s \in Tasks \ {t}, NEW q \in Tasks \ {t}, row[s].column = row[q].column,
              row[s].position < row[q].position
       PROVE  row'[s].position < row'[q].position
  <2>1. CASE row[s].column = r.target
    <3>1. s \in target /\ q \in target
      BY <1>7, <1>11, <1>14, <2>1
    <3>2. snap[s].position < snap[q].position
      BY <1>5, <1>14, <2>1
    <3>3. PlaceAround(snap, target, s, asked) < PlaceAround(snap, target, q, asked)
      BY <1>8, <1>9, <3>1, <3>2, PlaceOrder
    <3> QED
      BY <1>10, <3>1, <3>3
  <2>2. CASE row[s].column = from /\ from # r.target
    <3>1. s \in source \ target /\ q \in source \ target
      BY <1>6, <1>7, <1>11, <1>14, <2>2
    <3>2. snap[s].position < snap[q].position
      BY <1>5, <1>14, <2>2
    <3>3. Rank(snap, source, s) < Rank(snap, source, q)
      BY <1>8, <1>9, <3>1, <3>2, RankOrder
    <3> QED
      BY <1>10, <3>1, <3>3
  <2>3. CASE row[s].column \notin {from, r.target}
    <3>1. s \notin source \cup target /\ q \notin source \cup target
      BY <1>6, <1>7, <1>11, <1>14, <2>3
    <3> QED
      BY <1>10, <1>14, <3>1
  <2> QED
    BY <2>1, <2>2, <2>3
<1>15. \A s \in Tasks \ {t} : row'[s].column = row[s].column
  BY <1>10
<1> QED
  BY <1>12, <1>13, <1>14, <1>15 DEF t, r

LEMMA MovePlaces ==
    ASSUME PlaceInv, TypeInv', Allowed', RowsUsed',
           {"Update"} \notin Together, {"Create", "Update"} \notin Together,
           NEW p \in Request, MoveTask(p)
    PROVE  PlaceInv'
<1>0. TypeInv /\ TypeOK /\ PositionsDistinct
  BY DEF PlaceInv, TypeInv
<1>1. /\ req[p] # Idle /\ req[p].op = "Update" /\ Become(p, Idle)
      /\ \A s \in Task : row'[s] = NoRow <=> row[s] = NoRow
  BY <1>0, MoveStep DEF Reparents
<1>2. PositionsDistinct'
  <2>1. CASE row' = row
    BY <1>0, <2>1 DEF PositionsDistinct, Tasks
  <2>2. CASE row' # row
    <3> DEFINE t == req[p].task
    <3>1. /\ \A s \in Tasks \ {t} :
                /\ row'[s].column = row[s].column
                /\ row'[s].column = row'[t].column => row'[s].position # row'[t].position
          /\ \A s, q \in Tasks \ {t} :
                row[s].column = row[q].column /\ row[s].position < row[q].position =>
                   row'[s].position < row'[q].position
      BY <2>2, MoveOrders
    <3>2. Tasks' = Tasks
      BY <1>1 DEF Tasks
    <3> HIDE DEF t
    <3>3. \A s \in Tasks : row[s].position \in Nat /\ row'[s].position \in Nat
      <4> TAKE s \in Tasks
      <4>1. row[s] \in Row /\ row'[s] \in Row
        BY <1>0, <3>2 DEF TypeInv, TypeOK, Tasks
      <4> QED
        BY <4>1, RowTypes
    <3> SUFFICES ASSUME NEW s \in Tasks, NEW q \in Tasks, s # q, row'[s].column = row'[q].column
                 PROVE  row'[s].position # row'[q].position
      BY <3>2 DEF PositionsDistinct
    <3>4. CASE s = t \/ q = t
      BY <3>1, <3>4
    <3>5. CASE s # t /\ q # t
      <4>1. row[s].column = row[q].column
        BY <3>1, <3>5
      <4>2. row[s].position < row[q].position \/ row[q].position < row[s].position
        BY <1>0, <3>3, <4>1 DEF PositionsDistinct
      <4>3. row'[s].position < row'[q].position \/ row'[q].position < row'[s].position
        BY <3>1, <3>5, <4>1, <4>2
      <4> QED
        BY <3>3, <4>3
    <3> QED
      BY <3>4, <3>5
  <2> QED
    BY <2>1, <2>2
<1> QED
  BY <1>1, <1>2, WritesAlone

\* What a deletion leaves is where it was.
LEMMA DeletePlaces ==
    ASSUME PlaceInv, TypeInv', Allowed', RowsUsed', NEW t \in Task, DeleteTask(t)
    PROVE  PlaceInv'
<1>0. TypeInv /\ TypeOK /\ PlacesKnown /\ OneCreates /\ PositionsDistinct
  BY DEF PlaceInv, TypeInv
<1>1. /\ UNCHANGED req
      /\ \A s \in Task : row'[s] # NoRow =>
            /\ row[s] # NoRow
            /\ row'[s].column = row[s].column /\ row'[s].position = row[s].position
  BY <1>0, DeleteStep
<1>2. PlacesKnown'
  <2> SUFFICES ASSUME NEW o \in Request, req'[o] # Idle PROVE (PlaceKnown(req[o]))'
    BY DEF PlacesKnown
  <2>1. PlaceKnown(req[o]) /\ (req[o].op = "Update" => req[o].task \in Task)
    BY <1>0, <1>1 DEF PlacesKnown, TypeInv, Staged, Stages
  <2> QED
    BY <1>1, <2>1, PlaceKeeps
<1>3. OneCreates'
  BY <1>0, <1>1 DEF OneCreates
<1>4. PositionsDistinct'
  BY <1>0, <1>1 DEF PositionsDistinct, Tasks
<1> QED
  BY <1>2, <1>3, <1>4 DEF PlaceInv

LEMMA PlacesStep ==
    ASSUME {"Update"} \notin Together, {"Create", "Update"} \notin Together
    PROVE  PlaceInv /\ [Next]_vars => PlaceInv'
<1> SUFFICES ASSUME PlaceInv, [Next]_vars PROVE PlaceInv'
  OBVIOUS
<1>0. TypeInv /\ TypeInv' /\ Allowed' /\ RowsUsed'
  BY TypesStep, AllowedStep, RowsStep DEF PlaceInv
<1>1. CASE UNCHANGED vars
  BY <1>0, <1>1
  DEF PlaceInv, PlacesKnown, PlaceKnown, StillThere, OneCreates, PositionsDistinct, Tasks, vars
<1>2. ASSUME NEW p \in Request, RequestFails(p) PROVE PlaceInv'
  <2>1. Become(p, Idle) /\ UNCHANGED row
    BY <1>2 DEF RequestFails, Finish
  <2>2. req'[p] = Idle
    BY <1>0, <2>1, BecomeTypes DEF TypeInv
  <2> QED
    BY <1>0, <2>1, <2>2, LookingKeepsPlaces
<1> QED
  BY <1>0, <1>1, <1>2, BeginPlaces, WalkPlaces, LockPlaces, InsertPlaces, UpdatePlaces,
     SelectPlaces, MovePlaces, DeletePlaces DEF Next

LEMMA PlacesInit == Init => PlaceInv
  BY TypesInit
  DEF Init, NoRows, Tasks, PlaceInv, Allowed, RowsUsed, PlacesKnown, OneCreates,
      PositionsDistinct

\* The tasks of a column have distinct positions, also when several are created at
\* one time, in one column or in several, and while tasks are deleted: if no update
\* is in progress beside another one or beside a creation.
THEOREM PlacesStayDistinct ==
    ASSUME {"Update"} \notin Together, {"Create", "Update"} \notin Together
    PROVE  Spec => []PositionsDistinct
<1>1. Init => PlaceInv
  BY PlacesInit
<1>2. PlaceInv /\ [Next]_vars => PlaceInv'
  BY PlacesStep
<1>3. PlaceInv => PositionsDistinct
  BY DEF PlaceInv
<1> QED
  BY <1>1, <1>2, <1>3, PTL DEF Spec
-----------------------------------------------------------------------------
\* The lists of TaskBoard.

InColumn(c) == {t \in Tasks : row[t].column = c}

\* A column lists its tasks, each in one place, by their positions.
Shows(c) ==
    /\ List(c) \in Seq(Task)
    /\ \A i \in DOMAIN List(c) : List(c)[i] \in InColumn(c)
    /\ \A t \in InColumn(c) : \E i \in DOMAIN List(c) : List(c)[i] = t
    /\ \A i, j \in DOMAIN List(c) :
          i < j <=> row[List(c)[i]].position < row[List(c)[j]].position

Showing == \A c \in Column : Shows(c)

\* Tasks with distinct positions have the ranks from 0 on, each of them one.
LEMMA RanksFill ==
    ASSUME TypeOK, PositionsDistinct, NEW c \in Column
    PROVE  LET S == InColumn(c) IN
           /\ S \subseteq Task /\ IsFiniteSet(S) /\ Cardinality(S) \in Nat
           /\ \A s, t \in S :
                 Rank(row, S, s) < Rank(row, S, t) <=> row[s].position < row[t].position
           /\ \A k \in 1..Cardinality(S) : \E t \in S : Rank(row, S, t) = k - 1
           /\ \A t \in S : Rank(row, S, t) \in Nat /\ Rank(row, S, t) + 1 \in 1..Cardinality(S)
<1> DEFINE S == InColumn(c)
           rank(t) == Rank(row, S, t)
<1>1. S \subseteq Task /\ \A t \in S : row[t] \in Row /\ row[t].column = c
  BY DEF TypeOK, InColumn, Tasks
<1>2. \A t \in S : row[t].position \in Nat /\ row[t].born \in Nat /\ row[t].column \in Nat
  BY <1>1, RowTypes
<1>3. \A s, t \in S : s # t => row[s].position # row[t].position
  BY <1>1 DEF PositionsDistinct, InColumn
<1> HIDE DEF S
<1>4. IsFiniteSet(S) /\ Cardinality(S) \in Nat /\ \A t \in S : rank(t) \in Nat
  BY <1>1, RankTypes
<1>5. ASSUME NEW s \in S, NEW t \in S, row[s].position < row[t].position
      PROVE  rank(s) < rank(t)
  BY <1>1, <1>5, RankOrder
<1>6. \A s, t \in S : /\ rank(s) < rank(t) <=> row[s].position < row[t].position
                      /\ s # t => rank(s) # rank(t)
  BY <1>2, <1>3, <1>4, <1>5
<1>7. ASSUME NEW t \in S PROVE rank(t) + 1 \in 1..Cardinality(S)
  <2> DEFINE T == {s \in S : Above(row, s, t)}
  <2>1. t \notin T
    BY <1>2 DEF Above
  <2>2. T \subseteq S /\ T # S
    BY <2>1
  <2> HIDE DEF T
  <2>3. Cardinality(T) <= Cardinality(S) /\ Cardinality(T) # Cardinality(S)
    BY <1>4, <2>2, FS_Subset
  <2>4. rank(t) = Cardinality(T)
    BY DEF Rank, T
  <2>5. rank(t) \in Nat
    BY <1>4
  <2> QED
    BY <1>4, <2>3, <2>4, <2>5
<1>8. \A k \in 1..Cardinality(S) : \E t \in S : rank(t) + 1 = k
  <2> DEFINE f == [t \in S |-> rank(t) + 1]
  <2>1. f \in [S -> 1..Cardinality(S)]
    BY <1>7
  <2>2. \A s, t \in S : f[s] = f[t] => s = t
    BY <1>4, <1>6
  <2>3. \A t \in S : f[t] = rank(t) + 1
    OBVIOUS
  <2> HIDE DEF f
  <2>4. f \in Injection(S, 1..Cardinality(S))
    BY <2>1, <2>2 DEF Injection, IsInjective
  <2>5. IsFiniteSet(1..Cardinality(S)) /\ Cardinality(1..Cardinality(S)) = Cardinality(S)
    BY <1>4, FS_Interval
  <2>6. f \in Surjection(S, 1..Cardinality(S))
    BY <2>4, <2>5, FS_Injection
  <2> QED
    BY <2>3, <2>6 DEF Surjection
<1>9. ASSUME NEW k \in 1..Cardinality(S) PROVE \E t \in S : rank(t) = k - 1
  <2>1. PICK t \in S : rank(t) + 1 = k
    BY <1>8
  <2> QED
    BY <1>4, <2>1
<1> QED
  BY <1>1, <1>4, <1>6, <1>7, <1>9 DEF S

LEMMA ListsShow == TypeOK /\ PositionsDistinct => Showing
<1> SUFFICES ASSUME TypeOK, PositionsDistinct, NEW c \in Column PROVE Shows(c)
  BY DEF Showing
<1> DEFINE S == InColumn(c)
           n == Cardinality(S)
           rank(t) == Rank(row, S, t)
           L == List(c)
<1>1. /\ S \subseteq Task /\ n \in Nat
      /\ \A s, t \in S : rank(s) < rank(t) <=> row[s].position < row[t].position
      /\ \A k \in 1..n : \E t \in S : rank(t) = k - 1
      /\ \A t \in S : rank(t) \in Nat /\ rank(t) + 1 \in 1..n
  BY RanksFill
<1>2. L = [k \in 1..n |-> CHOOSE t \in S : rank(t) = k - 1]
  BY DEF List, InColumn
<1> HIDE DEF S, n, rank, L
<1>3. \A k \in 1..n : L[k] \in S /\ rank(L[k]) = k - 1
  BY <1>1, <1>2
<1>4. L \in Seq(Task) /\ DOMAIN L = 1..n
  BY <1>1, <1>2, <1>3
<1>5. ASSUME NEW t \in S PROVE \E i \in 1..n : L[i] = t
  <2> DEFINE i == rank(t) + 1
  <2>1. i \in 1..n /\ rank(t) = i - 1
    BY <1>1
  <2>2. L[i] \in S /\ rank(L[i]) = rank(t)
    BY <1>3, <2>1
  <2>3. ~(rank(L[i]) < rank(t)) /\ ~(rank(t) < rank(L[i]))
    BY <1>1, <2>2
  <2>4. ~(row[L[i]].position < row[t].position) /\ ~(row[t].position < row[L[i]].position)
    BY <1>1, <2>2, <2>3
  <2> HIDE DEF i
  <2>5. /\ L[i] \in Tasks /\ t \in Tasks /\ L[i] \in Task /\ t \in Task
        /\ row[L[i]].column = row[t].column
        /\ row[L[i]] \in Row /\ row[t] \in Row
    BY <2>2 DEF S, InColumn, TypeOK, Tasks
  <2>6. row[L[i]].position = row[t].position
    BY <2>4, <2>5, RowTypes
  <2>7. L[i] = t
    BY <2>5, <2>6 DEF PositionsDistinct
  <2> QED
    BY <2>1, <2>7
<1>6. ASSUME NEW i \in 1..n, NEW j \in 1..n
      PROVE  i < j <=> row[L[i]].position < row[L[j]].position
  BY <1>1, <1>3
<1> QED
  BY <1>3, <1>4, <1>5, <1>6 DEF Shows, S, L

\* What that is in the words of TaskBoard.
Listed ==
    /\ Board!Tasks = Tasks
    /\ \A c \in Column : /\ List(c) \in Seq(Task)
                         /\ Board!ToSet(List(c)) = InColumn(c)
    /\ \A c \in Column, s, t \in Task :
          Board!Over(List(c), s, t) <=> /\ s \in InColumn(c) /\ t \in InColumn(c)
                                        /\ row[s].position < row[t].position

LEMMA ListsListed == TypeOK /\ PositionsDistinct => Listed /\ Showing
<1> SUFFICES ASSUME TypeOK, PositionsDistinct PROVE Listed /\ Showing
  OBVIOUS
<1>1. Showing
  BY ListsShow
<1>2. ASSUME NEW c \in Column PROVE List(c) \in Seq(Task) /\ Board!ToSet(List(c)) = InColumn(c)
  BY <1>1 DEF Showing, Shows, Board!ToSet
<1>3. ASSUME NEW c \in Column, NEW s \in Task, NEW t \in Task
      PROVE  Board!Over(List(c), s, t) <=> /\ s \in InColumn(c) /\ t \in InColumn(c)
                                           /\ row[s].position < row[t].position
  <2>1. Shows(c)
    BY <1>1 DEF Showing
  <2>2. ASSUME Board!Over(List(c), s, t)
        PROVE  s \in InColumn(c) /\ t \in InColumn(c) /\ row[s].position < row[t].position
    BY <2>1, <2>2 DEF Shows, Board!Over
  <2>3. ASSUME s \in InColumn(c), t \in InColumn(c), row[s].position < row[t].position
        PROVE  Board!Over(List(c), s, t)
    <3>1. PICK i \in DOMAIN List(c), j \in DOMAIN List(c) : List(c)[i] = s /\ List(c)[j] = t
      BY <2>1, <2>3 DEF Shows
    <3>2. i < j
      BY <2>1, <2>3, <3>1 DEF Shows
    <3> QED
      BY <3>1, <3>2 DEF Board!Over
  <2> QED
    BY <2>2, <2>3
<1>4. Board!Tasks = Tasks
  <2>1. Board!Tasks = UNION {InColumn(c) : c \in Column}
    BY <1>2 DEF Board!Tasks
  <2>2. \A t \in Tasks : row[t].column \in Column
    BY RowTypes DEF TypeOK, Tasks
  <2> QED
    BY <2>1, <2>2 DEF InColumn
<1> QED
  BY <1>1, <1>2, <1>3, <1>4 DEF Listed

\* Before and after a step.
Apart == TypeOK /\ PositionsDistinct

LEMMA ListedHolds == Apart => Listed /\ Showing
  BY ListsListed DEF Apart

\* Tasks stay where they are when those of a column keep their order.
LEMMA StayHolds ==
    ASSUME Apart, Apart', NEW S \in SUBSET Task,
           \A s \in S : s \in Tasks' <=> s \in Tasks,
           \A s \in S : s \in Tasks => row'[s].column = row[s].column,
           \A s, q \in S : /\ s \in Tasks /\ q \in Tasks /\ row[s].column = row[q].column
                           /\ row[s].position < row[q].position
                           => row'[s].position < row'[q].position
    PROVE  Board!Stay(S)
<1>0. Listed /\ Listed'
  BY ListedHolds, PTL
<1>1. ASSUME NEW c \in Column, NEW s \in S PROVE s \in (InColumn(c))' <=> s \in InColumn(c)
  BY DEF InColumn
<1>2. ASSUME NEW s \in S, s \in Tasks
      PROVE  /\ row[s].position \in Nat /\ row'[s].position \in Nat
             /\ \A q \in S : q \in Tasks /\ q # s /\ row[q].column = row[s].column =>
                   row[q].position # row[s].position
  BY <1>2, RowTypes DEF Apart, TypeOK, PositionsDistinct, Tasks
<1>3. ASSUME NEW c \in Column, NEW s \in S, NEW q \in S, s \in InColumn(c), q \in InColumn(c)
      PROVE  row'[s].position < row'[q].position <=> row[s].position < row[q].position
  <2>1. s \in Tasks /\ q \in Tasks /\ row[s].column = row[q].column
    BY <1>3 DEF InColumn
  <2>2. row[s].position < row[q].position => row'[s].position < row'[q].position
    BY <2>1
  <2>3. row[q].position < row[s].position => row'[q].position < row'[s].position
    BY <2>1
  <2> QED
    BY <1>2, <2>1, <2>2, <2>3
<1>4. ASSUME NEW c \in Column PROVE Board!Keeps(List(c), (List(c))', S)
  <2>1. (List(c))' \in Seq(Task)
    BY <1>0 DEF Listed
  <2>2. (Board!ToSet(List(c)))' \cap S = Board!ToSet(List(c)) \cap S
    BY <1>0, <1>1 DEF Listed
  <2>3. ASSUME NEW s \in S, NEW q \in S
        PROVE  (Board!Over(List(c), s, q))' <=> Board!Over(List(c), s, q)
    BY <1>0, <1>1, <1>3 DEF Listed
  <2> QED
    BY <2>1, <2>2, <2>3 DEF Board!Keeps, Board!ToSet, Board!Over
<1> QED
  BY <1>4 DEF Board!Stay

\* A task that is there is at one place, the first if no other one is above it.
LEMMA PutHolds ==
    ASSUME Apart, Apart', NEW t \in Task, t \in Tasks', NEW c \in Column, row'[t].column = c
    PROVE  \E i \in DOMAIN (List(c))' :
              /\ Board!PutAt(t, c, i)
              /\ (\A s \in Tasks' \ {t} : row'[s].column = c =>
                                          row'[t].position < row'[s].position) => i = 1
<1>0. Listed' /\ Showing'
  BY ListedHolds, PTL
<1> DEFINE L(d) == (List(d))'
<1>1. t \in (InColumn(c))'
  BY DEF InColumn
<1>2. ASSUME NEW d \in Column PROVE (Shows(d))'
  BY <1>0 DEF Showing
<1>3. PICK i \in DOMAIN L(c) : L(c)[i] = t
  BY <1>1, <1>2 DEF Shows
<1>4. ASSUME NEW d \in Column, NEW j \in DOMAIN L(d), L(d)[j] = t
      PROVE  d = c /\ j = i
  <2>1. t \in (InColumn(d))'
    BY <1>2, <1>4 DEF Shows
  <2>2. d = c
    BY <2>1 DEF InColumn
  <2>3. /\ i < j <=> row'[t].position < row'[t].position
        /\ j < i <=> row'[t].position < row'[t].position
    BY <1>2, <1>3, <1>4, <2>2 DEF Shows
  <2>4. row'[t].position \in Nat
    BY RowTypes DEF Apart, TypeOK, Tasks
  <2>5. i \in Nat /\ j \in Nat
    BY <1>2, <1>3, <1>4, <2>2 DEF Shows
  <2> QED
    BY <2>2, <2>3, <2>4, <2>5
<1>5. Board!PutAt(t, c, i)
  BY <1>1, <1>3, <1>4 DEF Board!PutAt
<1>6. ASSUME \A s \in Tasks' \ {t} : row'[s].column = c => row'[t].position < row'[s].position
      PROVE  i = 1
  <2>1. L(c) \in Seq(Task)
    BY <1>1, <1>2 DEF Shows
  <2>2. 1 \in DOMAIN L(c) /\ i \in Nat /\ i >= 1
    BY <1>3, <2>1
  <2>3. L(c)[1] \in (InColumn(c))'
    BY <1>1, <1>2, <2>2 DEF Shows
  <2>4. ~(row'[L(c)[1]].position < row'[t].position)
    <3>1. CASE L(c)[1] = t
      BY <1>1, <3>1, RowTypes DEF Apart, TypeOK, Tasks
    <3>2. CASE L(c)[1] # t
      <4>1. row'[t].position < row'[L(c)[1]].position
        BY <1>6, <2>3, <3>2 DEF InColumn
      <4>2. row'[t].position \in Nat /\ row'[L(c)[1]].position \in Nat
        BY <1>1, <2>3, RowTypes DEF Apart, TypeOK, Tasks, InColumn
      <4> QED
        BY <4>1, <4>2
    <3> QED
      BY <3>1, <3>2
  <2>5. 1 < i <=> row'[L(c)[1]].position < row'[t].position
    BY <1>1, <1>2, <1>3, <2>2 DEF Shows
  <2> QED
    BY <2>2, <2>4, <2>5
<1> QED
  BY <1>3, <1>5, <1>6

-----------------------------------------------------------------------------
\* A creation puts its task on top of its column.
LEMMA InsertCreates ==
    ASSUME Apart, Apart', PlaceInv, NEW p \in Request, InsertTask(p)
    PROVE  Board!Next \/ UNCHANGED row
<1>0. TypeInv /\ TypeOK /\ RowsUsed /\ PlacesKnown /\ Listed
  BY ListedHolds DEF PlaceInv, TypeInv
<1>1. CASE UNCHANGED row
  BY <1>1
<1>2. CASE ~UNCHANGED row
  <2> DEFINE r == req[p]
  <2>1. r # Idle /\ r.op = "Create"
    BY <1>0, InsertStep
  <2>2. PICK t \in Task \ used : Adds(r, t)
    BY <1>0, <1>2, InsertStep
  <2>3. t \notin Tasks /\ r.mine.column \in Column /\ r.mine.parent \in Parent
    BY <1>0, <2>1, <2>2, RequestTypes, RowTypes DEF RowsUsed
  <2> PICK c \in Column, q \in Parent : c = r.mine.column /\ q = r.mine.parent
    BY <2>3
  <2>4. /\ r.mine.position = 0
        /\ \A s \in Tasks : row[s].column = c => r.snap[s] # NoRow
    BY <1>0, <2>1 DEF PlacesKnown, PlaceKnown
  <2> HIDE DEF r
  <2>5. /\ Tasks' = Tasks \cup {t} /\ q \in Tasks \cup {NoTask}
        /\ row'[t].column = c /\ row'[t].position = 0 /\ row'[t].parent = q
        /\ \A s \in Tasks : /\ row'[s].column = row[s].column
                            /\ row'[s].parent = row[s].parent
                            /\ row'[s].position = IF row[s].column = c THEN row[s].position + 1
                                                  ELSE row[s].position
    BY <2>2, <2>3, <2>4 DEF Adds, Tasks, Valid
  <2>6. \A s \in Tasks : row[s].position \in Nat
    BY <1>0, RowTypes DEF TypeOK, Tasks
  <2>7. ParentOf' = [ParentOf EXCEPT ![t] = q]
    <3>1. \A s \in Task \ {t} : row'[s] = NoRow <=> row[s] = NoRow
      BY <2>2 DEF Adds
    <3>2. row'[t] # NoRow
      BY <2>5 DEF Tasks
    <3>3. \A s \in Task : ParentOf'[s] = IF s = t THEN q ELSE ParentOf[s]
      BY <2>5, <3>1, <3>2 DEF ParentOf, Tasks
    <3> QED
      BY <3>3 DEF ParentOf
  <2>8. Board!Stay(Task \ {t})
    <3>1. \A s \in Task \ {t} : s \in Tasks' <=> s \in Tasks
      BY <2>5
    <3>2. \A s, u \in Tasks : row[s].column = row[u].column /\ row[s].position < row[u].position =>
             row'[s].position < row'[u].position
      BY <2>5, <2>6
    <3> QED
      BY <2>5, <3>1, <3>2, StayHolds
  <2>9. Board!PutAt(t, c, 1)
    <3>1. t \in Task /\ t \in Tasks' /\ c \in Column /\ row'[t].column = c
      BY <2>3, <2>5
    <3>2. PICK i \in DOMAIN (List(c))' :
             /\ Board!PutAt(t, c, i)
             /\ (\A s \in Tasks' \ {t} : row'[s].column = c =>
                                         row'[t].position < row'[s].position) => i = 1
      BY <3>1, PutHolds
    <3>3. \A s \in Tasks' \ {t} : row'[s].column = c => row'[t].position < row'[s].position
      BY <2>5, <2>6
    <3> QED
      BY <3>2, <3>3
  <2>10. Board!Create(t, c, q)
    BY <1>0, <2>3, <2>5, <2>7, <2>8, <2>9 DEF Listed, Board!Create
  <2> QED
    BY <2>3, <2>10 DEF Board!Next, Parent
<1> QED
  BY <1>1, <1>2

\* A deletion takes its tasks out of their columns.
LEMMA DeleteDeletes ==
    ASSUME Apart, Apart', NEW t \in Task, DeleteTask(t)
    PROVE  Board!Next
<1>0. TypeOK /\ Listed /\ Listed'
  BY ListedHolds, PTL DEF Apart
<1> DEFINE gone == {s \in Tasks : s = t \/ ParentOf[s] = t}
<1>1. \A s \in Task : /\ s \in gone <=> s \in Tasks /\ (s = t \/ row[s].parent = t)
                      /\ s \in Tasks => ParentOf[s] = row[s].parent
                      /\ s \notin Tasks => ParentOf[s] = NoTask
  BY DEF ParentOf, Tasks
<1>2. t \in Tasks /\ gone \subseteq Tasks /\ gone \subseteq Task /\ t \in gone
  BY DEF DeleteTask, Tasks
<1>3. gone = {s \in Task : row[s] # NoRow /\ (s = t \/ row[s].parent = t)}
  BY <1>1 DEF Tasks
<1>4. row' = [s \in Task |->
                 IF row[s] = NoRow \/ s \in gone THEN NoRow
                 ELSE IF row[s].parent \in gone THEN [row[s] EXCEPT !.parent = NoTask]
                 ELSE row[s]]
  BY <1>3 DEF DeleteTask
<1>5. NoTask \notin gone
  BY <1>2, NothingAssumption
<1> HIDE DEF gone
<1>6. ASSUME NEW s \in Task, s \in Tasks \ gone
      PROVE  /\ s \in Tasks'
             /\ row'[s].column = row[s].column /\ row'[s].position = row[s].position
             /\ row'[s].parent = IF row[s].parent \in gone THEN NoTask ELSE row[s].parent
  <2>1. row[s] \in Row
    BY <1>0, <1>6 DEF TypeOK, Tasks
  <2>2. CASE row[s].parent \in gone
    <3>1. row'[s] = [row[s] EXCEPT !.parent = NoTask]
      BY <1>4, <1>6, <2>2 DEF Tasks
    <3>2. /\ row'[s] \in Row /\ row'[s].parent = NoTask
          /\ row'[s].column = row[s].column /\ row'[s].position = row[s].position
      BY <2>1, <3>1 DEF Row, Parent
    <3> QED
      BY <2>2, <3>2, RowTypes DEF Tasks
  <2>3. CASE row[s].parent \notin gone
    <3>1. row'[s] = row[s]
      BY <1>4, <1>6, <2>3 DEF Tasks
    <3> QED
      BY <1>6, <2>3, <3>1 DEF Tasks
  <2> QED
    BY <2>2, <2>3
<1>7. \A s \in Task : s \notin Tasks \ gone => row'[s] = NoRow
  BY <1>4 DEF Tasks
<1>8. Tasks' = Tasks \ gone
  <2>1. \A s \in Task : s \in Tasks' <=> s \in Tasks \ gone
    BY <1>6, <1>7 DEF Tasks
  <2> QED
    BY <2>1 DEF Tasks
<1>9. ParentOf' = [s \in Task |-> IF s \in gone \/ ParentOf[s] \in gone THEN NoTask ELSE ParentOf[s]]
  <2>1. ASSUME NEW s \in Task
        PROVE  ParentOf'[s] = IF s \in gone \/ ParentOf[s] \in gone THEN NoTask ELSE ParentOf[s]
    <3>1. CASE s \in Tasks \ gone
      <4>1. ParentOf'[s] = row'[s].parent
        BY <1>6, <3>1 DEF ParentOf, Tasks
      <4> QED
        BY <1>1, <1>6, <3>1, <4>1
    <3>2. CASE s \notin Tasks \ gone
      <4>1. ParentOf'[s] = NoTask
        BY <1>7, <3>2 DEF ParentOf
      <4> QED
        BY <1>1, <1>5, <3>2, <4>1
    <3> QED
      BY <3>1, <3>2
  <2> QED
    BY <2>1 DEF ParentOf
<1>10. Board!Stay(Task \ gone)
  <2>1. \A s \in Task \ gone : s \in Tasks' <=> s \in Tasks
    BY <1>8
  <2>2. \A s \in Task \ gone : s \in Tasks =>
           row'[s].column = row[s].column /\ row'[s].position = row[s].position
    BY <1>6
  <2> QED
    BY <2>1, <2>2, StayHolds
<1>11. Board!Delete(t)
  <2>1. Board!Tasks = Tasks /\ Board!Tasks' = Tasks'
    BY <1>0 DEF Listed
  <2> QED
    BY <1>2, <1>8, <1>9, <1>10, <2>1 DEF Board!Delete, gone
<1> QED
  BY <1>11 DEF Board!Next

\* A task gets another parent and another place, or keeps them, and the others stay.
LEMMA EditHolds ==
    ASSUME Apart, Apart', NoCycles', NEW t \in Task, t \in Tasks, NEW q \in Parent, q \in Valid,
           \A s \in Task : row'[s] = NoRow <=> row[s] = NoRow,
           row'[t].parent = q,
           \A s \in Tasks \ {t} : /\ row'[s].parent = row[s].parent
                                  /\ row'[s].column = row[s].column,
           \A s, u \in Tasks \ {t} :
              row[s].column = row[u].column /\ row[s].position < row[u].position =>
                 row'[s].position < row'[u].position
    PROVE  Board!Next
<1>0. Listed
  BY ListedHolds
<1>1. Tasks' = Tasks /\ Tasks \subseteq Task
  BY DEF Tasks
<1>2. ParentOf' = [ParentOf EXCEPT ![t] = q]
  <2>1. \A s \in Task : ParentOf'[s] = IF s = t THEN q ELSE ParentOf[s]
    BY DEF ParentOf, Tasks
  <2> QED
    BY <2>1 DEF ParentOf
<1>3. Board!Stay(Task \ {t})
  BY <1>1, StayHolds
<1>4. row'[t].column \in Column
  BY <1>1, RowTypes DEF Apart, TypeOK, Tasks
<1>5. PICK c \in Column : c = row'[t].column
  BY <1>4
<1>6. \E i \in DOMAIN (List(c))' : Board!PutAt(t, c, i)
  BY <1>1, <1>5, PutHolds
<1>7. Board!Moves(t)
  BY <1>3, <1>6 DEF Board!Moves
<1>8. Board!Acyclic(ParentOf')
  BY DEF NoCycles, Board!Acyclic
<1>9. q \in Tasks \cup {NoTask}
  BY DEF Valid
<1>10. Board!Edit(t, q)
  BY <1>0, <1>2, <1>7, <1>8, <1>9 DEF Listed, Board!Edit
<1> QED
  BY <1>10 DEF Board!Next, Parent

LEMMA WriteEdits ==
    ASSUME Apart, Apart', NoCycles', PlaceInv, NEW p \in Request, UpdateTask(p) \/ MoveTask(p)
    PROVE  Board!Next \/ UNCHANGED row
<1>0. TypeInv /\ TypeOK /\ PlacesKnown
  BY DEF PlaceInv, TypeInv
<1>1. CASE UNCHANGED row
  BY <1>1
<1>2. CASE ~UNCHANGED row
  <2> DEFINE r == req[p]
  <2>1. r # Idle /\ r.op = "Update" /\ Reparents(r)
    BY <1>0, UpdateStep, MoveStep
  <2>2. r.task \in Tasks /\ r.mine.parent \in Valid /\ r.mine.parent \in Parent
    BY <1>0, <1>2, <2>1, RequestTypes, RowTypes DEF Reparents
  <2>3. \A s \in Tasks \ {r.task} : row'[s].column = row[s].column
    <3>1. CASE UpdateTask(p)
      BY <1>0, <1>2, <3>1, UpdateStep DEF Tasks
    <3>2. CASE MoveTask(p)
      BY <1>2, <3>2, MoveOrders
    <3> QED
      BY <3>1, <3>2
  <2>4. \A s, u \in Tasks \ {r.task} :
           row[s].column = row[u].column /\ row[s].position < row[u].position =>
              row'[s].position < row'[u].position
    <3>1. CASE UpdateTask(p)
      BY <1>0, <1>2, <3>1, UpdateStep DEF Tasks
    <3>2. CASE MoveTask(p)
      BY <1>2, <3>2, MoveOrders
    <3> QED
      BY <3>1, <3>2
  <2> HIDE DEF r
  <2>5. PICK t \in Task, q \in Parent : t = r.task /\ q = r.mine.parent
    BY <2>2 DEF Tasks
  <2>6. /\ \A s \in Task : row'[s] = NoRow <=> row[s] = NoRow
        /\ row'[t].parent = q
        /\ \A s \in Tasks \ {t} : row'[s].parent = row[s].parent
    BY <1>2, <2>1, <2>5 DEF Reparents
  <2>7. t \in Tasks /\ q \in Valid
    BY <2>2, <2>5
  <2>8. /\ \A s \in Tasks \ {t} : row'[s].parent = row[s].parent /\ row'[s].column = row[s].column
        /\ \A s, u \in Tasks \ {t} :
              row[s].column = row[u].column /\ row[s].position < row[u].position =>
                 row'[s].position < row'[u].position
    BY <2>3, <2>4, <2>5, <2>6
  <2>9. Board!Next
    BY <2>6, <2>7, <2>8, EditHolds
  <2> QED
    BY <2>9
<1> QED
  BY <1>1, <1>2

\* Each step of the tasks is a step of the lists and trees, or leaves them.
LEMMA StepImplements ==
    ASSUME TreeInv, PlaceInv, TreeInv', PlaceInv', [Next]_vars
    PROVE  Board!Next \/ UNCHANGED <<[c \in Column |-> List(c)], ParentOf>>
<1>1. Apart /\ NoCycles
  BY DEF TreeInv, PlaceInv, TypeInv, Apart
<1>2. (Apart /\ NoCycles)'
  BY DEF TreeInv, PlaceInv, TypeInv, Apart
<1>3. ASSUME UNCHANGED row PROVE UNCHANGED <<[c \in Column |-> List(c)], ParentOf>>
  BY <1>3 DEF List, Tasks, Rank, Above, ParentOf
<1>4. ASSUME NEW p \in Request, InsertTask(p) \/ UpdateTask(p) \/ MoveTask(p)
      PROVE  Board!Next \/ UNCHANGED row
  BY <1>1, <1>2, <1>4, InsertCreates, WriteEdits
<1>5. ASSUME NEW t \in Task, DeleteTask(t) PROVE Board!Next
  BY <1>1, <1>2, <1>5, DeleteDeletes
<1>6. ASSUME NEW p \in Request,
             \/ BeginUpdate(p) \/ Walk(p) \/ LockColumn(p) \/ SelectRows(p) \/ RequestFails(p)
      PROVE  UNCHANGED row
  BY <1>6 DEF BeginUpdate, Walk, LockColumn, SelectRows, RequestFails
<1> QED
  BY <1>3, <1>4, <1>5, <1>6 DEF Next, vars

LEMMA BoardStarts == Init => Board!Init
<1> SUFFICES ASSUME Init PROVE Board!Init
  OBVIOUS
<1>1. Tasks = {} /\ ParentOf = [t \in Task |-> NoTask]
  BY DEF Init, NoRows, Tasks, ParentOf
<1>2. ASSUME NEW c \in Column PROVE List(c) = <<>>
  <2>1. {t \in Tasks : row[t].column = c} = {}
    BY <1>1
  <2> DEFINE S == {t \in Tasks : row[t].column = c}
  <2> HIDE DEF S
  <2>2. S = {} /\ Cardinality(S) = 0
    BY <2>1, FS_EmptySet DEF S
  <2>3. List(c) = [n \in 1..Cardinality(S) |-> CHOOSE t \in S : Rank(row, S, t) = n - 1]
    BY DEF List, S
  <2> QED
    BY <2>2, <2>3
<1> QED
  BY <1>1, <1>2 DEF Board!Init

\* Users see lists of tasks, where a new one comes to the top, and that change where a task
\* is moved or deleted and nowhere else, and trees: every behaviour of the tasks is one of
\* TaskBoard, for any ids, columns, requests and failures, if no update is in progress
\* beside another one or beside a creation.
THEOREM TasksKeepTheLists ==
    ASSUME {"Update"} \notin Together, {"Create", "Update"} \notin Together
    PROVE  Spec => ListsKept
<1>1. Init => TreeInv /\ PlaceInv
  BY TreesInit, PlacesInit
<1>2. TreeInv /\ PlaceInv /\ [Next]_vars => (TreeInv /\ PlaceInv)'
  BY TreesStep, PlacesStep
<1>3. (TreeInv /\ PlaceInv) /\ (TreeInv /\ PlaceInv)' /\ [Next]_vars => [Board!Next]_(Board!vars)
  BY StepImplements DEF Board!vars
<1> QED
  BY <1>1, <1>2, <1>3, BoardStarts, PTL DEF Spec, ListsKept, Board!Spec
=============================================================================
