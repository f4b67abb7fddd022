------------------------------ MODULE TaskBoard -----------------------------
(***************************************************************************)
(* What the task operations promise their users: each column is a list of  *)
(* tasks, whose order changes where a user moves a task and nowhere else,  *)
(* and tasks have parents, without circles.                                *)
(***************************************************************************)
EXTENDS Naturals, Sequences, SequencesExt

CONSTANTS Task, Column, NoTask

VARIABLES
    lists, \* lists[c]: the tasks of the column c, the topmost first
    parent \* parent[t]: the parent of the task t, or NoTask

vars == <<lists, parent>>

Tasks == UNION {ToSet(lists[c]) : c \in Column}

\* No task is an ancestor of itself: in any set of tasks one has no parent in it.
Acyclic(par) == \A S \in SUBSET Task : S # {} => \E t \in S : par[t] \notin S

Init ==
    /\ lists = [c \in Column |-> <<>>]
    /\ parent = [t \in Task |-> NoTask]

Over(L, s, t) == \E i, j \in DOMAIN L : i < j /\ L[i] = s /\ L[j] = t

\* M has the members of S that L has, in the same order.
Keeps(L, M, S) ==
    /\ M \in Seq(Task)
    /\ ToSet(M) \cap S = ToSet(L) \cap S
    /\ \A s, t \in S : Over(M, s, t) <=> Over(L, s, t)

\* The tasks of S stay in their columns, in their order.
Stay(S) == \A c \in Column : Keeps(lists[c], lists'[c], S)

\* The task t is at the place i of the column c, and nowhere else.
PutAt(t, c, i) ==
    /\ i \in DOMAIN lists'[c]
    /\ \A d \in Column : LET L == lists'[d] IN \A j \in DOMAIN L : L[j] = t <=> d = c /\ j = i

\* A new task is the first of its column.
Create(t, c, q) ==
    /\ t \notin Tasks /\ q \in Tasks \cup {NoTask}
    /\ parent' = [parent EXCEPT ![t] = q]
    /\ PutAt(t, c, 1) /\ Stay(Task \ {t})

\* A task moves, or stays where it is; the others stay.
Moves(t) ==
    /\ \E c \in Column : \E i \in DOMAIN lists'[c] : PutAt(t, c, i)
    /\ Stay(Task \ {t})

Edit(t, q) ==
    /\ t \in Tasks /\ q \in Tasks \cup {NoTask}
    /\ parent' = [parent EXCEPT ![t] = q]
    /\ Acyclic(parent')
    /\ Moves(t)

\* A task is deleted with its children; their children lose their parent.
Delete(t) ==
    LET gone == {s \in Tasks : s = t \/ parent[s] = t} IN
    /\ t \in Tasks
    /\ parent' = [s \in Task |-> IF s \in gone \/ parent[s] \in gone THEN NoTask ELSE parent[s]]
    /\ Tasks' = Tasks \ gone /\ Stay(Task \ gone)

Next ==
    \E t \in Task :
        \/ \E q \in Task \cup {NoTask} : Edit(t, q)
        \/ \E c \in Column, q \in Task \cup {NoTask} : Create(t, c, q)
        \/ Delete(t)

Spec == Init /\ [][Next]_vars
=============================================================================
