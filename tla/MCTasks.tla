------------------------------- MODULE MCTasks ------------------------------
(* Small instances of Tasks. *)
EXTENDS Tasks, TLC

\* Creations run beside each other, and nothing beside an update.
FewTogether == {{"Create"}}

\* Anything runs beside anything.
AllTogether == {{a, b} : a, b \in OpNames}

Symmetry == Permutations(Task) \cup Permutations(Request)
=============================================================================
