------------------------------- MODULE MCFiles -------------------------------
(* Small instances of Files. *)
EXTENDS Files, TLC

AllTogether == {{a, b} : a, b \in OpNames}

\* What may overlap on one task, attachment or account: nothing that gives a key to
\* a task beside its deletion, no deletion of an attachment beside its creation, and
\* one change of a row at a time; each of these leaves an object.
Apart == AllTogether \ {{"CreateTask", "Delete"}, {"Attach", "Delete"}, {"Update", "Delete"},
                        {"Attach", "Detach"}, {"Update"}, {"Account"}, {"Account", "DeleteUser"}}

Symmetry == Permutations(Image) \cup Permutations(File) \cup Permutations(Request)
=============================================================================
