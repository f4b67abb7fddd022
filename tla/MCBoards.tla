------------------------------ MODULE MCBoards ------------------------------
(* Small instances of Boards. *)
EXTENDS Boards, TLC

AllTogether == {{a, b} : a, b \in OpNames}

\* What may overlap: no update beside a new order or a choice of the main board, no
\* such choice beside a deletion or a creation, which may be undone, no favorite
\* beside a deletion or a creation, no creation beside a new order; each of these
\* breaks a property, the last one with four boards.  Favorites are also apart from
\* what does not touch them.
Apart == AllTogether \ {{"Update", "SetMain"}, {"Update", "Reorder"}, {"Create", "Reorder"},
                        {"SetMain", "Delete"}, {"SetMain", "Create"},
                        {"AddFavorite", "Delete"}, {"AddFavorite", "Create"},
                        {"AddFavorite", "Update"}, {"AddFavorite", "Reorder"}}

Symmetry == Permutations(Board) \cup Permutations(Request) \cup Permutations(User)
=============================================================================
