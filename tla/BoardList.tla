------------------------------ MODULE BoardList -----------------------------
(***************************************************************************)
(* The boards of a workspace as its members see them: a list with one main *)
(* board, to which a new board is added at the end, and which is put in    *)
(* another order as a whole.                                               *)
(***************************************************************************)
EXTENDS Naturals, Sequences, SequencesExt

CONSTANT Board

VARIABLES
    list, \* the boards in their order
    main  \* the main board

vars == <<list, main>>

Boards == {list[i] : i \in DOMAIN list}

Init == \E b \in Board : list = <<b>> /\ main = b

Add(b) ==
    /\ b \notin Boards
    /\ list' = Append(list, b)
    /\ UNCHANGED main

\* The main board cannot be removed.
Drop(b) ==
    /\ b # main
    /\ \E i \in DOMAIN list : list[i] = b /\ list' = RemoveAt(list, i)
    /\ UNCHANGED main

Arrange ==
    /\ \E f \in [DOMAIN list -> DOMAIN list] :
          /\ \A i, j \in DOMAIN list : f[i] = f[j] => i = j
          /\ list' = [i \in DOMAIN list |-> list[f[i]]]
    /\ UNCHANGED main

MakeMain(b) ==
    /\ b \in Boards
    /\ main' = b
    /\ UNCHANGED list

Next == Arrange \/ \E b \in Board : Add(b) \/ Drop(b) \/ MakeMain(b)

Spec == Init /\ [][Next]_vars
=============================================================================
