----------------------------- MODULE FreshViews -----------------------------
(***************************************************************************)
(* What the cached views of the service promise their readers, whatever    *)
(* keeps them: an answer shows every write that had been acknowledged when *)
(* the view was asked for, and none that has not happened.                 *)
(*                                                                         *)
(* A fact is a part of the database that is read at once and written as a  *)
(* whole; its state is the number of writes made to it.                    *)
(***************************************************************************)
EXTENDS Naturals

CONSTANTS View, Fact, Reader, Nobody,
          FactsOf \* FactsOf[v]: the facts the view v shows

VARIABLES
    written, \* written[f]: the writes made to f
    acked,   \* acked[f]: how many of them are acknowledged to their writers
    query    \* query[p]: the view p asked for and the answer, or Nobody

vars == <<written, acked, query>>

Init ==
    /\ written = [f \in Fact |-> 0]
    /\ acked = [f \in Fact |-> 0]
    /\ query = [p \in Reader |-> Nobody]

Write(f) ==
    /\ written' = [written EXCEPT ![f] = @ + 1]
    /\ UNCHANGED <<acked, query>>

Acknowledge ==
    /\ acked' \in [Fact -> Nat]
    /\ \A f \in Fact : acked[f] <= acked'[f] /\ acked'[f] <= written[f]
    /\ UNCHANGED <<written, query>>

Ask(p, v) ==
    /\ query[p] = Nobody
    /\ query' = [query EXCEPT ![p] = [view |-> v, floor |-> acked, answer |-> Nobody]]
    /\ UNCHANGED <<written, acked>>

Answer(p) ==
    /\ query[p] # Nobody /\ query[p].answer = Nobody /\ query'[p] # Nobody
    /\ LET a == query'[p].answer IN
       /\ query' = [query EXCEPT ![p] = [query[p] EXCEPT !.answer = a]]
       /\ a \in [Fact -> Nat]
       /\ \A f \in FactsOf[query[p].view] :
             query[p].floor[f] <= a[f] /\ a[f] <= written[f]
    /\ UNCHANGED <<written, acked>>

\* The reader has its answer, or gives up.
Leave(p) ==
    /\ query' = [query EXCEPT ![p] = Nobody]
    /\ UNCHANGED <<written, acked>>

Next ==
    \/ \E f \in Fact : Write(f)
    \/ Acknowledge
    \/ \E p \in Reader : (\E v \in View : Ask(p, v)) \/ Answer(p) \/ Leave(p)

Spec == Init /\ [][Next]_vars
=============================================================================
