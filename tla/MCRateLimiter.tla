---------------------------- MODULE MCRateLimiter ----------------------------
(* Small instances of RateLimiter. *)
EXTENDS RateLimiter, TLC

\* One server has enough requests to reach the limit by itself.
Requests == [w \in Server |-> IF w = "w1" THEN Limit + 1 ELSE 1]

Symmetry == Permutations(Request)
=============================================================================
