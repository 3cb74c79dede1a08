------------------------------ MODULE MCOrders ------------------------------
(* Small shops for TLC. *)
EXTENDS Orders, TLC

CONSTANTS k1, k2, r1, r2, w1, w2, j1, j2, m1, m2

\* A client retries its key (r1, r2).
Retrying == (r1 :> k1) @@ (r2 :> k1)

\* Two orders, of which a sweep takes one.
TwoOrders == (r1 :> k1) @@ (r2 :> k2)

Alike == Permutations({w1, w2}) \cup Permutations({j1, j2}) \cup Permutations({m1, m2})
           \cup Permutations({r1, r2})
=============================================================================
