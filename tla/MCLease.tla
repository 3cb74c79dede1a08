------------------------------ MODULE MCLease ------------------------------
(* Two clusters for TLC; green's clock may run a unit ahead of blue's. *)
EXTENDS Lease, TLC

CONSTANTS blue, green

NoSkew == [c \in Cluster |-> 0]
GreenAhead == [c \in Cluster |-> IF c = green THEN 1 ELSE 0]

Colors == Permutations({blue, green})
=============================================================================
