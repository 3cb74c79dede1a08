----------------------------- MODULE MCFencing -----------------------------
(* A worker of one cluster and a sweeper of the other. *)
EXTENDS Fencing, TLC

CONSTANTS blue, green, w, s

Home == (w :> blue) @@ (s :> green)
=============================================================================
