------------------------------- MODULE Store -------------------------------
(***************************************************************************)
(* What the order database promises while it moves between clusters: one   *)
(* store that is sometimes down, and that comes back with every write it   *)
(* ever confirmed.                                                         *)
(***************************************************************************)
CONSTANTS Write, Base

VARIABLES writes, up

Init == writes = {Base} /\ up = TRUE

Commit == up /\ UNCHANGED up /\ \E w \in Write \ writes : writes' = writes \cup {w}
Down == up /\ up' = FALSE /\ UNCHANGED writes
Up == ~up /\ up' = TRUE /\ UNCHANGED writes

Next == Commit \/ Down \/ Up

Spec == Init /\ [][Next]_<<writes, up>>
=============================================================================
