----------------------------- MODULE Singleton -----------------------------
(***************************************************************************)
(* What the lease promises: singleton workloads are switched on in at most *)
(* one cluster, and move to another one only after they were off in all.   *)
(***************************************************************************)
CONSTANT Cluster
VARIABLE active

Init == active = {}

SwitchOn(c) == active = {} /\ active' = {c}
SwitchOff == active # {} /\ active' = {}

Next == SwitchOff \/ \E c \in Cluster : SwitchOn(c)

Spec == Init /\ [][Next]_active
=============================================================================
