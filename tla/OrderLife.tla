----------------------------- MODULE OrderLife -----------------------------
(***************************************************************************)
(* What the shop promises for every idempotency key: at most one order is  *)
(* accepted, it has one effect, and an accepted order is fulfilled in the  *)
(* end.                                                                    *)
(***************************************************************************)
EXTENDS Naturals

CONSTANT Key
VARIABLES status, effects

Init ==
    /\ status = [k \in Key |-> "none"]
    /\ effects = [k \in Key |-> 0]

Accept(k) ==
    /\ status[k] = "none"
    /\ status' = [status EXCEPT ![k] = "PENDING"]
    /\ UNCHANGED effects

Fulfil(k) ==
    /\ status[k] = "PENDING"
    /\ status' = [status EXCEPT ![k] = "FULFILLED"]
    /\ effects' = [effects EXCEPT ![k] = 1]

Next == \E k \in Key : Accept(k) \/ Fulfil(k)

Spec ==
    /\ Init /\ [][Next]_<<status, effects>>
    /\ \A k \in Key : WF_<<status, effects>>(Fulfil(k))
=============================================================================
