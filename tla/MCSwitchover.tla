---------------------------- MODULE MCSwitchover ----------------------------
(* Two clusters, blue with the primary; the writes are interchangeable. *)
EXTENDS Switchover, TLC

CONSTANTS blue, green, w0, w1, w2, e1, e2, p1

OtherColor == (blue :> green) @@ (green :> blue)
Same == Permutations({w1, w2})
=============================================================================
