------------------------------- MODULE Verify -------------------------------
(***************************************************************************)
(* The reconciliation: what `cm verify` (engine/clustermotion/verify.py)   *)
(* computes from the tables, between the first and the last write that the *)
(* load test logged as confirmed.  The queries about single orders test    *)
(* what module Orders states as invariants; here are those about time.     *)
(***************************************************************************)
EXTENDS Integers, FiniteSetsExt

CONSTANTS
    Cluster,
    SlotTime,   \* slot_seconds
    Grace       \* grace_slots

ASSUME SlotsArePositive == SlotTime \in Nat \ {0} /\ Grace \in Nat

NoTime == -1
----------------------------------------------------------------------------
(* reconcile *)

date_bin(t) == (t \div SlotTime) * SlotTime

\* The load test may start and stop within a slot.
until_slots(until) == until - SlotTime * Grace
since_slots(since) == since + SlotTime * Grace

\* missed_slots
missed_slots(ran, since, until) ==
    {s \in date_bin(since_slots(since))..date_bin(until_slots(until)) : s % SlotTime = 0} \ ran

\* consumer_windows, over the applied rows of fulfillment_log
windows(processed, since) ==
    LET rows(c) == {p.at : p \in {p \in processed : p.cluster = c /\ p.at >= since_slots(since)}}
    IN  [c \in {c \in Cluster : rows(c) # {}} |-> [first |-> Min(rows(c)), last |-> Max(rows(c))]]

\* From the later of the beginnings to the earlier of the ends, when both clusters have a
\* window.  (Slip: from the earlier one to the later one.)
overlap_secondsUnion(ws) ==
    LET together == {p \in (DOMAIN ws) \X (DOMAIN ws) : p[1] # p[2]}
        overlap(v, w) == Max({v.last, w.last}) - Min({v.first, w.first})
    IN  Max({0} \cup {overlap(ws[p[1]], ws[p[2]]) : p \in together})
overlap_seconds(ws) ==
    LET together == {p \in (DOMAIN ws) \X (DOMAIN ws) : p[1] # p[2]}
        overlap(v, w) == Min({v.last, w.last}) - Max({v.first, w.first})
    IN  Max({0} \cup {overlap(ws[p[1]], ws[p[2]]) : p \in together})
=============================================================================
