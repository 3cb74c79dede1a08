------------------------------ MODULE Evidence ------------------------------
(***************************************************************************)
(* What a migration leaves in the tables `cm verify` reads, with time: the *)
(* CronJob controllers fire order-sweeper at the beginning of each slot    *)
(* (gitops/charts/shop/templates/sweeper.yaml), the jobs claim the slot    *)
(* they run in (services/orders/app/sweeper.py), the workers process       *)
(* orders, and the lease moves, with the switches of module Lease: off in  *)
(* one cluster before on in the other, or both on when an agent died.      *)
(*                                                                         *)
(* A controller and a job are as fast as Deadline and StartUp say; a       *)
(* handoff takes as long as it likes, and a job may fail.                  *)
(***************************************************************************)
EXTENDS Verify

CONSTANTS
    First,      \* the cluster that holds the lease to begin with
    Deadline,   \* startingDeadlineSeconds
    StartUp,    \* from the creation of a job to the commit of its claim
    Fence,      \* how long a unit may start after the lease was lost (Fencing, Bound)
    MaxFaults,  \* bound on the slots in which a job died or could not read the lease
    MaxTime, MaxMoves, MaxOrders  \* bounds on time, moves of the lease and orders

\* A job that is created when its slot begins runs in that slot (activeDeadlineSeconds).
ASSUME DelaysAreTimes ==
    StartUp \in Nat /\ Deadline \in Nat /\ Fence \in Nat /\ First \in Cluster
ASSUME JobsAreShort == StartUp < SlotTime

VARIABLES
    now,
    holder, on,     \* of the lease; where the workloads are switched on
    off,            \* since when the holder's are off, if they are
    lost,           \* when each cluster lost the lease
    moves, expired, \* of the lease; whether one was taken from a dead agent (history)
    fired, job,     \* per CronJob: lastScheduleTime; when its active job was created
    rows,           \* of sweeper_runs
    failed,         \* slots in which a job died without a row (history)
    unread,         \* slots in which the holder's job could not read the lease (history)
    stalled,        \* slots that a handoff begun before them took too much of (history)
    processed       \* applied rows of fulfillment_log

vars == <<now, holder, on, off, lost, moves, expired, fired, job, rows, failed, unread,
          stalled, processed>>
leaseVars == <<holder, on, off, lost, moves, expired>>
cronVars == <<fired, job, rows, failed, unread, stalled>>
----------------------------------------------------------------------------
\* concurrencyPolicy Forbid and startingDeadlineSeconds; a schedule fires once.
due(c) ==
    /\ c \in on /\ job[c] = NoTime
    /\ fired[c] < date_bin(now) /\ now - date_bin(now) <= Deadline
----------------------------------------------------------------------------
(* The lease. *)

\* A handoff is asked for: not before the controller has seen that it is switched on.
Drain ==
    /\ holder \in on /\ ~due(holder) /\ moves < MaxMoves
    /\ on' = on \ {holder} /\ off' = now /\ moves' = moves + 1
    /\ UNCHANGED <<now, holder, lost, expired, cronVars, processed>>

\* The lease is released when no job runs, and acquired, perhaps by the same cluster.
HandOver(c) ==
    /\ holder \notin on /\ job[holder] = NoTime
    /\ holder' = c /\ on' = on \cup {c} /\ off' = NoTime
    /\ lost' = IF c = holder THEN lost ELSE [lost EXCEPT ![holder] = now]
    /\ UNCHANGED <<now, moves, expired, cronVars, processed>>

\* The holder's agent died, or drains for too long: another one takes the expired lease.
TakeOver(c) ==
    /\ c # holder /\ moves < MaxMoves
    /\ holder' = c /\ on' = on \cup {c} /\ off' = NoTime
    /\ lost' = [lost EXCEPT ![holder] = now] /\ moves' = moves + 1
    /\ expired' = TRUE
    /\ UNCHANGED <<now, cronVars, processed>>

SwitchOffLate(c) ==
    /\ c \in on /\ c # holder /\ on' = on \ {c}
    /\ UNCHANGED <<now, holder, off, lost, moves, expired, cronVars, processed>>
----------------------------------------------------------------------------
(* order-sweeper. *)

Fire(c) ==
    /\ due(c)
    /\ fired' = [fired EXCEPT ![c] = date_bin(now)] /\ job' = [job EXCEPT ![c] = now]
    /\ UNCHANGED <<now, leaseVars, rows, failed, unread, stalled, processed>>

\* The slot is the one the job runs in.  (Slip: the nearest one.)
current_slotNearest(t) == date_bin(t + SlotTime \div 2)
current_slot(t) == date_bin(t)

slots(outcome) == {r.slot : r \in {r \in rows : r.outcome = outcome}}

Record(c, outcome) ==
    /\ job' = [job EXCEPT ![c] = NoTime]
    /\ rows' = rows \cup {[slot |-> current_slot(now), outcome |-> outcome]}
    /\ UNCHANGED <<now, leaseVars, fired, failed, stalled, processed>>

\* A job without the lease is fenced; of a slot that has a row 'ran', the claim is refused.
RunJob(c) ==
    /\ job[c] # NoTime
    /\ Record(c, IF holder # c THEN "fenced"
                 ELSE IF current_slot(now) \in slots("ran") THEN "duplicate-skipped" ELSE "ran")
    /\ UNCHANGED unread

MoreFaults == Cardinality(failed) + Cardinality(unread) < MaxFaults

\* holds_lease fails closed: a lease that cannot be read fences the holder's own job.
RunUnread(c) ==
    /\ job[c] # NoTime /\ holder = c /\ MoreFaults
    /\ Record(c, "fenced")
    /\ unread' = unread \cup {current_slot(now)}

\* A call of the database or of the queue fails, and that of the one retry (backoffLimit), or
\* the job's time is up: what it wrote is rolled back.
JobFails(c) ==
    /\ job[c] # NoTime /\ MoreFaults
    /\ job' = [job EXCEPT ![c] = NoTime]
    /\ failed' = failed \cup {current_slot(now)}
    /\ UNCHANGED <<now, leaseVars, fired, rows, unread, stalled, processed>>
----------------------------------------------------------------------------
\* A worker processes an order: its cluster holds the lease, or the fence still lets it.
fenced(c) == holder # c /\ (lost[c] = NoTime \/ now - lost[c] > Fence)

Process(c) ==
    /\ ~fenced(c) /\ Cardinality(processed) < MaxOrders
    /\ processed' = processed \cup {[cluster |-> c, at |-> now]}
    /\ UNCHANGED <<now, leaseVars, cronVars>>

\* How late in its slot a job can be created that still runs there.
Leeway == IF Deadline + StartUp < SlotTime THEN Deadline ELSE SlotTime - StartUp - 1

\* The handoff began before the slot and leaves it no time for its job.
outlasted == off # NoTime /\ off < date_bin(now) /\ now - date_bin(now) >= Leeway

\* Time passes when nothing is overdue.  A handoff takes as long as its jobs drain.
Tick ==
    /\ now < MaxTime /\ now' = now + 1
    /\ \A c \in Cluster : ~due(c) /\ (job[c] # NoTime => now < job[c] + StartUp)
    /\ stalled' = IF outlasted THEN stalled \cup {date_bin(now)} ELSE stalled
    /\ UNCHANGED <<leaseVars, fired, job, rows, failed, unread, processed>>
----------------------------------------------------------------------------
\* The CronJobs have fired up to a schedule.
InitEvidence(schedule) ==
    /\ now = 0 /\ holder = First /\ on = {First} /\ off = NoTime /\ moves = 0 /\ expired = FALSE
    /\ lost = [c \in Cluster |-> NoTime]
    /\ fired = [c \in Cluster |-> schedule] /\ job = [c \in Cluster |-> NoTime] /\ rows = {}
    /\ failed = {} /\ unread = {} /\ stalled = {}
    /\ processed = {}

MoveLease == Drain \/ \E c \in Cluster : HandOver(c) \/ TakeOver(c) \/ SwitchOffLate(c)
Sweep == \E c \in Cluster : Fire(c) \/ RunJob(c) \/ RunUnread(c) \/ JobFails(c)

Proceed == MoveLease \/ Sweep \/ (\E c \in Cluster : Process(c)) \/ Tick

EvidenceSpec(schedule) == InitEvidence(schedule) /\ [][Proceed]_vars
----------------------------------------------------------------------------
\* "A slot missed during handoff still runs", wherever the lease goes: cm verify misses no
\* slot of a load test, whenever that began and ended, but one in which a job died, one whose
\* job was fenced, as the table says, because it could not read the lease or because a lease
\* had expired, and one that a handoff begun before it left no time for.  No other handoff
\* costs a slot, and no fault one but its own.
SlotsAreRun ==
    \A since, until \in 0..now : since <= until =>
        \A s \in missed_slots(slots("ran"), since, until) :
            \/ s \in failed \cup stalled
            \/ s \in slots("fenced") /\ (expired \/ s \in unread)

\* A load test that began before the orders, or among them.
WindowStarts == (-SlotTime * Grace)..now

\* After one move of the lease, verify reports consumers of both clusters at once only
\* for work the fence let through, and for no longer than that.
OverlapIsFenced ==
    moves <= 1 => \A since \in WindowStarts : overlap_seconds(windows(processed, since)) <= Fence

\* Clusters that take turns, twice each, within the window are always reported.
OverlapIsSeen ==
    \A since \in WindowStarts :
        LET seen == {p \in processed : p.at >= since_slots(since)}
        IN  (\E p, q, r, s \in seen :
                /\ p.cluster = r.cluster /\ q.cluster = s.cluster /\ p.cluster # q.cluster
                /\ p.at < q.at /\ q.at < r.at /\ r.at < s.at)
            => overlap_seconds(windows(processed, since)) > 0

\* What verify says of consumers in both clusters is so.
OverlapIsTold == OverlapIsFenced /\ OverlapIsSeen
=============================================================================
