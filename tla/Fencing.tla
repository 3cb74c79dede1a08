------------------------------ MODULE Fencing ------------------------------
(***************************************************************************)
(* The fencing check of the singleton workloads: LeaseGuard                *)
(* (services/shared/lease_guard.py) as the fulfillment worker and the      *)
(* order sweeper use it.  The lease moves at any time, as far as a guard   *)
(* can tell.                                                               *)
(***************************************************************************)
EXTENDS Integers

CONSTANTS
    Cluster, NoOne,   \* the clusters, and the empty holder
    Worker, Sweeper,  \* the processes: worker pods and sweeper pods
    ClusterOf,        \* the cluster each process runs in
    Cache,            \* LeaseGuard.cache_seconds
    CallTime,         \* bound on the read of the lease item
    FetchTime,        \* bound on the long poll of a receive, or on connecting
    UnitTime,         \* bound on one unit of work
    BatchSize,        \* MaxNumberOfMessages
    MaxTime           \* bound on the clock

Process == Worker \cup Sweeper

ASSUME ClustersAreNamed == ClusterOf \in [Process -> Cluster] /\ NoOne \notin Cluster
ASSUME TimesAreNatural ==
    /\ Cache \in Nat /\ CallTime \in Nat /\ FetchTime \in Nat /\ UnitTime \in Nat
    /\ BatchSize \in Nat \ {0} /\ MaxTime \in Nat

VARIABLES
    now,       \* time
    holder,    \* the holder attribute of the lease item
    held,      \* when each cluster last held the lease (history)
    pc,        \* where each process is
    since,     \* when it got there
    answer,    \* what the pending read of the item returned
    value,     \* LeaseGuard._value
    checked,   \* LeaseGuard._checked_at
    left       \* units of the current batch not started yet

vars == <<now, holder, held, pc, since, answer, value, checked, left>>
guardVars == <<answer, value, checked>>

Never == -1     \* float("-inf"), and a cluster that never held the lease

\* How long after its cluster lost the lease a unit may still start.
Bound == CallTime + Cache + FetchTime + BatchSize * UnitTime

Goto(p, to) == pc' = [pc EXCEPT ![p] = to] /\ since' = [since EXCEPT ![p] = now]
----------------------------------------------------------------------------
(* LeaseGuard.holds_lease *)

\* A worker keeps its guard, a sweeper makes a new one (slip: the age of the
\* cached value is not looked at).
cachedForever(p) == p \in Worker /\ checked[p] # Never
cached(p) == p \in Worker /\ checked[p] # Never /\ now - checked[p] < Cache

\* The cached value is fresh enough.
FromCache(p) ==
    /\ pc[p] = "check" /\ cached(p) /\ value[p]
    /\ Goto(p, "fetch")
    /\ UNCHANGED <<now, holder, held, guardVars, left>>

\* The read of the item; an error counts as "no" (slip: as the last answer).
failedOpen(p) == value[p]
failed(p) == FALSE

Ask(p) ==
    /\ pc[p] = "check" /\ ~cached(p)
    /\ \/ answer' = [answer EXCEPT ![p] = (holder = ClusterOf[p])]
       \/ answer' = [answer EXCEPT ![p] = failed(p)]
    /\ Goto(p, "asked")
    /\ UNCHANGED <<now, holder, held, value, checked, left>>

\* The value is dated when the read returns, not when it was true.
Answered(p) ==
    /\ pc[p] = "asked"
    /\ value' = [value EXCEPT ![p] = answer[p]]
    /\ checked' = [checked EXCEPT ![p] = now]
    /\ Goto(p, IF answer[p] THEN "fetch" ELSE "check")
    /\ UNCHANGED <<now, holder, held, answer, left>>
----------------------------------------------------------------------------
(* The work. *)

\* receive_message returns a batch, perhaps an empty one; a sweeper connects.
Fetched(p) ==
    /\ pc[p] = "fetch"
    /\ \E n \in IF p \in Worker THEN 0..BatchSize ELSE {1} :
         /\ left' = [left EXCEPT ![p] = n]
         /\ Goto(p, IF n = 0 THEN "check" ELSE "batch")
    /\ UNCHANGED <<now, holder, held, guardVars>>

\* The next message of the batch, or the sweeper's claim: nobody asks again
\* (slip: past the end of the batch).
StartUnitAny(p) ==
    /\ pc[p] = "batch"
    /\ left' = [left EXCEPT ![p] = @ - 1]
    /\ Goto(p, "batch")
    /\ UNCHANGED <<now, holder, held, guardVars>>

StartUnit(p) ==
    /\ pc[p] = "batch" /\ left[p] > 0
    /\ left' = [left EXCEPT ![p] = @ - 1]
    /\ Goto(p, "batch")
    /\ UNCHANGED <<now, holder, held, guardVars>>

EndBatch(p) ==
    /\ pc[p] = "batch" /\ left[p] = 0
    /\ Goto(p, "check")
    /\ UNCHANGED <<now, holder, held, guardVars, left>>

\* The pod restarts with an empty guard.
Restart(p) ==
    /\ Goto(p, "check")
    /\ value' = [value EXCEPT ![p] = FALSE]
    /\ checked' = [checked EXCEPT ![p] = Never]
    /\ left' = [left EXCEPT ![p] = 0]
    /\ UNCHANGED <<now, holder, held, answer>>
----------------------------------------------------------------------------
\* The lease is acquired, released or initialised.
Move(h) ==
    /\ holder' = h
    /\ held' = [c \in Cluster |-> IF c = h THEN now ELSE held[c]]
    /\ UNCHANGED <<now, pc, since, guardVars, left>>

Limit(p) ==
    CASE pc[p] = "asked" -> CallTime
      [] pc[p] = "fetch" -> FetchTime
      [] pc[p] = "batch" -> UnitTime
      [] OTHER -> 0

Elapse ==
    /\ now < MaxTime
    /\ \A p \in Process : pc[p] = "check" \/ now < since[p] + Limit(p)
    /\ now' = now + 1
    /\ held' = [c \in Cluster |-> IF c = holder THEN now + 1 ELSE held[c]]
    /\ UNCHANGED <<holder, pc, since, guardVars, left>>

Init ==
    /\ now = 0 /\ holder = NoOne /\ held = [c \in Cluster |-> Never]
    /\ pc = [p \in Process |-> "check"] /\ since = [p \in Process |-> 0]
    /\ answer = [p \in Process |-> FALSE] /\ value = [p \in Process |-> FALSE]
    /\ checked = [p \in Process |-> Never] /\ left = [p \in Process |-> 0]

Next ==
    \/ \E p \in Process : \/ FromCache(p) \/ Ask(p) \/ Answered(p) \/ Fetched(p)
                          \/ StartUnit(p) \/ EndBatch(p) \/ Restart(p)
    \/ \E h \in Cluster \cup {NoOne} : Move(h)
    \/ Elapse

Spec == Init /\ [][Next]_vars
----------------------------------------------------------------------------
\* Every variable stays in its range.
TypeOK ==
    /\ now \in Nat /\ holder \in Cluster \cup {NoOne}
    /\ held \in [Cluster -> Nat \cup {Never}]
    /\ pc \in [Process -> {"check", "asked", "fetch", "batch"}]
    /\ since \in [Process -> Nat]
    /\ answer \in [Process -> BOOLEAN] /\ value \in [Process -> BOOLEAN]
    /\ checked \in [Process -> Nat \cup {Never}]
    /\ left \in [Process -> 0..BatchSize]

\* Cluster c held the lease at most t ago.
HeldWithin(c, t) == held[c] # Never /\ now - held[c] <= t

\* A positive answer is no older than the stage its process has reached.
AnswersAreRecent ==
    \A p \in Process :
        LET c == ClusterOf[p] IN
        /\ pc[p] = "asked" /\ answer[p] => HeldWithin(c, now - since[p])
        /\ value[p] => held[c] # Never /\ checked[p] <= held[c] + CallTime
        /\ pc[p] = "fetch" => HeldWithin(c, CallTime + Cache + (now - since[p]))
        /\ pc[p] = "batch" /\ left[p] > 0 =>
             HeldWithin(c, CallTime + Cache + FetchTime + (BatchSize - left[p]) * UnitTime
                             + (now - since[p]))

\* Fencing is late, but boundedly: no unit of work starts in a cluster that lost
\* the lease longer ago than one read, the cache, one fetch and one batch.
StartsAreRecent ==
    [][\A p \in Process : left'[p] < left[p] /\ pc'[p] = "batch"
         => HeldWithin(ClusterOf[p], Bound)]_vars
=============================================================================
