------------------------------- MODULE Lease -------------------------------
(***************************************************************************)
(* The singleton lease: one DynamoDB item, one agent per workload cluster  *)
(* that renews, drains, releases or acquires it, and the operator's        *)
(* `cm lease init` and `cm lease handoff` (engine/clustermotion/lease.py). *)
(*                                                                         *)
(* A step is one remote call of the agent: every other process may act     *)
(* between the read of the item, each patch of a workload, each listing    *)
(* and the conditional write.  Time is a global counter in whole units (so *)
(* the int() of the stored time is exact); each cluster reads it through   *)
(* its own skew.                                                           *)
(*                                                                         *)
(* A helper marked `slip` is the same decision with a plausible mistake;   *)
(* only the mutation runs put it in the place of the one it precedes.      *)
(***************************************************************************)
EXTENDS Integers, FiniteSets

CONSTANTS
    Cluster,        \* the workload clusters: blue and green
    NoOne,          \* the empty string of the holder and desired attributes
    Missing,        \* the holder attribute of an item that was never initialised
    TTL,            \* Agent.ttl: a lease older than this has expired
    Skew,           \* how far each cluster's wall clock runs ahead
    Period,         \* a tick and the sleep after it take at most this long
    Patience,       \* handoff's timeout
    Lag,            \* the workloads whose work exists before drained() can list it
    QuickDrain,     \* TRUE: work that was switched off ends within a time unit
    MaxTime,        \* bound on the clock
    Quiet,          \* bound on the time of commands and failures
    MaxInits,       \* bound on `cm lease init`
    MaxHandoffs,    \* bound on `cm lease handoff`
    MaxFails        \* bound on failed ticks and agent crashes

ASSUME NamesAreDistinct ==
    Cluster # {} /\ NoOne \notin Cluster /\ Missing \notin Cluster /\ NoOne # Missing
ASSUME TimesAreNatural ==
    /\ TTL \in Nat /\ Period \in Nat \ {0} /\ Patience \in Nat
    /\ MaxTime \in Nat /\ Quiet \in Nat
    /\ Skew \in [Cluster -> Nat]
ASSUME BoundsAreNatural ==
    MaxInits \in Nat /\ MaxHandoffs \in Nat /\ MaxFails \in Nat
ASSUME QuickDrainIsBoolean == QuickDrain \in BOOLEAN

VARIABLES
    now,        \* real time
    lease,      \* the DynamoDB item
    pc,         \* where each agent is in run() and tick()
    seen,       \* `state`, the snapshot an agent read at the start of its tick
    started,    \* when an agent last started a tick (or was started)
    on,         \* which singleton workloads are switched on in each cluster
    load,       \* which singleton work exists in each cluster
    handoff,    \* the operator's pending handoff and its deadline
    inits, handoffs, fails    \* how often the bounded actions happened

vars == <<now, lease, pc, seen, started, on, load, handoff, inits, handoffs, fails>>

workVars == <<on, load>>
operVars == <<handoff, inits, handoffs>>
----------------------------------------------------------------------------
Workload == {"cronjob", "scaledobject"}
Person == Cluster \cup {NoOne}

Label == {"down", "sleep", "decide", "drainCron", "drainKeda", "listJobs",
          "listPods", "renew", "onCron", "onKeda", "offCron", "offKeda",
          "claimCron", "claimKeda", "acquire", "release"}

Item == [holder : Person \cup {Missing}, desired : Person, renewed : Nat]
Snapshot == [holder : Person, desired : Person, renewed : Nat]

\* No item in the table, and the local `state` outside a tick.
Absent == [holder |-> Missing, desired |-> NoOne, renewed |-> 0]
Unread == [holder |-> NoOne, desired |-> NoOne, renewed |-> 0]

\* time.time() in cluster c
Clock(c) == now + Skew[c]

\* A missing attribute reads as the empty string (slip: it is passed on as it is).
heldByRaw(item) == item.holder
heldBy(item) == IF item.holder = Missing THEN NoOne ELSE item.holder

\* LeaseTable.read.  An absent item reads as None, for which decide answers as
\* it does for an empty desired.
read == [lease EXCEPT !.holder = heldBy(lease)]

\* decide's expiry test (slips: a unit early, without the test, never).
expiredEarly(state, t) == t - state.renewed >= TTL
expiredAlways(state, t) == TRUE
expiredNever(state, t) == FALSE
expired(state, t) == t - state.renewed > TTL

\* The pure decision function.
decide(state, me, t, drained) ==
    IF state.holder = me
    THEN IF state.desired = me THEN "on"
         ELSE IF drained THEN "release" ELSE "drain"
    ELSE IF state.desired = me /\ (state.holder = NoOne \/ expired(state, t))
         THEN "acquire"
         ELSE "off"

\* The first remote call of each action of tick().
Branch == [on |-> "renew", off |-> "offCron", drain |-> "offCron",
           acquire |-> "claimCron", release |-> "release"]
----------------------------------------------------------------------------
(* One tick of the agent, call by call. *)

\* The agent moves on; `state` is gone when it sleeps.
Go(c, from, to) ==
    /\ pc[c] = from
    /\ pc' = [pc EXCEPT ![c] = to]
    /\ seen' = IF to = "sleep" THEN [seen EXCEPT ![c] = Unread] ELSE seen

\* A holder that is no longer desired drains before it decides: the arguments
\* of decide are evaluated in that order (slip: it lists without switching off).
firstCallList(c) == IF read.holder = c /\ read.desired # c THEN "listJobs" ELSE "decide"
firstCall(c) == IF read.holder = c /\ read.desired # c THEN "drainCron" ELSE "decide"

\* tick() reads the item.
Read(c) ==
    /\ pc[c] = "sleep"
    /\ seen' = [seen EXCEPT ![c] = read]
    /\ started' = [started EXCEPT ![c] = now]
    /\ pc' = [pc EXCEPT ![c] = firstCall(c)]
    /\ UNCHANGED <<now, lease, workVars, operVars, fails>>

Decide(c) ==
    /\ Go(c, "decide", Branch[decide(seen[c], c, Clock(c), FALSE)])
    /\ UNCHANGED <<now, lease, started, workVars, operVars, fails>>

\* ensure(flag) for one workload; the patch is skipped when nothing changes
\* (slip: a scaled object is never paused).
SwitchCron(c, w, flag) ==
    /\ on' = [on EXCEPT ![c][w] = flag \/ (w = "scaledobject" /\ @)]
    /\ UNCHANGED <<now, lease, started, load, operVars, fails>>

Switch(c, w, flag) ==
    /\ on' = [on EXCEPT ![c][w] = flag]
    /\ UNCHANGED <<now, lease, started, load, operVars, fails>>

\* ensure(False) in _drain, before an acquire, and for off, drain and a lost renew.
EnsureOff(c) ==
    \/ /\ Switch(c, "cronjob", FALSE)
       /\ \/ Go(c, "drainCron", "drainKeda")
          \/ Go(c, "claimCron", "claimKeda")
          \/ Go(c, "offCron", "offKeda")
    \/ /\ Switch(c, "scaledobject", FALSE)
       /\ \/ Go(c, "drainKeda", "listJobs")
          \/ Go(c, "claimKeda", "acquire")
          \/ Go(c, "offKeda", "sleep")

EnsureOn(c) ==
    \/ Switch(c, "cronjob", TRUE) /\ Go(c, "onCron", "onKeda")
    \/ Switch(c, "scaledobject", TRUE) /\ Go(c, "onKeda", "sleep")

\* What drained() finds: a job whose status has no `active` yet, and a pod not
\* yet created, are not seen (slips: it forgets the jobs, or the pods).
busyPods(c, w) == w = "scaledobject" /\ load[c][w] = "listed"
busyJobs(c, w) == w = "cronjob" /\ load[c][w] = "listed"
busy(c, w) == load[c][w] = "listed"

\* drained(): first the jobs, then the pods of the scaled deployment.
Drained(c, from, w, to) ==
    /\ Go(c, from, IF busy(c, w) THEN Branch[decide(seen[c], c, Clock(c), FALSE)] ELSE to)
    /\ UNCHANGED <<now, lease, started, workVars, operVars, fails>>

ListJobs(c) == Drained(c, "listJobs", "cronjob", "listPods")
ListPods(c) == Drained(c, "listPods", "scaledobject",
                       Branch[decide(seen[c], c, Clock(c), TRUE)])

Renew(c) ==
    /\ IF lease.holder = c
       THEN Go(c, "renew", "onCron") /\ lease' = [lease EXCEPT !.renewed = Clock(c)]
       ELSE Go(c, "renew", "offCron") /\ UNCHANGED lease
    /\ UNCHANGED <<now, started, workVars, operVars, fails>>

Release(c) ==
    /\ Go(c, "release", "sleep")
    /\ lease' = IF lease.holder = c THEN [lease EXCEPT !.holder = NoOne] ELSE lease
    /\ UNCHANGED <<now, started, workVars, operVars, fails>>

\* The condition of acquire: a missing attribute equals nothing, and desired is
\* no part of it (slips: no condition; a missing holder counts as empty).
unchangedNot(c) == TRUE
unchangedLoose(c) == read.holder = seen[c].holder /\ lease.renewed = seen[c].renewed
unchanged(c) == lease.holder = seen[c].holder /\ lease.renewed = seen[c].renewed

\* The optimistic write.
Acquire(c) ==
    /\ Go(c, "acquire", "sleep")
    /\ lease' = IF unchanged(c)
                THEN [lease EXCEPT !.holder = c, !.renewed = Clock(c)] ELSE lease
    /\ UNCHANGED <<now, started, workVars, operVars, fails>>

Tick(c) ==
    \/ Read(c) \/ Decide(c) \/ EnsureOff(c) \/ EnsureOn(c)
    \/ ListJobs(c) \/ ListPods(c) \/ Renew(c) \/ Release(c) \/ Acquire(c)
----------------------------------------------------------------------------
(* Failures of the agent. *)

\* A remote call raises: run() logs it and sleeps until the next tick.  A call
\* whose answer is lost took effect first and fails in the step after it.
Fail(c) ==
    /\ fails < MaxFails /\ now <= Quiet
    /\ pc[c] \notin {"down", "sleep"}
    /\ Go(c, pc[c], "sleep")
    /\ fails' = fails + 1
    /\ UNCHANGED <<now, lease, started, workVars, operVars>>

\* The agent's pod dies; nothing it held in memory outlives it.
Crash(c) ==
    /\ fails < MaxFails /\ now <= Quiet
    /\ pc[c] # "down"
    /\ pc' = [pc EXCEPT ![c] = "down"]
    /\ seen' = [seen EXCEPT ![c] = Unread]
    /\ fails' = fails + 1
    /\ UNCHANGED <<now, lease, started, workVars, operVars>>

Restart(c) ==
    /\ Go(c, "down", "sleep")
    /\ started' = [started EXCEPT ![c] = now]
    /\ UNCHANGED <<now, lease, workVars, operVars, fails>>
----------------------------------------------------------------------------
(* Kubernetes: the CronJob controller, KEDA and the work they start. *)

SetLoad(c, w, value) ==
    /\ load' = [load EXCEPT ![c][w] = value]
    /\ UNCHANGED <<now, lease, pc, seen, started, on, operVars, fails>>

Start(c, w) ==
    /\ on[c][w] /\ load[c][w] = "none"
    /\ SetLoad(c, w, IF w \in Lag THEN "unlisted" ELSE "listed")

Appear(c, w) ==
    /\ load[c][w] = "unlisted"
    /\ SetLoad(c, w, "listed")

Finish(c, w) ==
    /\ load[c][w] = "listed"
    /\ SetLoad(c, w, "none")
----------------------------------------------------------------------------
(* The operator. *)

\* `cm lease init` overwrites whatever the item holds.
Initialise(c) ==
    /\ inits < MaxInits /\ now <= Quiet
    /\ lease' = [holder |-> c, desired |-> c, renewed |-> now]
    /\ inits' = inits + 1
    /\ UNCHANGED <<now, pc, seen, started, workVars, handoff, handoffs, fails>>

\* `cm lease handoff`: set_desired is unconditional, and creates an item that
\* has no holder when there is none.
HandoffRequest(c) ==
    /\ handoff.to = NoOne /\ handoffs < MaxHandoffs /\ now <= Quiet
    /\ lease' = [lease EXCEPT !.desired = c]
    /\ handoff' = [to |-> c, deadline |-> now + Patience]
    /\ handoffs' = handoffs + 1
    /\ UNCHANGED <<now, pc, seen, started, workVars, inits, fails>>

\* The poll that finds the lease with its target ends the handoff, and so does
\* the timeout, which leaves desired where it was set.
HandoffEnd ==
    /\ handoff.to # NoOne
    /\ lease.holder = handoff.to \/ now >= handoff.deadline
    /\ handoff' = [to |-> NoOne, deadline |-> 0]
    /\ UNCHANGED <<now, lease, pc, seen, started, workVars, inits, handoffs, fails>>

Operator ==
    \/ \E c \in Cluster : Initialise(c) \/ HandoffRequest(c)
    \/ HandoffEnd
----------------------------------------------------------------------------
\* Time passes, but not past a running agent's next tick, nor (QuickDrain)
\* before work that was switched off has ended.
Elapse ==
    /\ now < MaxTime
    /\ \A c \in Cluster : pc[c] = "down" \/ now < started[c] + Period
    /\ QuickDrain => \A c \in Cluster, w \in Workload : on[c][w] \/ load[c][w] = "none"
    /\ now' = now + 1
    /\ UNCHANGED <<lease, pc, seen, started, workVars, operVars, fails>>

\* The chart creates every cluster with its singletons switched off.
Init ==
    /\ now = 0
    /\ lease = Absent
    /\ pc = [c \in Cluster |-> "sleep"]
    /\ seen = [c \in Cluster |-> Unread]
    /\ started = [c \in Cluster |-> 0]
    /\ on = [c \in Cluster |-> [w \in Workload |-> FALSE]]
    /\ load = [c \in Cluster |-> [w \in Workload |-> "none"]]
    /\ handoff = [to |-> NoOne, deadline |-> 0]
    /\ inits = 0 /\ handoffs = 0 /\ fails = 0

Next ==
    \/ \E c \in Cluster : Tick(c) \/ Fail(c) \/ Crash(c) \/ Restart(c)
    \/ \E c \in Cluster, w \in Workload : Start(c, w) \/ Appear(c, w) \/ Finish(c, w)
    \/ Operator
    \/ Elapse

Spec == Init /\ [][Next]_vars

\* run() loops for ever and every call returns or raises; jobs have an active
\* deadline and pods a grace period; the clock advances.
Fairness ==
    /\ \A c \in Cluster : WF_vars(Tick(c))
    /\ \A c \in Cluster, w \in Workload :
         WF_vars(Appear(c, w)) /\ WF_vars(~on[c][w] /\ Finish(c, w))
    /\ WF_vars(Elapse)

FairSpec == Spec /\ Fairness
----------------------------------------------------------------------------
(* What holds whatever the agents, the network and the clock do. *)

\* Every variable stays in its range.
TypeOK ==
    /\ now \in Nat
    /\ lease \in Item
    /\ pc \in [Cluster -> Label]
    /\ seen \in [Cluster -> Snapshot]
    /\ started \in [Cluster -> Nat]
    /\ on \in [Cluster -> [Workload -> BOOLEAN]]
    /\ load \in [Cluster -> [Workload -> {"none", "unlisted", "listed"}]]
    /\ handoff \in [to : Person, deadline : Nat]
    /\ inits \in Nat /\ handoffs \in Nat /\ fails \in Nat

Claiming(c) == pc[c] \in {"claimCron", "claimKeda", "acquire"}

\* The lease that agent c saw was free or has expired, and c is wanted.
Justified(c) ==
    /\ seen[c].desired = c /\ seen[c].holder # c
    /\ seen[c].holder = NoOne \/ Clock(c) - seen[c].renewed > TTL

\* What an agent knew when it decided to acquire is still true of its snapshot
\* two patches later, when it writes.
ClaimJustified == \A c \in Cluster : Claiming(c) => Justified(c)

\* While it drains, a cluster's switches are off from the patch to the release.
DrainingIsOff ==
    \A c \in Cluster :
        /\ pc[c] \in {"drainKeda", "listJobs", "listPods", "release"} => ~on[c]["cronjob"]
        /\ pc[c] \in {"listJobs", "listPods", "release"} => ~on[c]["scaledobject"]

\* Nobody takes a lease from its holder before it has expired by the taker's
\* clock, however stale the taker's read; only `cm lease init` may (acquire).
LiveLeaseIsNotTaken ==
    [][\A c, d \in Cluster :
         c # d /\ lease.holder = c /\ lease'.holder = d /\ inits' = inits
           => Clock(d) - lease.renewed > TTL]_vars

\* A handoff before the first `cm lease init` creates an item no agent can ever
\* acquire: the missing holder fails the condition of acquire, renew and release.
UninitialisedIsNeverHeld ==
    [][lease.holder = Missing /\ lease'.holder # Missing => inits' # inits]_vars

\* A lease is given up only by an agent that has switched both workloads off.
ReleaseIsSwitchedOff ==
    [][\A c \in Cluster, w \in Workload :
         lease.holder = c /\ lease'.holder = NoOne => ~on[c][w]]_vars

\* A lease is given up only when no job and no pod of the cluster is left (drained),
\* those that could not be listed yet excepted.
ReleaseIsDrained ==
    [][\A c \in Cluster, w \in Workload \ Lag :
         lease.holder = c /\ lease'.holder = NoOne => load[c][w] = "none"]_vars
----------------------------------------------------------------------------
(* What holds while the agents are prompt: no failures, and two periods and *)
(* the clock skew fit into the TTL.                                         *)

\* Singletons are switched on only in the cluster that holds the lease.
OnlyHolderIsOn ==
    \A c \in Cluster, w \in Workload : on[c][w] => lease.holder = c

\* Singleton work exists in one cluster at a time.
WorkIsExclusive ==
    \A c, d \in Cluster, v, w \in Workload :
        load[c][v] # "none" /\ load[d][w] # "none" => c = d

\* The clusters whose singletons are switched on follow the abstract hand-over.
Active == {c \in Cluster : \E w \in Workload : on[c][w]}
Abstract == INSTANCE Singleton WITH active <- Active
Singletons == Abstract!Spec
----------------------------------------------------------------------------
(* What eventually happens. *)

\* When the operator's wish settles on a cluster whose agent stays up, that
\* cluster ends up holding the lease for good, its singletons switched on, even
\* if the previous holder's agent never comes back.
WishIsGranted ==
    \A c \in Cluster :
        <>[](lease.desired = c /\ lease.holder # Missing /\ pc[c] # "down")
          => <>[](lease.holder = c /\ \A w \in Workload : on[c][w])
=============================================================================
