------------------------------ MODULE MCTools ------------------------------
(***************************************************************************)
(* The tools around a migration, for TLC: a behaviour is one of a part of  *)
(* Evidence (the slots, the orders), of Shadow or of Planner.              *)
(***************************************************************************)
EXTENDS Evidence, Shadow, Planner

CONSTANTS
    blue, green,
    MaxMoment   \* bound on time in the part about orders

VARIABLES tool

toolVars == <<tool, vars, shadowVars, planVars>>

\* The counts before the last path: one sample is missing, or one mismatch too many.
Begun == {[match |-> 49, mismatch |-> 0, noisy |-> 1, error |-> 249],
          [match |-> 296, mismatch |-> 2, noisy |-> 1, error |-> 0],
          [match |-> 295, mismatch |-> 3, noisy |-> 0, error |-> 1]}

\* Two namespaces with workloads of one name, and what may stand beside them.
Thing(kind, ns, labels, claims) ==
    [kind |-> kind, ns |-> ns, name |-> "web", labels |-> labels, ref |-> "web",
     selector |-> {"app"}, pods |-> {"app"}, claims |-> claims]
Always ==
    {Thing("Deployment", "keda", {}, {}), Thing("DaemonSet", "shop", {"part-of"}, {}),
     Thing("CustomResourceDefinition", "shop", {}, {}), Thing("Cluster", "shop", {}, {})}
Sometimes ==
    {Thing("Deployment", "shop", {}, {}), Thing("CronJob", "shop", {"singleton"}, {}),
     Thing("CronJob", "other", {}, {}), Thing("StatefulSet", "other", {}, {"data"}),
     Thing("Deployment", "other", {"singleton"}, {})}
    \cup {Thing("ScaledObject", ns, {"singleton"}, {}) : ns \in {"shop", "other"}}
    \cup {Thing(kind, ns, {}, {}) : kind \in {"Service", "TargetGroupBinding"}, ns \in {"shop", "other"}}
Things == {Always \cup some : some \in SUBSET Sometimes}

NoReplay ==
    /\ data = <<>> /\ answers = <<>> /\ stable = [first |-> {}, second |-> {}] /\ left = 0
    /\ flaw = [left |-> {}, wrong |-> {}] /\ gate = "none"
    /\ counts = [match |-> 0, mismatch |-> 0, noisy |-> 0, error |-> 0]
NoPlan == cluster = {} /\ objects = {} /\ plans = <<>>

Init ==
    \/ tool = "slots" /\ InitEvidence(NoTime) /\ NoReplay /\ NoPlan
    \/ tool = "orders" /\ InitEvidence(MaxTime) /\ NoReplay /\ NoPlan
    \/ tool = "shadow" /\ InitEvidence(MaxTime) /\ InitShadow(Begun) /\ NoPlan
    \/ tool = "plan" /\ InitEvidence(MaxTime) /\ NoReplay /\ InitPlan

TickSoon == now < MaxMoment /\ Tick

Slots == tool = "slots" /\ (MoveLease \/ Sweep \/ Tick) /\ UNCHANGED <<tool, shadowVars, planVars>>
Orders ==
    /\ tool = "orders" /\ (MoveLease \/ (\E c \in Cluster : Process(c)) \/ TickSoon)
    /\ UNCHANGED <<tool, shadowVars, planVars>>
Paths == tool = "shadow" /\ Replay /\ UNCHANGED <<tool, vars, planVars>>
Plans ==
    /\ tool = "plan" /\ Plan({{"shop"}, {"other"}, {"shop", "other"}})
    /\ UNCHANGED <<tool, vars, shadowVars>>

Next == Slots \/ Orders \/ Paths \/ Plans
Spec == Init /\ [][Next]_toolVars
=============================================================================
