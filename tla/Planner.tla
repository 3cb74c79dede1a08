------------------------------ MODULE Planner ------------------------------
(***************************************************************************)
(* `cm plan` (engine/clustermotion/planner.py): every workload gets the    *)
(* strategy that moves it.  An object is a record of its kind, namespace,  *)
(* name and labels, of the name it refers to (of a workload or a Service), *)
(* the labels its selector asks for, those of its pods, and the volumes    *)
(* that its pods claim.  The reasons and the estimates are left out.       *)
(***************************************************************************)

CONSTANTS PlatformNamespaces, Clusters   \* the sets of objects that a cluster may hold

VARIABLES
    cluster,    \* the objects there are
    objects,    \* those of the namespaces that are planned
    plans       \* what was planned, by namespaces

planVars == <<cluster, objects, plans>>
----------------------------------------------------------------------------
PodOwners == {"Deployment", "StatefulSet"}
OfKind(kind) == {o \in objects : o.kind = kind}
Beside(o) == {b \in objects : b.ns = o.ns}

\* _selector_matches
matches(selector, labels) == selector # {} /\ selector \subseteq labels

\* The ScaledObjects whose target has the name of a workload; KEDA admits one.
scaled(o) == {s \in Beside(o) : s.kind = "ScaledObject" /\ s.ref = o.name}
bound(service) == \E b \in Beside(service) : b.kind = "TargetGroupBinding" /\ b.ref = service.name

\* (Slip: services of every namespace.)
exposingAnywhere(o) == {s \in OfKind("Service") : matches(s.selector, o.pods)}
exposing(o) == {s \in Beside(o) : s.kind = "Service" /\ matches(s.selector, o.pods)}

\* A workload without the label whose ScaledObject has it is one.
singleton(o) == "singleton" \in UNION {s.labels : s \in scaled(o) \cup {o}}

Strategy(strategy, approval) == [strategy |-> strategy, approval |-> approval]

classify_pod_owner(o) ==
    IF singleton(o) THEN Strategy("lease-handoff", FALSE)
    ELSE IF o.claims # {} THEN Strategy("snapshot-restore", TRUE)
    ELSE IF exposing(o) # {}
         THEN Strategy("traffic-shift", \A s \in exposing(o) : ~bound(s))
    ELSE Strategy("redeploy", FALSE)

Planned(o) ==
    \/ "part-of" \in o.labels
    \/ o.kind \in PodOwners \cup {"CustomResourceDefinition", "Cluster", "CronJob"}
    \/ o.kind = "DaemonSet" /\ o.ns \in PlatformNamespaces

classify(o) ==
    IF "part-of" \in o.labels THEN Strategy("skip", FALSE)
    ELSE IF \/ o.kind = "CustomResourceDefinition"
            \/ o.ns \in PlatformNamespaces /\ o.kind \in {"Deployment", "DaemonSet"}
         THEN Strategy("platform", FALSE)
    ELSE IF o.kind = "Cluster" THEN Strategy("db-switchover", FALSE)
    ELSE IF o.kind = "CronJob" THEN Strategy("lease-handoff", "singleton" \notin o.labels)
    ELSE classify_pod_owner(o)

items == {[of |-> o, by |-> classify(o)] : o \in {o \in objects : Planned(o)}}

\* The kinds that objects_from_cluster lists.
Listed == PodOwners \cup {"CronJob", "Service", "TargetGroupBinding", "ScaledObject", "Cluster"}

\* A plan is kept beside the others.
Keep(plan) == plans' = [p \in DOMAIN plans \cup {plan} |-> IF p = plan THEN items' ELSE plans[p]]

\* cmd_plan, over namespaces of the cluster or over the manifests of all of it.
PlanNamespaces(namespaces) ==
    /\ objects' = {o \in cluster : o.ns \in namespaces /\ o.kind \in Listed}
    /\ Keep(<<"cluster", namespaces>>)
    /\ UNCHANGED cluster

PlanManifests ==
    /\ objects' = cluster
    /\ Keep(<<"manifests", {o.ns : o \in cluster}>>)
    /\ UNCHANGED cluster

InitPlan == cluster \in Clusters /\ objects = {} /\ plans = <<>>

\* Plans of the namespaces that are asked for, one after the other, and of the manifests.
Plan(asked) == PlanManifests \/ \E namespaces \in asked : PlanNamespaces(namespaces)

PlannerSpec(asked) == InitPlan /\ [][Plan(asked)]_planVars
----------------------------------------------------------------------------
\* What the agent of a namespace switches off outside the lease holder (Agent.ensure).
ensured(o) ==
    \/ o.kind = "CronJob" /\ "singleton" \in o.labels
    \/ /\ o.kind \in PodOwners
       /\ \E s \in cluster : s.kind = "ScaledObject" /\ s.ns = o.ns /\ s.ref = o.name /\ "singleton" \in s.labels

\* A workload that the lease agent pauses where the lease is not is planned to move with
\* the lease, whatever else exposes it or claims a volume for it.  Components of ClusterMotion
\* (skip) and Deployments of the platform's namespaces come first in the cascade of
\* classify: they are planned as such even if the agent would pause them.
SingletonsAreHandedOver ==
    \A p \in DOMAIN plans : \A item \in plans[p] :
        ensured(item.of) => item.by.strategy \in {"lease-handoff", "skip", "platform"}

\* Namespaces that are planned together, or from their manifests, are planned as they are
\* alone: what stands in one changes nothing in another.
NamespacesAreApart ==
    \A some, others \in DOMAIN plans :
        LET common(p) == {item \in plans[p] : /\ item.of.ns \in some[2] \cap others[2]
                                              /\ item.of.kind \in Listed}
        IN  common(some) = common(others)

\* What cm plan says of a workload is so, with whatever it is listed.
PlanIsSound == SingletonsAreHandedOver /\ NamespacesAreApart
=============================================================================
