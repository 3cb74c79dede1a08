--------------------------- MODULE PlannerProofs ---------------------------
(* Theorems about `cm plan`, for every cluster and all namespaces that are  *)
(* asked for.                                                               *)
EXTENDS Planner, TLAPS

\* What classify finds of an object, said of the objects it stands among.
SingletonIn(among, o) ==
    \/ "singleton" \in o.labels
    \/ \E s \in among : s.ns = o.ns /\ s.kind = "ScaledObject" /\ s.ref = o.name /\ "singleton" \in s.labels
Exposes(among, o, s) == s \in among /\ s.ns = o.ns /\ s.kind = "Service" /\ matches(s.selector, o.pods)
BoundIn(among, s) == \E b \in among : b.ns = s.ns /\ b.kind = "TargetGroupBinding" /\ b.ref = s.name

MovesIn(among, o) ==
    IF SingletonIn(among, o) THEN Strategy("lease-handoff", FALSE)
    ELSE IF o.claims # {} THEN Strategy("snapshot-restore", TRUE)
    ELSE IF \E s : Exposes(among, o, s)
         THEN Strategy("traffic-shift", \A s : Exposes(among, o, s) => ~BoundIn(among, s))
    ELSE Strategy("redeploy", FALSE)

ClassIn(among, o) ==
    IF "part-of" \in o.labels THEN Strategy("skip", FALSE)
    ELSE IF \/ o.kind = "CustomResourceDefinition"
            \/ o.ns \in PlatformNamespaces /\ o.kind \in {"Deployment", "DaemonSet"}
         THEN Strategy("platform", FALSE)
    ELSE IF o.kind = "Cluster" THEN Strategy("db-switchover", FALSE)
    ELSE IF o.kind = "CronJob" THEN Strategy("lease-handoff", "singleton" \notin o.labels)
    ELSE MovesIn(among, o)

\* The items of some objects, as they stand in the cluster.
ItemsOf(some) == {[of |-> o, by |-> ClassIn(cluster, o)] : o \in {o \in some : Planned(o)}}

\* Objects of the cluster, and with each of them all that is listed of its namespace.
WholeNamespaces ==
    /\ objects \subseteq cluster
    /\ \A o \in objects, b \in cluster : b.ns = o.ns /\ b.kind \in Listed => b \in objects

\* An object is classified among those of its namespace as among all.
LEMMA ClassifyLooksBeside ==
    ASSUME WholeNamespaces, NEW o \in objects
    PROVE  classify(o) = ClassIn(cluster, o)
  <1>1. \A b : (b \in Beside(o) /\ b.kind \in Listed) <=> (b \in cluster /\ b.ns = o.ns /\ b.kind \in Listed)
    BY DEF WholeNamespaces, Beside
  <1>2. {"ScaledObject", "Service", "TargetGroupBinding"} \subseteq Listed
    BY DEF Listed
  <1>3. singleton(o) <=> SingletonIn(cluster, o)
    <2>1. singleton(o) <=> "singleton" \in o.labels \/ \E s \in scaled(o) : "singleton" \in s.labels
      BY DEF singleton
    <2>2. \A s : s \in scaled(o) <=> s \in cluster /\ s.ns = o.ns /\ s.kind = "ScaledObject" /\ s.ref = o.name
      BY <1>1, <1>2 DEF scaled
    <2> QED BY <2>1, <2>2 DEF SingletonIn
  <1>4. \A s : s \in exposing(o) <=> Exposes(cluster, o, s)
    BY <1>1, <1>2 DEF exposing, Exposes
  <1>5. \A s \in exposing(o) : bound(s) <=> BoundIn(cluster, s)
    <2> SUFFICES ASSUME NEW s \in exposing(o) PROVE bound(s) <=> BoundIn(cluster, s)
      OBVIOUS
    <2>1. s.ns = o.ns
      BY DEF exposing, Beside
    <2>2. \A b : (b \in Beside(s) /\ b.kind \in Listed) <=> (b \in cluster /\ b.ns = s.ns /\ b.kind \in Listed)
      BY <1>1, <2>1 DEF Beside
    <2> QED BY <1>2, <2>2 DEF bound, BoundIn
  <1>6. exposing(o) # {} <=> \E s : Exposes(cluster, o, s)
    BY <1>4
  <1>7. (\A s \in exposing(o) : ~bound(s)) <=> (\A s : Exposes(cluster, o, s) => ~BoundIn(cluster, s))
    BY <1>4, <1>5
  <1>8. classify_pod_owner(o) = MovesIn(cluster, o)
    BY <1>3, <1>6, <1>7 DEF classify_pod_owner, MovesIn, Strategy
  <1> QED BY <1>8 DEF classify, ClassIn

\* So are the items of a plan.
LEMMA ItemsStandAmongAll == WholeNamespaces => items = ItemsOf(objects)
  <1> SUFFICES ASSUME WholeNamespaces PROVE items = ItemsOf(objects)
    OBVIOUS
  <1>1. \A o \in objects : classify(o) = ClassIn(cluster, o)
    BY ClassifyLooksBeside
  <1> QED BY <1>1 DEF items, ItemsOf

\* The objects a plan is of.
Chosen(plan) ==
    IF plan[1] = "cluster" THEN {o \in cluster : o.ns \in plan[2] /\ o.kind \in Listed} ELSE cluster

\* The inductive invariant: a plan has the items of its objects as they stand among all.
PlansAreOfTheCluster ==
    \A p \in DOMAIN plans : /\ plans[p] = ItemsOf(Chosen(p))
                            /\ p[1] # "cluster" => \A o \in cluster : o.ns \in p[2]

\* Every plan is of the cluster as it stands, however many were made before it.
LEMMA PlansStayTrue ==
    ASSUME NEW asked
    PROVE  PlannerSpec(asked) => []PlansAreOfTheCluster
  <1>1. InitPlan => PlansAreOfTheCluster
    BY DEF InitPlan, PlansAreOfTheCluster
  <1>2. (WholeNamespaces => items = ItemsOf(objects))'
    BY ItemsStandAmongAll, PTL
  <1>3. ASSUME PlansAreOfTheCluster, [Plan(asked)]_planVars
        PROVE  PlansAreOfTheCluster'
    <2>1. \A some : UNCHANGED cluster => ItemsOf(some)' = ItemsOf(some)
      BY DEF ItemsOf
    <2>2. \A p : UNCHANGED cluster => Chosen(p)' = Chosen(p)
      BY DEF Chosen
    <2>3. ASSUME NEW key, UNCHANGED cluster, WholeNamespaces', objects' = Chosen(key),
                 key[1] # "cluster" => \A o \in cluster : o.ns \in key[2],
                 Keep(key)
          PROVE  PlansAreOfTheCluster'
      <3>1. items' = ItemsOf(objects')
        BY <1>2, <2>1, <2>3 DEF ItemsOf
      <3>2. DOMAIN plans' = {key} \cup DOMAIN plans
        BY <2>3 DEF Keep
      <3>3. \A p \in DOMAIN plans' : plans'[p] = IF p = key THEN items' ELSE plans[p]
        BY <2>3 DEF Keep
      <3>4. ASSUME NEW p \in DOMAIN plans'
            PROVE  /\ plans'[p] = ItemsOf(Chosen(p))
                   /\ p[1] # "cluster" => \A o \in cluster : o.ns \in p[2]
        <4>1. CASE p = key
          BY <2>3, <3>1, <3>3, <4>1
        <4>2. CASE p # key
          BY <1>3, <3>2, <3>3, <3>4, <4>2 DEF PlansAreOfTheCluster
        <4> QED BY <4>1, <4>2
      <3> QED BY <2>3, <3>4 DEF PlansAreOfTheCluster, ItemsOf, Chosen
    <2>4. ASSUME NEW namespaces \in asked, PlanNamespaces(namespaces)
          PROVE  PlansAreOfTheCluster'
      <3> DEFINE key == <<"cluster", namespaces>>
      <3>1. objects' = Chosen(key)
        BY <2>4 DEF PlanNamespaces, Chosen
      <3>2. WholeNamespaces'
        BY <2>4 DEF PlanNamespaces, WholeNamespaces
      <3> QED BY <2>3, <2>4, <3>1, <3>2 DEF PlanNamespaces
    <2>5. CASE PlanManifests
      <3> DEFINE key == <<"manifests", {o.ns : o \in cluster}>>
      <3>1. objects' = Chosen(key) /\ \A o \in cluster : o.ns \in key[2]
        BY <2>5 DEF PlanManifests, Chosen
      <3>2. WholeNamespaces'
        BY <2>5 DEF PlanManifests, WholeNamespaces
      <3> QED BY <2>3, <2>5, <3>1, <3>2 DEF PlanManifests
    <2>6. CASE UNCHANGED planVars
      BY <1>3, <2>6 DEF planVars, PlansAreOfTheCluster, ItemsOf, Chosen
    <2> QED BY <1>3, <2>4, <2>5, <2>6 DEF Plan
  <1> QED BY <1>1, <1>3, PTL DEF PlannerSpec

\* What lease.py pauses outside the lease holder, planner.classify gives to the lease, but for
\* ClusterMotion's own components and the platform's Deployments, whatever stands beside it,
\* and what it says of an object does not depend on which namespaces were planned with it, or
\* from what.
THEOREM PlansAreSound ==
    ASSUME NEW asked
    PROVE  PlannerSpec(asked) => []PlanIsSound
  <1>1. ASSUME PlansAreOfTheCluster
        PROVE  SingletonsAreHandedOver
    <2> SUFFICES ASSUME NEW p \in DOMAIN plans, NEW item \in plans[p], ensured(item.of)
                 PROVE  item.by.strategy \in {"lease-handoff", "skip", "platform"}
      BY DEF SingletonsAreHandedOver
    <2>1. PICK o : item = [of |-> o, by |-> ClassIn(cluster, o)]
      BY <1>1 DEF PlansAreOfTheCluster, ItemsOf
    <2>2. item.of = o /\ item.by = ClassIn(cluster, o)
      BY <2>1
    <2>3. CASE o.kind = "CronJob"
      BY <2>2, <2>3 DEF ClassIn, Strategy
    <2>4. CASE o.kind \in PodOwners /\ SingletonIn(cluster, o)
      BY <2>2, <2>4 DEF ClassIn, MovesIn, Strategy, PodOwners
    <2> QED BY <2>2, <2>3, <2>4 DEF ensured, SingletonIn
  <1>2. ASSUME PlansAreOfTheCluster
        PROVE  NamespacesAreApart
    <2> SUFFICES ASSUME NEW some \in DOMAIN plans, NEW others \in DOMAIN plans
                 PROVE  LET common(p) == {item \in plans[p] : /\ item.of.ns \in some[2] \cap others[2]
                                                              /\ item.of.kind \in Listed}
                        IN  common(some) = common(others)
      BY DEF NamespacesAreApart
    <2> DEFINE common(p) == {item \in plans[p] : /\ item.of.ns \in some[2] \cap others[2]
                                                 /\ item.of.kind \in Listed}
               among == {o \in cluster : o.ns \in some[2] \cap others[2] /\ o.kind \in Listed}
    <2>1. ASSUME NEW p \in {some, others}
          PROVE  common(p) = ItemsOf(among)
      <3>1. plans[p] = ItemsOf(Chosen(p))
        BY <1>2 DEF PlansAreOfTheCluster
      <3>2. {o \in Chosen(p) : o.ns \in some[2] \cap others[2] /\ o.kind \in Listed} = among
        BY DEF Chosen
      <3>3. \A item : item \in common(p) <=> item \in ItemsOf(among)
        BY <3>1, <3>2 DEF ItemsOf
      <3> QED BY <3>3
    <2> QED BY <2>1
  <1> QED BY <1>1, <1>2, PlansStayTrue, PTL DEF PlanIsSound
=============================================================================
