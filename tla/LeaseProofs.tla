---------------------------- MODULE LeaseProofs ----------------------------
(* Theorems about the lease, for every set of clusters, TTL, skew and bound. *)
EXTENDS Lease, TLAPS

\* Where the action of a tick goes next is a place of the agent.
LEMMA BranchLabel ==
    ASSUME NEW state, NEW me, NEW t, NEW drained
    PROVE  Branch[decide(state, me, t, drained)] \in Label
  BY DEF Branch, decide, Label

\* The snapshot a read takes is a snapshot.
LEMMA ReadSnapshot == ASSUME lease \in Item PROVE read \in Snapshot
  BY NamesAreDistinct DEF Item, Snapshot, read, heldBy, Person

\* A step of Go keeps the types of pc and seen.
LEMMA GoType ==
    ASSUME TypeOK, NEW c \in Cluster, NEW from, NEW to \in Label, Go(c, from, to)
    PROVE  pc' \in [Cluster -> Label] /\ seen' \in [Cluster -> Snapshot]
  <1>1. pc' \in [Cluster -> Label]
    BY DEF TypeOK, Go
  <1>2. Unread \in Snapshot
    BY DEF Unread, Snapshot, Person
  <1>3. seen' \in [Cluster -> Snapshot]
    BY <1>2 DEF TypeOK, Go
  <1> QED BY <1>1, <1>3

\* Every variable keeps its type.
THEOREM TypeCorrect == Spec => []TypeOK
  <1>1. Init => TypeOK
    BY DEF Init, TypeOK, Item, Absent, Snapshot, Unread, Person, Label, Workload
  <1>2. TypeOK /\ [Next]_vars => TypeOK'
    <2> SUFFICES ASSUME TypeOK, [Next]_vars PROVE TypeOK'
      OBVIOUS
    <2>1. ASSUME NEW c \in Cluster, Tick(c) PROVE TypeOK'
      <3>1. CASE Read(c)
        <4>1. firstCall(c) \in Label
          BY DEF firstCall, Label
        <4>2. seen' \in [Cluster -> Snapshot] /\ pc' \in [Cluster -> Label]
          BY <3>1, <4>1, ReadSnapshot DEF TypeOK, Read
        <4>3. started' \in [Cluster -> Nat]
          BY <3>1 DEF TypeOK, Read
        <4> QED BY <3>1, <4>2, <4>3 DEF TypeOK, Read, workVars, operVars
      <3>2. CASE Decide(c)
        BY <3>2, BranchLabel, GoType DEF TypeOK, Decide, workVars, operVars
      <3>3. ASSUME NEW w \in Workload, NEW flag \in BOOLEAN, Switch(c, w, flag),
                   NEW from, NEW to \in Label, Go(c, from, to)
            PROVE  TypeOK'
        <4>1. on' \in [Cluster -> [Workload -> BOOLEAN]]
          BY <3>3 DEF TypeOK, Switch
        <4> QED BY <3>3, <4>1, GoType DEF TypeOK, Switch, operVars
      <3>4. CASE EnsureOff(c)
        BY <3>4, <3>3 DEF EnsureOff, Label, Workload
      <3>5. CASE EnsureOn(c)
        BY <3>5, <3>3 DEF EnsureOn, Label, Workload
      <3>6. ASSUME NEW from, NEW w, NEW to \in Label, Drained(c, from, w, to)
            PROVE  TypeOK'
        BY <3>6, BranchLabel, GoType DEF TypeOK, Drained, workVars, operVars
      <3>7. CASE ListJobs(c)
        BY <3>7, <3>6 DEF ListJobs, Label
      <3>8. CASE ListPods(c)
        BY <3>8, <3>6, BranchLabel DEF ListPods
      <3>9. Clock(c) \in Nat
        BY TimesAreNatural DEF TypeOK, Clock
      <3>10. CASE Renew(c)
        <4>1. lease' \in Item
          BY <3>10, <3>9 DEF TypeOK, Renew, Item
        <4>2. \E to \in Label : Go(c, "renew", to)
          BY <3>10 DEF Renew, Label
        <4> QED BY <3>10, <4>1, <4>2, GoType DEF TypeOK, Renew, workVars, operVars
      <3>11. CASE Release(c)
        <4>1. lease' \in Item
          BY <3>11 DEF TypeOK, Release, Item, Person
        <4>2. Go(c, "release", "sleep") /\ "sleep" \in Label
          BY <3>11 DEF Release, Label
        <4> QED BY <3>11, <4>1, <4>2, GoType DEF TypeOK, Release, workVars, operVars
      <3>12. CASE Acquire(c)
        <4>1. lease' \in Item
          BY <3>12, <3>9 DEF TypeOK, Acquire, Item, Person
        <4>2. Go(c, "acquire", "sleep") /\ "sleep" \in Label
          BY <3>12 DEF Acquire, Label
        <4> QED BY <3>12, <4>1, <4>2, GoType DEF TypeOK, Acquire, workVars, operVars
      <3> QED BY <2>1, <3>1, <3>2, <3>4, <3>5, <3>7, <3>8, <3>10, <3>11, <3>12 DEF Tick
    <2>2. ASSUME NEW c \in Cluster, Fail(c) PROVE TypeOK'
      <3>1. "sleep" \in Label
        BY DEF Label
      <3> QED BY <2>2, <3>1, GoType DEF TypeOK, Fail, workVars, operVars
    <2>3. ASSUME NEW c \in Cluster, Crash(c) PROVE TypeOK'
      BY <2>3 DEF TypeOK, Crash, workVars, operVars, Label, Snapshot, Unread, Person
    <2>4. ASSUME NEW c \in Cluster, Restart(c) PROVE TypeOK'
      <3>1. "sleep" \in Label
        BY DEF Label
      <3> QED BY <2>4, <3>1, GoType DEF TypeOK, Restart, workVars, operVars
    <2>5. ASSUME NEW c \in Cluster, NEW w \in Workload,
                 Start(c, w) \/ Appear(c, w) \/ Finish(c, w)
          PROVE  TypeOK'
      <3>1. PICK v \in {"none", "unlisted", "listed"} : SetLoad(c, w, v)
        BY <2>5 DEF Start, Appear, Finish
      <3> QED BY <3>1 DEF TypeOK, SetLoad, operVars
    <2>6. ASSUME Operator PROVE TypeOK'
      <3>1. ASSUME NEW c \in Cluster, Initialise(c) PROVE TypeOK'
        BY <3>1 DEF TypeOK, Initialise, workVars, Item, Person
      <3>2. ASSUME NEW c \in Cluster, HandoffRequest(c) PROVE TypeOK'
        <4>1. now + Patience \in Nat
          BY TimesAreNatural DEF TypeOK
        <4>2. lease' \in Item
          BY <3>2 DEF TypeOK, HandoffRequest, Item, Person
        <4>3. handoff' \in [to : Person, deadline : Nat]
          BY <3>2, <4>1 DEF HandoffRequest, Person
        <4> QED BY <3>2, <4>2, <4>3 DEF TypeOK, HandoffRequest, workVars
      <3>3. CASE HandoffEnd
        BY <3>3 DEF TypeOK, HandoffEnd, workVars, Person
      <3> QED BY <2>6, <3>1, <3>2, <3>3 DEF Operator
    <2>7. CASE Elapse
      BY <2>7 DEF TypeOK, Elapse, workVars, operVars
    <2>8. CASE UNCHANGED vars
      BY <2>8 DEF TypeOK, vars
    <2> QED BY <2>1, <2>2, <2>3, <2>4, <2>5, <2>6, <2>7, <2>8 DEF Next
  <1> QED BY <1>1, <1>2, PTL DEF Spec
----------------------------------------------------------------------------
\* An agent that goes on to acquire has seen a lease that is free or expired.
LEMMA AcquireDecision ==
    ASSUME NEW state, NEW me, NEW t, NEW drained,
           Branch[decide(state, me, t, drained)] = "claimCron"
    PROVE  /\ state.desired = me /\ state.holder # me
           /\ state.holder = NoOne \/ t - state.renewed > TTL
  BY DEF Branch, decide, expired

\* Only a drained holder goes on to release.
LEMMA ReleaseDecision ==
    ASSUME NEW state, NEW me, NEW t
    PROVE  Branch[decide(state, me, t, FALSE)] \notin {"drainCron", "drainKeda", "listJobs",
                                                      "listPods", "release"}
  BY DEF Branch, decide

\* What an agent knew when it decided to acquire stays true until it writes.
THEOREM ClaimsAreJustified == Spec => []ClaimJustified
  <1>1. Init => ClaimJustified
    BY DEF Init, ClaimJustified, Claiming
  <1>2. TypeOK /\ ClaimJustified /\ [Next]_vars => ClaimJustified'
    <2> SUFFICES ASSUME TypeOK, ClaimJustified, [Next]_vars,
                        NEW d \in Cluster, Claiming(d)'
                 PROVE  Justified(d)'
      BY DEF ClaimJustified
    <2>0. seen[d] \in Snapshot /\ now \in Nat /\ Skew[d] \in Nat
      BY TimesAreNatural DEF TypeOK
    \* Steps that leave d's claim as it was keep it justified.
    <2>1. ASSUME Claiming(d), seen'[d] = seen[d], now' = now PROVE Justified(d)'
      BY <2>1 DEF ClaimJustified, Justified, Clock
    \* Steps of another agent do.
    <2>2. ASSUME NEW c \in Cluster, NEW from, NEW to, Go(c, from, to),
                 c # d \/ to \notin {"claimCron"}, to = "acquire" => from = "claimKeda",
                 to = "claimKeda" => from = "claimCron", now' = now
          PROVE Justified(d)'
      <3>1. seen'[d] = seen[d] /\ Claiming(d)
        BY <2>2 DEF Go, TypeOK, Claiming
      <3> QED BY <2>1, <2>2, <3>1
    \* The decision to acquire justifies the claim.
    <2>3. ASSUME NEW c \in Cluster, NEW from, NEW drained,
                 Go(c, from, Branch[decide(seen[c], c, Clock(c), drained)]), now' = now
          PROVE Justified(d)'
      <3> DEFINE to == Branch[decide(seen[c], c, Clock(c), drained)]
      <3>1. to \in {"renew", "offCron", "claimCron", "release"}
        BY DEF Branch, decide
      <3>2. CASE c = d /\ to = "claimCron"
        <4>1. seen'[d] = seen[d]
          BY <2>3, <3>2 DEF Go
        <4> QED BY <2>3, <3>2, <4>1, AcquireDecision DEF Justified, Clock
      <3>3. CASE c # d \/ to # "claimCron"
        BY <2>2, <2>3, <3>1, <3>3
      <3> QED BY <3>2, <3>3
    <2>4. ASSUME NEW c \in Cluster, Tick(c) PROVE Justified(d)'
      <3>1. CASE Read(c)
        <4>1. c # d
          BY <3>1 DEF Read, firstCall, TypeOK, Claiming
        <4> QED BY <2>1, <3>1, <4>1 DEF Read, TypeOK, Claiming
      <3>2. CASE Decide(c)
        BY <2>3, <3>2 DEF Decide
      <3>3. CASE EnsureOff(c)
        BY <2>2, <3>3 DEF EnsureOff, Switch
      <3>4. CASE EnsureOn(c)
        BY <2>2, <3>4 DEF EnsureOn, Switch
      <3>5. CASE ListJobs(c)
        BY <2>2, <2>3, <3>5 DEF ListJobs, Drained
      <3>6. CASE ListPods(c)
        BY <2>3, <3>6 DEF ListPods, Drained
      <3>7. CASE Renew(c)
        BY <2>2, <3>7 DEF Renew
      <3>8. CASE Release(c)
        BY <2>2, <3>8 DEF Release
      <3>9. CASE Acquire(c)
        BY <2>2, <3>9 DEF Acquire
      <3> QED BY <2>4, <3>1, <3>2, <3>3, <3>4, <3>5, <3>6, <3>7, <3>8, <3>9 DEF Tick
    <2>5. ASSUME NEW c \in Cluster, Fail(c) \/ Restart(c) PROVE Justified(d)'
      BY <2>2, <2>5 DEF Fail, Restart
    <2>6. ASSUME NEW c \in Cluster, Crash(c) PROVE Justified(d)'
      <3>1. c # d
        BY <2>6 DEF Crash, TypeOK, Claiming
      <3> QED BY <2>1, <2>6, <3>1 DEF Crash, TypeOK, Claiming
    <2>7. CASE \E c \in Cluster, w \in Workload : Start(c, w) \/ Appear(c, w) \/ Finish(c, w)
      BY <2>1, <2>7 DEF Start, Appear, Finish, SetLoad, Claiming
    <2>8. CASE Operator
      BY <2>1, <2>8 DEF Operator, Initialise, HandoffRequest, HandoffEnd, Claiming
    <2>9. CASE Elapse
      <3>1. seen'[d] = seen[d] /\ Claiming(d) /\ now' = now + 1
        BY <2>9 DEF Elapse, Claiming
      <3>2. Clock(d)' = Clock(d) + 1 /\ Clock(d) \in Nat
        BY <2>0, <3>1 DEF Clock
      <3>3. seen[d].renewed \in Nat /\ TTL \in Nat
        BY <2>0, TimesAreNatural DEF Snapshot
      <3> QED BY <3>1, <3>2, <3>3 DEF ClaimJustified, Justified
    <2>10. CASE UNCHANGED vars
      BY <2>1, <2>10 DEF vars, Claiming
    <2> QED BY <2>4, <2>5, <2>6, <2>7, <2>8, <2>9, <2>10 DEF Next
  <1> QED BY <1>1, <1>2, TypeCorrect, PTL DEF Spec
----------------------------------------------------------------------------
\* Only these steps change the holder.
LEMMA HolderSteps ==
    ASSUME [Next]_vars, lease'.holder # lease.holder
    PROVE  \/ \E c \in Cluster : Renew(c) \/ Release(c) \/ Acquire(c)
           \/ \E c \in Cluster : Initialise(c) \/ HandoffRequest(c)
  BY DEF Next, vars, Tick, Read, Decide, EnsureOff, EnsureOn, Switch, ListJobs, ListPods,
         Drained, Fail, Crash, Restart, Start, Appear, Finish, SetLoad, Operator,
         HandoffEnd, Elapse

\* No holder loses its lease to another cluster before it has expired.
THEOREM LiveLeasesAreKept == Spec => LiveLeaseIsNotTaken
  <1>1. TypeOK /\ ClaimJustified /\ [Next]_vars =>
          \A c, d \in Cluster :
            c # d /\ lease.holder = c /\ lease'.holder = d /\ inits' = inits
              => Clock(d) - lease.renewed > TTL
    <2> SUFFICES ASSUME TypeOK, ClaimJustified, [Next]_vars,
                        NEW c \in Cluster, NEW d \in Cluster,
                        c # d, lease.holder = c, lease'.holder = d, inits' = inits
                 PROVE  Clock(d) - lease.renewed > TTL
      OBVIOUS
    <2>1. ASSUME NEW e \in Cluster, Acquire(e) PROVE Clock(d) - lease.renewed > TTL
      <3>1. unchanged(e) /\ e = d
        BY <2>1 DEF Acquire, TypeOK, Item
      <3>2. Justified(d)
        BY <2>1, <3>1 DEF Acquire, Go, ClaimJustified, Claiming
      <3>3. lease.holder # NoOne
        BY NamesAreDistinct
      <3> QED BY <3>1, <3>2, <3>3 DEF Justified, unchanged
    <2>2. ASSUME NEW e \in Cluster, Initialise(e) PROVE FALSE
      BY <2>2 DEF Initialise, TypeOK
    <2>3. ASSUME NEW e \in Cluster, Renew(e) \/ Release(e) \/ HandoffRequest(e) PROVE FALSE
      BY <2>3, NamesAreDistinct DEF Renew, Release, HandoffRequest, TypeOK, Item
    <2> QED BY <2>1, <2>2, <2>3, HolderSteps
  <1> QED BY <1>1, TypeCorrect, ClaimsAreJustified, PTL DEF Spec, LiveLeaseIsNotTaken

\* An item that was never initialised gets no holder but from `cm lease init`.
THEOREM UninitialisedStaysFree == Spec => UninitialisedIsNeverHeld
  <1>1. TypeOK /\ [Next]_vars =>
          (lease.holder = Missing /\ lease'.holder # Missing => inits' # inits)
    <2> SUFFICES ASSUME TypeOK, [Next]_vars, lease.holder = Missing, lease'.holder # Missing
                 PROVE  inits' # inits
      OBVIOUS
    <2>1. ASSUME NEW e \in Cluster, Initialise(e) PROVE inits' # inits
      BY <2>1 DEF Initialise, TypeOK
    <2>2. ASSUME NEW e \in Cluster, Renew(e) \/ Release(e) \/ HandoffRequest(e) PROVE FALSE
      BY <2>2, NamesAreDistinct DEF Renew, Release, HandoffRequest, TypeOK, Item
    <2>3. ASSUME NEW e \in Cluster, Acquire(e) PROVE FALSE
      <3>1. seen[e].holder # Missing
        BY NamesAreDistinct DEF TypeOK, Snapshot, Person
      <3> QED BY <2>3, <3>1 DEF Acquire, unchanged
    <2> QED BY <2>1, <2>2, <2>3, HolderSteps
  <1> QED BY <1>1, TypeCorrect, PTL DEF Spec, UninitialisedIsNeverHeld
----------------------------------------------------------------------------
\* From the first patch of a drain to the release, what was switched off stays off.
THEOREM DrainsStayOff == Spec => []DrainingIsOff
  <1>1. Init => DrainingIsOff
    BY DEF Init, DrainingIsOff
  <1>2. TypeOK /\ DrainingIsOff /\ [Next]_vars => DrainingIsOff'
    <2> SUFFICES ASSUME TypeOK, DrainingIsOff, [Next]_vars PROVE DrainingIsOff'
      OBVIOUS
    <2> USE DEF DrainingIsOff
    \* A step into no place of a drain, or one place further, keeps the switches.
    <2>1. ASSUME NEW c \in Cluster, NEW from, NEW to, Go(c, from, to), on' = on,
                 \/ to \notin {"drainKeda", "listJobs", "listPods", "release"}
                 \/ from = "listJobs" /\ to = "listPods"
                 \/ from = "listPods" /\ to = "release"
          PROVE DrainingIsOff'
      BY <2>1 DEF Go, TypeOK
    <2>2. ASSUME NEW c \in Cluster, Tick(c) PROVE DrainingIsOff'
      <3>1. CASE Read(c)
        BY <3>1 DEF Read, firstCall, TypeOK, workVars
      <3>2. CASE Decide(c)
        BY <2>1, <3>2, ReleaseDecision DEF Decide, workVars
      <3>3. CASE EnsureOff(c)
        BY <3>3 DEF EnsureOff, Switch, Go, TypeOK, Workload
      <3>4. CASE EnsureOn(c)
        BY <3>4 DEF EnsureOn, Switch, Go, TypeOK, Workload
      <3>5. CASE ListJobs(c)
        BY <2>1, <3>5, ReleaseDecision DEF ListJobs, Drained, workVars
      <3>6. CASE ListPods(c)
        <4>1. Branch[decide(seen[c], c, Clock(c), TRUE)] \in {"renew", "offCron", "claimCron", "release"}
          BY DEF Branch, decide
        <4> QED BY <2>1, <3>6, <4>1, ReleaseDecision DEF ListPods, Drained, workVars
      <3>7. CASE Renew(c)
        BY <2>1, <3>7 DEF Renew, workVars
      <3>8. CASE Release(c)
        BY <2>1, <3>8 DEF Release, workVars
      <3>9. CASE Acquire(c)
        BY <2>1, <3>9 DEF Acquire, workVars
      <3> QED BY <2>2, <3>1, <3>2, <3>3, <3>4, <3>5, <3>6, <3>7, <3>8, <3>9 DEF Tick
    <2>3. ASSUME NEW c \in Cluster, Fail(c) \/ Restart(c) PROVE DrainingIsOff'
      BY <2>1, <2>3 DEF Fail, Restart, workVars
    <2>4. ASSUME NEW c \in Cluster, Crash(c) PROVE DrainingIsOff'
      BY <2>4 DEF Crash, TypeOK, workVars
    <2>5. CASE \E c \in Cluster, w \in Workload : Start(c, w) \/ Appear(c, w) \/ Finish(c, w)
      BY <2>5 DEF Start, Appear, Finish, SetLoad
    <2>6. CASE Operator
      BY <2>6 DEF Operator, Initialise, HandoffRequest, HandoffEnd, workVars
    <2>7. CASE Elapse \/ UNCHANGED vars
      BY <2>7 DEF Elapse, vars, workVars
    <2> QED BY <2>2, <2>3, <2>4, <2>5, <2>6, <2>7 DEF Next
  <1> QED BY <1>1, <1>2, TypeCorrect, PTL DEF Spec

\* Only a release frees the lease.
LEMMA FreeingSteps ==
    ASSUME TypeOK, [Next]_vars, NEW c \in Cluster, lease.holder = c, lease'.holder = NoOne
    PROVE  Release(c)
  <1>1. lease'.holder # lease.holder
    BY NamesAreDistinct
  <1>2. ASSUME NEW e \in Cluster, Renew(e) \/ Acquire(e) \/ Initialise(e) \/ HandoffRequest(e)
        PROVE  FALSE
    <2>1. CASE Acquire(e)
      BY <1>1, <2>1, NamesAreDistinct DEF Acquire, TypeOK, Item
    <2>2. CASE Initialise(e)
      BY <2>2, NamesAreDistinct DEF Initialise
    <2>3. CASE Renew(e) \/ HandoffRequest(e)
      BY <1>1, <2>3 DEF Renew, HandoffRequest, TypeOK, Item
    <2> QED BY <1>2, <2>1, <2>2, <2>3
  <1>3. ASSUME NEW e \in Cluster, Release(e) PROVE e = c
    BY <1>1, <1>3 DEF Release
  <1> QED BY <1>1, <1>2, <1>3, HolderSteps

\* A cluster that gives up the lease has switched both its workloads off.
THEOREM ReleasesAreSwitchedOff == Spec => ReleaseIsSwitchedOff
  <1>1. TypeOK /\ DrainingIsOff /\ [Next]_vars =>
          \A c \in Cluster, w \in Workload :
            lease.holder = c /\ lease'.holder = NoOne => ~on[c][w]
    BY FreeingSteps DEF Release, Go, DrainingIsOff, Workload
  <1> QED BY <1>1, TypeCorrect, DrainsStayOff, PTL DEF Spec, ReleaseIsSwitchedOff
----------------------------------------------------------------------------
\* What a listing found done stays so while the switches are off: of the workloads
\* that are listed as soon as they exist, no job is left when the pods are listed,
\* and nothing when the lease is released.
ListingIsTrue ==
    \A c \in Cluster, w \in Workload \ Lag :
        /\ load[c][w] # "unlisted"
        /\ pc[c] = "listPods" /\ w = "cronjob" => load[c][w] = "none"
        /\ pc[c] = "release" => load[c][w] = "none"

\* The listings stay true until the release.
THEOREM ListingsStayTrue == Spec => []ListingIsTrue
  <1>1. Init => ListingIsTrue
    BY DEF Init, ListingIsTrue
  <1>2. TypeOK /\ DrainingIsOff /\ ListingIsTrue /\ [Next]_vars => ListingIsTrue'
    <2> SUFFICES ASSUME TypeOK, DrainingIsOff, ListingIsTrue, [Next]_vars,
                        NEW d \in Cluster, NEW w \in Workload \ Lag
                 PROVE  /\ load'[d][w] # "unlisted"
                        /\ pc'[d] = "listPods" /\ w = "cronjob" => load'[d][w] = "none"
                        /\ pc'[d] = "release" => load'[d][w] = "none"
      BY DEF ListingIsTrue
    <2> DEFINE Goal == /\ load'[d][w] # "unlisted"
                       /\ pc'[d] = "listPods" /\ w = "cronjob" => load'[d][w] = "none"
                       /\ pc'[d] = "release" => load'[d][w] = "none"
    <2>0. /\ load[d][w] # "unlisted"
          /\ pc[d] = "listPods" /\ w = "cronjob" => load[d][w] = "none"
          /\ pc[d] = "release" => load[d][w] = "none"
      BY DEF ListingIsTrue
    \* A step that changes no work and enters neither of the two places.
    <2>1. ASSUME load' = load, NEW c \in Cluster, NEW to, pc' = [pc EXCEPT ![c] = to],
                 to \notin {"listPods", "release"}
          PROVE Goal
      BY <2>0, <2>1 DEF TypeOK
    <2>2. ASSUME NEW c \in Cluster, Tick(c) PROVE Goal
      <3>1. CASE Read(c)
        <4>1. firstCall(c) \notin {"listPods", "release"}
          BY DEF firstCall
        <4> QED BY <2>1, <3>1, <4>1 DEF Read, workVars
      <3>2. CASE Decide(c)
        BY <2>1, <3>2, ReleaseDecision DEF Decide, Go, workVars
      <3>3. CASE EnsureOff(c) \/ EnsureOn(c)
        <4>1. load' = load
          BY <3>3 DEF EnsureOff, EnsureOn, Switch
        <4>2. PICK from \in Label, to \in Label \ {"listPods", "release"} : Go(c, from, to)
          BY <3>3 DEF EnsureOff, EnsureOn, Label
        <4> QED BY <2>1, <4>1, <4>2 DEF Go
      <3>4. CASE ListJobs(c)
        <4>1. CASE busy(c, "cronjob")
          BY <2>1, <3>4, <4>1, ReleaseDecision DEF ListJobs, Drained, Go, workVars
        <4>2. CASE ~busy(c, "cronjob")
          BY <2>0, <3>4, <4>2 DEF ListJobs, Drained, Go, busy, workVars, TypeOK, Workload
        <4> QED BY <4>1, <4>2
      <3>5. CASE ListPods(c)
        <4>1. CASE busy(c, "scaledobject")
          BY <2>1, <3>5, <4>1, ReleaseDecision DEF ListPods, Drained, Go, workVars
        <4>2. CASE ~busy(c, "scaledobject")
          <5>1. Branch[decide(seen[c], c, Clock(c), TRUE)] # "listPods"
            BY DEF Branch, decide
          <5>2. /\ load' = load /\ pc[c] = "listPods"
                /\ pc' = [pc EXCEPT ![c] = Branch[decide(seen[c], c, Clock(c), TRUE)]]
            BY <3>5, <4>2 DEF ListPods, Drained, Go, workVars
          <5>3. c = d => load[d][w] = "none"
            BY <2>0, <4>2, <5>2 DEF busy, TypeOK, Workload
          <5> QED BY <2>0, <5>1, <5>2, <5>3 DEF TypeOK
        <4> QED BY <4>1, <4>2
      <3>6. CASE Renew(c)
        BY <2>1, <3>6 DEF Renew, Go, workVars
      <3>7. CASE Release(c) \/ Acquire(c)
        BY <2>1, <3>7 DEF Release, Acquire, Go, workVars
      <3> QED BY <2>2, <3>1, <3>2, <3>3, <3>4, <3>5, <3>6, <3>7 DEF Tick
    <2>3. ASSUME NEW c \in Cluster, Fail(c) \/ Crash(c) \/ Restart(c) PROVE Goal
      BY <2>1, <2>3 DEF Fail, Crash, Restart, Go, workVars
    \* New work needs a switch that is on, which it is not during a drain.
    <2>4. ASSUME NEW c \in Cluster, NEW v \in Workload, Start(c, v) PROVE Goal
      <3>1. pc' = pc /\ load' = [load EXCEPT ![c][v] = IF v \in Lag THEN "unlisted" ELSE "listed"]
        BY <2>4 DEF Start, SetLoad
      <3>2. c = d /\ v = w => on[d][w]
        BY <2>4 DEF Start
      <3>3. /\ pc[d] = "listPods" => ~on[d]["cronjob"]
            /\ pc[d] = "release" => ~on[d][w]
        BY DEF DrainingIsOff, Workload
      <3> QED BY <2>0, <3>1, <3>2, <3>3 DEF TypeOK
    <2>5. ASSUME NEW c \in Cluster, NEW v \in Workload, Appear(c, v) \/ Finish(c, v) PROVE Goal
      BY <2>0, <2>5 DEF Appear, Finish, SetLoad, TypeOK
    <2>6. CASE Operator \/ Elapse \/ UNCHANGED vars
      BY <2>0, <2>6 DEF Operator, Initialise, HandoffRequest, HandoffEnd, Elapse, vars, workVars
    <2> QED BY <2>2, <2>3, <2>4, <2>5, <2>6 DEF Next
  <1> QED BY <1>1, <1>2, TypeCorrect, DrainsStayOff, PTL DEF Spec

\* A cluster that gives up the lease has no singleton work left, but for what could not
\* be listed as soon as it existed.
THEOREM ReleasesAreDrained == Spec => ReleaseIsDrained
  <1>1. TypeOK /\ ListingIsTrue /\ [Next]_vars =>
          \A c \in Cluster, w \in Workload \ Lag :
            lease.holder = c /\ lease'.holder = NoOne => load[c][w] = "none"
    BY FreeingSteps DEF Release, Go, ListingIsTrue
  <1> QED BY <1>1, TypeCorrect, ListingsStayTrue, PTL DEF Spec, ReleaseIsDrained
----------------------------------------------------------------------------
(* Prompt agents: until the first failure and the second `cm lease init`,   *)
(* if two periods and a cluster's skew fit into the TTL.                    *)

Undisturbed == fails = 0 /\ inits <= 1

TimesFit == \A c \in Cluster : 2 * Period + Skew[c] <= TTL

\* A running agent's tick is not older than a period.
Punctual ==
    \A c \in Cluster : pc[c] # "down" /\ started[c] <= now /\ now <= started[c] + Period

\* Before `cm lease init` there is no holder.
FreeAtFirst == inits = 0 => lease.holder = Missing

\* The cron job is switched off before the scaled object, and both before an acquire.
OffInTurn ==
    \A c \in Cluster :
        /\ pc[c] \in {"claimKeda", "offKeda", "acquire"} => ~on[c]["cronjob"]
        /\ pc[c] = "acquire" => ~on[c]["scaledobject"]

\* A cluster is engaged from a renewal on, until both its switches are off.
Engaged(c) == (\E w \in Workload : on[c][w]) \/ pc[c] \in {"onCron", "onKeda"}

\* An engaged cluster holds the lease, and renewed it in its last tick or the one before.
FreshWhileOn ==
    \A c \in Cluster : Engaged(c) =>
        /\ lease.holder = c /\ started[c] <= lease.renewed + Period
        /\ pc[c] \in {"sleep", "onCron", "onKeda"} => started[c] <= lease.renewed

\* What is undisturbed after a step was so before it, and the step was no failure.
LEMMA UndisturbedSteps ==
    ASSUME TypeOK, [Next]_vars, Undisturbed'
    PROVE  /\ Undisturbed
           /\ ~ \E c \in Cluster : Fail(c) \/ Crash(c)
           /\ \A c \in Cluster : Initialise(c) => inits = 0
  <1>1. fails' = fails \/ fails' = fails + 1
    BY DEF Next, vars, Tick, Read, Decide, EnsureOff, EnsureOn, Switch, ListJobs, ListPods, Drained,
           Renew, Release, Acquire, Fail, Crash, Restart, Start, Appear, Finish, SetLoad, Operator,
           Initialise, HandoffRequest, HandoffEnd, Elapse
  <1>2. inits' = inits \/ inits' = inits + 1
    BY DEF Next, vars, Tick, Read, Decide, EnsureOff, EnsureOn, Switch, ListJobs, ListPods, Drained,
           Renew, Release, Acquire, Fail, Crash, Restart, Start, Appear, Finish, SetLoad, Operator,
           Initialise, HandoffRequest, HandoffEnd, Elapse, operVars
  <1> QED BY <1>1, <1>2 DEF TypeOK, Undisturbed, Fail, Crash, Initialise

\* A tick ends within its period, and nobody holds what was not initialised.
THEOREM TicksArePunctual == Spec => [](Undisturbed => Punctual /\ FreeAtFirst)
  <1>1. Init => Punctual /\ FreeAtFirst
    BY TimesAreNatural DEF Init, Punctual, FreeAtFirst, Absent
  <1>2. TypeOK /\ (Undisturbed => Punctual /\ FreeAtFirst) /\ [Next]_vars
          => (Undisturbed => Punctual /\ FreeAtFirst)'
    <2> SUFFICES ASSUME TypeOK, Undisturbed => Punctual /\ FreeAtFirst, [Next]_vars, Undisturbed'
                 PROVE  (Punctual /\ FreeAtFirst)'
      OBVIOUS
    <2>0. /\ Punctual /\ FreeAtFirst
          /\ ~ \E c \in Cluster : Fail(c) \/ Crash(c)
      BY UndisturbedSteps
    <2> USE TimesAreNatural DEF TypeOK
    <2>1. ASSUME NEW c \in Cluster, Tick(c) PROVE (Punctual /\ FreeAtFirst)'
      <3>1. /\ now' = now /\ inits' = inits /\ pc'[c] # "down"
            /\ \A d \in Cluster \ {c} : pc'[d] = pc[d]
        <4>1. firstCall(c) # "down" /\ \A a, t, x : Branch[decide(a, c, t, x)] # "down"
          BY DEF firstCall, Branch, decide
        <4>2. now' = now /\ inits' = inits
          BY <2>1 DEF Tick, Read, Decide, EnsureOff, EnsureOn, Switch, ListJobs, ListPods,
                   Drained, Renew, Release, Acquire, operVars
        <4>3. ASSUME NEW from, NEW to, Go(c, from, to), to # "down"
              PROVE  pc'[c] # "down" /\ \A d \in Cluster \ {c} : pc'[d] = pc[d]
          BY <4>3 DEF Go
        <4>4. CASE Read(c)
          BY <4>1, <4>2, <4>4 DEF Read
        <4>5. CASE Decide(c) \/ ListJobs(c) \/ ListPods(c)
          BY <4>1, <4>2, <4>3, <4>5 DEF Decide, ListJobs, ListPods, Drained
        <4>6. CASE EnsureOff(c) \/ EnsureOn(c)
          BY <4>2, <4>3, <4>6 DEF EnsureOff, EnsureOn
        <4>7. CASE Renew(c) \/ Release(c) \/ Acquire(c)
          BY <4>2, <4>3, <4>7 DEF Renew, Release, Acquire
        <4> QED BY <2>1, <4>4, <4>5, <4>6, <4>7 DEF Tick
      <3>2. started' = started \/ started' = [started EXCEPT ![c] = now]
        BY <2>1 DEF Tick, Read, Decide, EnsureOff, EnsureOn, Switch, ListJobs, ListPods,
                   Drained, Renew, Release, Acquire
      <3>3. Punctual'
        BY <2>0, <3>1, <3>2 DEF Punctual
      <3>4. lease.holder = Missing => lease'.holder = Missing
        <4>1. \/ lease' = lease
              \/ lease.holder = c
              \/ Acquire(c)
          BY <2>1 DEF Tick, Read, Decide, EnsureOff, EnsureOn, Switch, ListJobs, ListPods,
                   Drained, Renew, Release
        <4>2. seen[c].holder # Missing
          BY NamesAreDistinct DEF Snapshot, Person
        <4> QED BY <4>1, <4>2, NamesAreDistinct DEF Acquire, unchanged
      <3> QED BY <2>0, <3>1, <3>3, <3>4 DEF FreeAtFirst
    <2>2. ASSUME NEW c \in Cluster, Restart(c) PROVE FALSE
      BY <2>0, <2>2 DEF Restart, Go, Punctual
    <2>3. CASE \E c \in Cluster, w \in Workload : Start(c, w) \/ Appear(c, w) \/ Finish(c, w)
      BY <2>0, <2>3 DEF Start, Appear, Finish, SetLoad, operVars, Punctual, FreeAtFirst
    <2>4. CASE Operator
      BY <2>0, <2>4 DEF Operator, Initialise, HandoffRequest, HandoffEnd, Punctual, FreeAtFirst, Item
    <2>5. CASE Elapse
      BY <2>0, <2>5 DEF Elapse, operVars, Punctual, FreeAtFirst
    <2>6. CASE UNCHANGED vars
      BY <2>0, <2>6 DEF vars, Punctual, FreeAtFirst
    <2> QED BY <2>0, <2>1, <2>2, <2>3, <2>4, <2>5, <2>6 DEF Next
  <1> QED BY <1>1, <1>2, TypeCorrect, PTL DEF Spec

\* Where the patches of ensure(False) stand, the ones before have been made.
THEOREM SwitchesGoOffInTurn == Spec => []OffInTurn
  <1>1. Init => OffInTurn
    BY DEF Init, OffInTurn
  <1>2. TypeOK /\ OffInTurn /\ [Next]_vars => OffInTurn'
    <2> SUFFICES ASSUME TypeOK, OffInTurn, [Next]_vars PROVE OffInTurn'
      OBVIOUS
    <2> USE DEF OffInTurn
    <2>1. ASSUME NEW c \in Cluster, NEW from, NEW to, Go(c, from, to), on' = on,
                 to \notin {"claimKeda", "offKeda", "acquire"}
          PROVE OffInTurn'
      BY <2>1 DEF Go, TypeOK
    <2>2. ASSUME NEW c \in Cluster, Tick(c) PROVE OffInTurn'
      <3>0. \A a, t, x : Branch[decide(a, c, t, x)] \notin {"claimKeda", "offKeda", "acquire"}
        BY DEF Branch, decide
      <3>1. CASE Read(c)
        BY <3>1 DEF Read, firstCall, TypeOK, workVars
      <3>2. CASE Decide(c) \/ ListJobs(c) \/ ListPods(c)
        BY <2>1, <3>0, <3>2 DEF Decide, ListJobs, ListPods, Drained, workVars
      <3>3. CASE EnsureOff(c)
        BY <3>3 DEF EnsureOff, Switch, Go, TypeOK, Workload
      <3>4. CASE EnsureOn(c)
        BY <3>4 DEF EnsureOn, Switch, Go, TypeOK, Workload
      <3>5. CASE Renew(c) \/ Release(c) \/ Acquire(c)
        BY <2>1, <3>5 DEF Renew, Release, Acquire, workVars
      <3> QED BY <2>2, <3>1, <3>2, <3>3, <3>4, <3>5 DEF Tick
    <2>3. ASSUME NEW c \in Cluster, Fail(c) \/ Restart(c) PROVE OffInTurn'
      BY <2>1, <2>3 DEF Fail, Restart, workVars
    <2>4. ASSUME NEW c \in Cluster, Crash(c) PROVE OffInTurn'
      BY <2>4 DEF Crash, TypeOK, workVars
    <2>5. CASE \E c \in Cluster, w \in Workload : Start(c, w) \/ Appear(c, w) \/ Finish(c, w)
      BY <2>5 DEF Start, Appear, Finish, SetLoad
    <2>6. CASE Operator \/ Elapse \/ UNCHANGED vars
      BY <2>6 DEF Operator, Initialise, HandoffRequest, HandoffEnd, Elapse, vars, workVars
    <2> QED BY <2>2, <2>3, <2>4, <2>5, <2>6 DEF Next
  <1> QED BY <1>1, <1>2, TypeCorrect, PTL DEF Spec

\* An acquire needs a lease that is free, or has expired on the clock of its agent.
LEMMA AcquireCondition ==
    ASSUME TypeOK, ClaimJustified, NEW d \in Cluster, Acquire(d), unchanged(d)
    PROVE  lease.holder \notin Cluster \/ Clock(d) - lease.renewed > TTL
  <1>1. Justified(d)
    BY DEF Acquire, Go, ClaimJustified, Claiming
  <1> QED BY <1>1, NamesAreDistinct DEF Justified, unchanged

\* A cluster whose lease is at most two periods old keeps it, until it releases it.
LEMMA FreshIsKept ==
    ASSUME TimesFit, TypeOK, ClaimJustified, [Next]_vars, Undisturbed', FreeAtFirst,
           NEW c \in Cluster, lease.holder = c, now <= lease.renewed + 2 * Period,
           ~Release(c)
    PROVE  lease'.holder = c /\ (lease'.renewed = lease.renewed \/ now <= lease'.renewed)
  <1> USE TimesAreNatural DEF TypeOK
  <1>0. /\ now \in Nat /\ lease.renewed \in Nat /\ Period \in Nat /\ TTL \in Nat
        /\ \A d \in Cluster : Skew[d] \in Nat
    BY DEF Item
  <1>1. ASSUME NEW d \in Cluster, Renew(d) PROVE lease' = lease \/ (lease'.holder = c /\ lease'.renewed = Clock(c))
    BY <1>1 DEF Renew, Item
  <1>2. ASSUME NEW d \in Cluster, Acquire(d) PROVE lease' = lease
    <2>1. ASSUME unchanged(d) PROVE FALSE
      <3>1. Clock(d) - lease.renewed > TTL
        BY <1>2, <2>1, AcquireCondition
      <3>2. now + Skew[d] <= lease.renewed + TTL
        BY <1>0 DEF TimesFit
      <3> QED BY <1>0, <3>1, <3>2 DEF Clock
    <2> QED BY <1>2, <2>1 DEF Acquire
  <1>3. ASSUME NEW d \in Cluster, Release(d) PROVE lease' = lease
    BY <1>3 DEF Release
  <1>4. ASSUME NEW d \in Cluster, Initialise(d) PROVE FALSE
    BY <1>4, UndisturbedSteps, NamesAreDistinct DEF FreeAtFirst
  <1>5. ASSUME NEW d \in Cluster, HandoffRequest(d)
        PROVE  lease'.holder = c /\ lease'.renewed = lease.renewed
    BY <1>5 DEF HandoffRequest, Item
  <1>6. \/ lease' = lease
        \/ \E d \in Cluster : Renew(d) \/ Acquire(d) \/ Release(d) \/ Initialise(d) \/ HandoffRequest(d)
    BY DEF Next, vars, Tick, Read, Decide, EnsureOff, EnsureOn, Switch, ListJobs, ListPods,
           Drained, Fail, Crash, Restart, Start, Appear, Finish, SetLoad, Operator, HandoffEnd, Elapse
  <1>7. now <= Clock(c)
    BY <1>0 DEF Clock
  <1> QED BY <1>1, <1>2, <1>3, <1>4, <1>5, <1>6, <1>7

\* An engaged cluster's lease is at most two periods old.
LEMMA EngagedIsFresh ==
    ASSUME TypeOK, Punctual, FreshWhileOn, NEW c \in Cluster, Engaged(c)
    PROVE  lease.holder = c /\ now <= lease.renewed + 2 * Period
  <1>1. started[c] \in Nat /\ now \in Nat /\ lease.renewed \in Nat /\ Period \in Nat
    BY TimesAreNatural DEF TypeOK, Item
  <1> QED BY <1>1 DEF Punctual, FreshWhileOn

\* An engaged cluster holds a fresh lease.
THEOREM EngagedIsHolder ==
    ASSUME TimesFit
    PROVE  Spec => [](Undisturbed => FreshWhileOn)
  <1>1. Init => FreshWhileOn
    BY DEF Init, FreshWhileOn, Engaged
  <1>2. /\ TypeOK /\ TypeOK' /\ ClaimJustified /\ DrainingIsOff /\ OffInTurn
        /\ Undisturbed => Punctual /\ FreeAtFirst
        /\ Undisturbed => FreshWhileOn
        /\ [Next]_vars
        => (Undisturbed => FreshWhileOn)'
    <2> SUFFICES ASSUME TypeOK, TypeOK', ClaimJustified, DrainingIsOff, OffInTurn,
                        Undisturbed => Punctual /\ FreeAtFirst, Undisturbed => FreshWhileOn,
                        [Next]_vars, Undisturbed',
                        NEW c \in Cluster, Engaged(c)'
                 PROVE  /\ lease'.holder = c /\ started'[c] <= lease'.renewed + Period
                        /\ pc'[c] \in {"sleep", "onCron", "onKeda"} => started'[c] <= lease'.renewed
      BY DEF FreshWhileOn
    <2> DEFINE Goal == /\ lease'.holder = c /\ started'[c] <= lease'.renewed + Period
                       /\ pc'[c] \in {"sleep", "onCron", "onKeda"} => started'[c] <= lease'.renewed
    <2>0. /\ Punctual /\ FreeAtFirst /\ FreshWhileOn
          /\ ~ \E d \in Cluster : Fail(d) \/ Crash(d)
      BY UndisturbedSteps
    <2>1. /\ now \in Nat /\ started[c] \in Nat /\ lease.renewed \in Nat /\ Period \in Nat
          /\ Skew[c] \in Nat /\ started[c] <= now /\ now <= started[c] + Period /\ pc[c] # "down"
      BY <2>0, TimesAreNatural DEF TypeOK, Item, Punctual
    \* Whatever others do, an engaged cluster's lease stays fresh.
    <2>2. ASSUME on'[c] = on[c], pc'[c] = pc[c], started'[c] = started[c] PROVE Goal
      <3>1. Engaged(c)
        BY <2>2 DEF Engaged
      <3>2. ~Release(c)
        BY <2>2 DEF Release, Go, TypeOK
      <3>3. lease'.holder = c /\ (lease'.renewed = lease.renewed \/ now <= lease'.renewed)
        BY <2>0, <3>1, <3>2, EngagedIsFresh, FreshIsKept
      <3>4. /\ started[c] <= lease.renewed + Period
            /\ pc[c] \in {"sleep", "onCron", "onKeda"} => started[c] <= lease.renewed
        BY <2>0, <3>1 DEF FreshWhileOn
      <3>5. lease'.renewed \in Nat
        BY DEF TypeOK, Item
      <3> QED BY <2>1, <2>2, <3>3, <3>4, <3>5
    <2>3. ASSUME NEW d \in Cluster, Tick(d), d # c PROVE Goal
      <3>1. pc'[c] = pc[c]
        BY <2>3 DEF Tick, Read, Decide, EnsureOff, EnsureOn, ListJobs, ListPods, Drained,
                    Renew, Release, Acquire, Go, TypeOK
      <3>2. on'[c] = on[c]
        BY <2>3 DEF Tick, Read, Decide, EnsureOff, EnsureOn, Switch, ListJobs, ListPods, Drained,
                    Renew, Release, Acquire, TypeOK, workVars
      <3>3. started'[c] = started[c]
        BY <2>3 DEF Tick, Read, Decide, EnsureOff, EnsureOn, Switch, ListJobs, ListPods, Drained,
                    Renew, Release, Acquire, TypeOK
      <3> QED BY <2>2, <3>1, <3>2, <3>3
    \* The tick's own calls: one that only moves on, engaged before it.
    <2>4. ASSUME lease' = lease, started' = started, Engaged(c),
                 pc'[c] \in {"sleep", "onCron", "onKeda"} => pc[c] \in {"onCron", "onKeda"}
          PROVE Goal
      BY <2>0, <2>4 DEF FreshWhileOn
    <2>5. CASE Tick(c)
      <3>1. CASE Read(c)
        <4>1. Engaged(c) /\ pc[c] = "sleep" /\ lease' = lease /\ started'[c] = now
              /\ pc'[c] \notin {"sleep", "onCron", "onKeda"}
          BY <3>1 DEF Read, Engaged, firstCall, TypeOK, workVars
        <4>2. lease.holder = c /\ started[c] <= lease.renewed
          BY <2>0, <4>1 DEF FreshWhileOn
        <4> QED BY <2>1, <4>1, <4>2
      <3>2. CASE Decide(c) \/ ListJobs(c) \/ ListPods(c)
        <4>0. \A x \in BOOLEAN : Branch[decide(seen[c], c, Clock(c), x)]
                       \in {"renew", "offCron", "claimCron", "release", "listPods"}
          BY DEF Branch, decide
        <4>1. PICK from \in {"decide", "listJobs", "listPods"},
                   to \in {"renew", "offCron", "claimCron", "release", "listPods"} : Go(c, from, to)
          <5>1. CASE Decide(c)
            BY <4>0, <5>1 DEF Decide
          <5>2. CASE ListJobs(c)
            BY <4>0, <5>2 DEF ListJobs, Drained
          <5>3. CASE ListPods(c)
            <6>1. \E x \in BOOLEAN : Go(c, "listPods", Branch[decide(seen[c], c, Clock(c), x)])
              BY <5>3 DEF ListPods, Drained
            <6> QED BY <4>0, <6>1
          <5> QED BY <3>2, <5>1, <5>2, <5>3
        <4>2. lease' = lease /\ started' = started /\ on' = on
          BY <3>2 DEF Decide, ListJobs, ListPods, Drained, workVars
        <4>3. pc'[c] = to
          BY <4>1 DEF Go, TypeOK
        <4> QED BY <2>4, <4>1, <4>2, <4>3 DEF Engaged
      <3>3. CASE EnsureOff(c)
        <4>1. lease' = lease /\ started' = started
          BY <3>3 DEF EnsureOff, Switch
        <4>2. \A w \in Workload : on'[c][w] => on[c][w]
          BY <3>3 DEF EnsureOff, Switch, TypeOK, Workload
        <4>3. /\ pc'[c] \notin {"onCron", "onKeda"}
              /\ pc'[c] = "sleep" => pc[c] = "offKeda" /\ ~on'[c]["scaledobject"]
          BY <3>3 DEF EnsureOff, Switch, Go, TypeOK, Workload
        <4>4. Engaged(c) /\ pc'[c] # "sleep"
          BY <4>2, <4>3 DEF Engaged, OffInTurn, Workload
        <4> QED BY <2>4, <4>1, <4>3, <4>4
      <3>4. CASE EnsureOn(c)
        <4>1. lease' = lease /\ started' = started /\ pc[c] \in {"onCron", "onKeda"}
          BY <3>4 DEF EnsureOn, Switch, Go
        <4> QED BY <2>4, <4>1 DEF Engaged
      <3>5. CASE Renew(c)
        <4>1. started' = started /\ on' = on
          BY <3>5 DEF Renew, workVars
        <4>2. CASE lease.holder = c
          <5>1. lease'.holder = c /\ lease'.renewed = now + Skew[c]
            BY <3>5, <4>2 DEF Renew, Clock, TypeOK, Item
          <5>2. started[c] <= now + Skew[c] /\ started[c] <= now + Skew[c] + Period
            BY <2>1
          <5> QED BY <4>1, <5>1, <5>2
        <4>3. CASE lease.holder # c
          <5>1. pc'[c] = "offCron"
            BY <3>5, <4>3 DEF Renew, Go, TypeOK
          <5> QED BY <2>0, <4>1, <4>3, <5>1 DEF Engaged, FreshWhileOn
        <4> QED BY <4>2, <4>3
      <3>6. CASE Release(c)
        BY <3>6 DEF Release, Go, TypeOK, DrainingIsOff, Engaged, Workload, workVars
      <3>7. CASE Acquire(c)
        BY <3>7 DEF Acquire, Go, TypeOK, OffInTurn, Engaged, Workload, workVars
      <3> QED BY <2>5, <3>1, <3>2, <3>3, <3>4, <3>5, <3>6, <3>7 DEF Tick
    <2>6. ASSUME NEW d \in Cluster, Restart(d) PROVE FALSE
      BY <2>0, <2>6 DEF Restart, Go, Punctual
    <2>7. CASE \E d \in Cluster, w \in Workload : Start(d, w) \/ Appear(d, w) \/ Finish(d, w)
      BY <2>2, <2>7 DEF Start, Appear, Finish, SetLoad
    <2>8. CASE Operator \/ Elapse \/ UNCHANGED vars
      BY <2>2, <2>8 DEF Operator, Initialise, HandoffRequest, HandoffEnd, Elapse, vars, workVars
    <2> QED BY <2>0, <2>3, <2>5, <2>6, <2>7, <2>8 DEF Next
  <1> QED BY <1>1, <1>2, TypeCorrect, ClaimsAreJustified, DrainsStayOff, SwitchesGoOffInTurn,
             TicksArePunctual, PTL DEF Spec

\* Until something fails, singletons are switched on only where the lease is.
THEOREM HoldersAreOn ==
    ASSUME TimesFit
    PROVE  Spec => [](Undisturbed => OnlyHolderIsOn)
  <1>1. (Undisturbed => FreshWhileOn) => (Undisturbed => OnlyHolderIsOn)
    BY DEF FreshWhileOn, OnlyHolderIsOn, Engaged
  <1> QED BY <1>1, EngagedIsHolder, PTL
----------------------------------------------------------------------------
\* Work that can be listed exists only where the lease is, and fresh: what was switched
\* off ends before the lease gets older.
WorkIsHeld ==
    \A c \in Cluster, w \in Workload \ Lag :
        load[c][w] # "none" => lease.holder = c /\ now <= lease.renewed + 2 * Period

\* Work ends before the lease leaves.
THEOREM WorkStaysHeld ==
    ASSUME TimesFit, QuickDrain
    PROVE  Spec => [](Undisturbed => WorkIsHeld)
  <1>1. Init => WorkIsHeld
    BY DEF Init, WorkIsHeld
  <1>2. /\ TypeOK /\ TypeOK' /\ ClaimJustified /\ ListingIsTrue
        /\ Undisturbed => Punctual /\ FreeAtFirst
        /\ Undisturbed => FreshWhileOn
        /\ Undisturbed => WorkIsHeld
        /\ [Next]_vars
        => (Undisturbed => WorkIsHeld)'
    <2> SUFFICES ASSUME TypeOK, TypeOK', ClaimJustified, ListingIsTrue,
                        Undisturbed => Punctual /\ FreeAtFirst, Undisturbed => FreshWhileOn,
                        Undisturbed => WorkIsHeld, [Next]_vars, Undisturbed',
                        NEW c \in Cluster, NEW w \in Workload \ Lag, load'[c][w] # "none"
                 PROVE  lease'.holder = c /\ now' <= lease'.renewed + 2 * Period
      BY DEF WorkIsHeld
    <2>0. Punctual /\ FreeAtFirst /\ FreshWhileOn /\ WorkIsHeld
      BY UndisturbedSteps
    <2>1. /\ now \in Nat /\ started[c] \in Nat /\ lease.renewed \in Nat /\ lease'.renewed \in Nat
          /\ Period \in Nat
      BY TimesAreNatural DEF TypeOK, Item
    <2>2. CASE load[c][w] = "none"
      <3>1. PICK d \in Cluster, v \in Workload : Start(d, v) \/ Appear(d, v) \/ Finish(d, v)
        BY <2>2 DEF Next, vars, Tick, Read, Decide, EnsureOff, EnsureOn, Switch, ListJobs, ListPods,
             Drained, Renew, Release, Acquire, Fail, Crash, Restart, Operator, Initialise,
             HandoffRequest, HandoffEnd, Elapse, workVars
      <3>2. on[c][w] /\ lease' = lease /\ now' = now
        <4>1. PICK x : load' = [load EXCEPT ![d][v] = x]
          BY <3>1 DEF Start, Appear, Finish, SetLoad
        <4>2. c = d /\ w = v
          BY <2>2, <4>1 DEF TypeOK
        <4> QED BY <2>2, <3>1, <4>2 DEF Start, Appear, Finish, SetLoad
      <3> QED BY <2>0, <3>2, EngagedIsFresh DEF Engaged
    <2>3. CASE load[c][w] # "none"
      <3>1. lease.holder = c /\ now <= lease.renewed + 2 * Period
        BY <2>0, <2>3 DEF WorkIsHeld
      <3>2. ~Release(c)
        BY <2>3 DEF Release, Go, ListingIsTrue
      <3>3. lease'.holder = c /\ (lease'.renewed = lease.renewed \/ now <= lease'.renewed)
        BY <2>0, <3>1, <3>2, FreshIsKept
      <3>4. CASE now' = now
        BY <2>1, <3>1, <3>3, <3>4
      <3>5. CASE Elapse
        <4>1. on[c][w] /\ lease' = lease /\ now' = now + 1
          BY <2>3, <3>5 DEF Elapse
        <4>2. now < started[c] + Period
          BY <2>0, <3>5 DEF Elapse, Punctual
        <4>3. started[c] <= lease.renewed + Period
          BY <2>0, <4>1 DEF FreshWhileOn, Engaged
        <4> QED BY <2>1, <3>1, <4>1, <4>2, <4>3
      <3>6. now' = now \/ Elapse
        BY DEF Next, vars, Tick, Read, Decide, EnsureOff, EnsureOn, Switch, ListJobs, ListPods,
               Drained, Renew, Release, Acquire, Fail, Crash, Restart, Start, Appear, Finish, SetLoad,
               Operator, Initialise, HandoffRequest, HandoffEnd
      <3> QED BY <3>4, <3>5, <3>6
    <2> QED BY <2>2, <2>3
  <1> QED BY <1>1, <1>2, TypeCorrect, ClaimsAreJustified, ListingsStayTrue, TicksArePunctual,
             EngagedIsHolder, PTL DEF Spec

\* Until something fails, and if what is switched off ends at once and is listed as soon
\* as it exists, singleton work is done in one cluster at a time.
THEOREM WorkStaysExclusive ==
    ASSUME TimesFit, QuickDrain, Lag = {}
    PROVE  Spec => [](Undisturbed => WorkIsExclusive)
  <1>1. (Undisturbed => WorkIsHeld) => (Undisturbed => WorkIsExclusive)
    BY DEF WorkIsHeld, WorkIsExclusive
  <1> QED BY <1>1, WorkStaysHeld, PTL
----------------------------------------------------------------------------
\* The bounds on failures and on `cm lease init` hold.
LEMMA NothingDisturbs ==
    ASSUME MaxFails = 0, MaxInits <= 1
    PROVE  Spec => []Undisturbed
  <1>1. Init => Undisturbed
    BY DEF Init, Undisturbed
  <1>2. TypeOK /\ Undisturbed /\ [Next]_vars => Undisturbed'
    <2> SUFFICES ASSUME TypeOK, Undisturbed, [Next]_vars PROVE Undisturbed'
      OBVIOUS
    <2>1. inits' = inits \/ \E c \in Cluster : Initialise(c)
      BY DEF Next, vars, Tick, Read, Decide, EnsureOff, EnsureOn, Switch, ListJobs, ListPods, Drained,
           Renew, Release, Acquire, Fail, Crash, Restart, Start, Appear, Finish, SetLoad, Operator,
           HandoffRequest, HandoffEnd, Elapse, operVars
    <2>2. fails' = fails \/ \E c \in Cluster : Fail(c) \/ Crash(c)
      BY DEF Next, vars, Tick, Read, Decide, EnsureOff, EnsureOn, Switch, ListJobs,
           ListPods, Drained, Renew, Release, Acquire, Restart, Start, Appear, Finish, SetLoad,
           Operator, Initialise, HandoffRequest, HandoffEnd, Elapse
    <2> QED BY <2>1, <2>2, BoundsAreNatural DEF Initialise, Fail, Crash, Undisturbed, TypeOK
  <1> QED BY <1>1, <1>2, TypeCorrect, PTL DEF Spec

\* A step of the lease switches clusters as the abstract hand-over does.
LEMMA HandoverSteps ==
    ASSUME TypeOK, FreshWhileOn, [Next]_vars
    PROVE  [Abstract!Next]_Active
  <1>1. \A c \in Active : lease.holder = c
    BY DEF Active, FreshWhileOn, Engaged
  <1>2. CASE on' = on
    BY <1>2 DEF Active
  <1>3. ASSUME NEW c \in Cluster, EnsureOn(c) PROVE [Abstract!Next]_Active
    <2>1. lease.holder = c
      BY <1>3 DEF EnsureOn, Go, FreshWhileOn, Engaged
    <2>2. \E w \in Workload : on' = [on EXCEPT ![c][w] = TRUE]
      BY <1>3 DEF EnsureOn, Switch, Workload
    <2>3. Active' = Active \cup {c}
      BY <2>2 DEF Active, TypeOK
    <2>4. Active = {} \/ Active = {c}
      BY <1>1, <2>1
    <2> QED BY <2>3, <2>4 DEF Abstract!Next, Abstract!SwitchOn
  <1>4. ASSUME NEW c \in Cluster, EnsureOff(c) PROVE [Abstract!Next]_Active
    <2>1. PICK w \in Workload : on' = [on EXCEPT ![c][w] = FALSE]
      BY <1>4 DEF EnsureOff, Switch, Workload
    <2>2. Active' \subseteq Active
      BY <2>1 DEF Active, TypeOK
    <2>3. Active' = Active \/ (Active # {} /\ Active' = {})
      BY <1>1, <2>2
    <2> QED BY <2>3 DEF Abstract!Next, Abstract!SwitchOff
  <1> QED BY <1>2, <1>3, <1>4 DEF Next, vars, Tick, Read, Decide, ListJobs, ListPods, Drained,
             Renew, Release, Acquire, Fail, Crash, Restart, Start, Appear, Finish, SetLoad,
             Operator, Initialise, HandoffRequest, HandoffEnd, Elapse, workVars

\* Without failures the lease implements the abstract hand-over: the singletons are on in
\* one cluster, and off in all before they are on in another.
THEOREM SingletonsAreHandedOver ==
    ASSUME TimesFit, MaxFails = 0, MaxInits <= 1
    PROVE  Spec => Singletons
  <1>1. Init => Abstract!Init
    BY DEF Init, Abstract!Init, Active
  <1> QED BY <1>1, HandoverSteps, TypeCorrect, NothingDisturbs, EngagedIsHolder, PTL
          DEF Spec, Singletons, Abstract!Spec
=============================================================================
