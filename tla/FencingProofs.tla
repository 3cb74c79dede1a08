--------------------------- MODULE FencingProofs ---------------------------
(* Theorems about the guard, for all processes, clusters and time bounds. *)
EXTENDS Fencing, TLAPS

\* Every variable keeps its type.
THEOREM TypeCorrect == Spec => []TypeOK
  <1>1. Init => TypeOK
    BY TimesAreNatural DEF Init, TypeOK, Never
  <1>2. TypeOK /\ [Next]_vars => TypeOK'
    <2> SUFFICES ASSUME TypeOK, [Next]_vars PROVE TypeOK'
      OBVIOUS
    <2> USE DEF TypeOK
    <2>1. ASSUME NEW p \in Process, NEW to \in {"check", "asked", "fetch", "batch"}, Goto(p, to)
          PROVE  pc' \in [Process -> {"check", "asked", "fetch", "batch"}]
                 /\ since' \in [Process -> Nat]
      BY <2>1 DEF Goto
    <2>2. ASSUME NEW p \in Process, FromCache(p) PROVE TypeOK'
      BY <2>2, <2>1 DEF FromCache, guardVars
    <2>3. ASSUME NEW p \in Process, Ask(p) PROVE TypeOK'
      BY <2>3, <2>1 DEF Ask, failed
    <2>4. ASSUME NEW p \in Process, Answered(p) PROVE TypeOK'
      BY <2>4, <2>1 DEF Answered
    <2>5. ASSUME NEW p \in Process, Fetched(p) PROVE TypeOK'
      <3>1. PICK n \in 0..BatchSize : /\ left' = [left EXCEPT ![p] = n]
                                      /\ Goto(p, IF n = 0 THEN "check" ELSE "batch")
        <4>1. (IF p \in Worker THEN 0..BatchSize ELSE {1}) \subseteq 0..BatchSize
          BY TimesAreNatural
        <4> QED BY <2>5, <4>1 DEF Fetched
      <3> QED BY <2>5, <3>1, <2>1 DEF Fetched, guardVars
    <2>6. ASSUME NEW p \in Process, StartUnit(p) PROVE TypeOK'
      <3>1. left[p] - 1 \in 0..BatchSize
        BY <2>6, TimesAreNatural DEF StartUnit
      <3> QED BY <2>6, <2>1, <3>1 DEF StartUnit, guardVars
    <2>7. ASSUME NEW p \in Process, EndBatch(p) PROVE TypeOK'
      BY <2>7, <2>1 DEF EndBatch, guardVars
    <2>8. ASSUME NEW p \in Process, Restart(p) PROVE TypeOK'
      BY <2>8, <2>1, TimesAreNatural DEF Restart
    <2>9. ASSUME NEW h \in Cluster \cup {NoOne}, Move(h) PROVE TypeOK'
      BY <2>9 DEF Move, guardVars
    <2>10. CASE Elapse
      BY <2>10 DEF Elapse, guardVars
    <2>11. CASE UNCHANGED vars
      BY <2>11 DEF vars
    <2> QED BY <2>2, <2>3, <2>4, <2>5, <2>6, <2>7, <2>8, <2>9, <2>10, <2>11 DEF Next
  <1> QED BY <1>1, <1>2, PTL DEF Spec
----------------------------------------------------------------------------
\* The holder holds the lease now, nothing is dated in the future, no stage but the check outlasts its bound, and no
\* units are left outside a batch.
InTime(p) ==
    /\ since[p] <= now /\ (pc[p] # "check" => now <= since[p] + Limit(p))
    /\ pc[p] # "batch" => left[p] = 0
StagesAreBounded ==
    /\ \A c \in Cluster : held[c] <= now /\ (holder = c => held[c] = now)
    /\ \A p \in Process : InTime(p)

\* No stage of a process is older than its bound.
LEMMA BoundedStages == Spec => []StagesAreBounded
  <1>1. Init => StagesAreBounded
    BY ClustersAreNamed DEF Init, StagesAreBounded, InTime, Never
  <1>2. TypeOK /\ StagesAreBounded /\ [Next]_vars => StagesAreBounded'
    <2> SUFFICES ASSUME TypeOK, StagesAreBounded, [Next]_vars PROVE StagesAreBounded'
      OBVIOUS
    <2> USE TimesAreNatural DEF TypeOK
    <2>1. ASSUME NEW p \in Process, NEW to, Goto(p, to), UNCHANGED <<now, holder, held>>,
                 \A q \in Process \ {p} : left'[q] = left[q],
                 to # "batch" => left'[p] = 0
          PROVE  StagesAreBounded'
      <3>1. since'[p] = now /\ \A q \in Process \ {p} : since'[q] = since[q] /\ pc'[q] = pc[q]
        BY <2>1 DEF Goto
      <3>2. Limit(p)' \in Nat
        BY DEF Limit
      <3>3. InTime(p)'
        BY <2>1, <3>1, <3>2 DEF InTime, Goto
      <3>4. ASSUME NEW q \in Process \ {p} PROVE InTime(q)'
        BY <2>1, <3>1 DEF StagesAreBounded, InTime, Limit
      <3> QED BY <2>1, <3>3, <3>4 DEF StagesAreBounded
    <2>2. ASSUME NEW p \in Process,
                 \/ FromCache(p) \/ Ask(p) \/ Answered(p) \/ Fetched(p)
                 \/ StartUnit(p) \/ EndBatch(p) \/ Restart(p)
          PROVE  StagesAreBounded'
      <3>1. InTime(p)
        BY <2>2 DEF StagesAreBounded
      <3>2. CASE FromCache(p) \/ Ask(p) \/ Answered(p) \/ EndBatch(p)
        BY <2>1, <3>1, <3>2 DEF FromCache, Ask, Answered, EndBatch, guardVars, InTime
      <3>3. CASE Fetched(p)
        BY <2>1, <3>3 DEF Fetched, guardVars
      <3>4. CASE StartUnit(p)
        BY <2>1, <3>4 DEF StartUnit, guardVars
      <3>5. CASE Restart(p)
        BY <2>1, <3>5 DEF Restart
      <3> QED BY <2>2, <3>2, <3>3, <3>4, <3>5
    <2>3. ASSUME NEW h \in Cluster \cup {NoOne}, Move(h) PROVE StagesAreBounded'
      BY <2>3 DEF Move, StagesAreBounded, InTime, Limit, guardVars
    <2>4. CASE Elapse
      <3>1. ASSUME NEW p \in Process PROVE InTime(p)'
        <4>1. /\ pc'[p] = pc[p] /\ since'[p] = since[p] /\ left'[p] = left[p]
              /\ now' = now + 1 /\ Limit(p)' = Limit(p)
          BY <2>4 DEF Elapse, Limit
        <4>2. pc[p] = "check" \/ now < since[p] + Limit(p)
          BY <2>4 DEF Elapse
        <4>3. Limit(p) \in Nat
          BY DEF Limit
        <4> QED BY <4>1, <4>2, <4>3 DEF StagesAreBounded, InTime
      <3>2. \A c \in Cluster : held'[c] <= now' /\ (holder' = c => held'[c] = now')
        BY <2>4 DEF Elapse, StagesAreBounded, Never
      <3> QED BY <3>1, <3>2 DEF StagesAreBounded
    <2>5. CASE UNCHANGED vars
      BY <2>5 DEF vars, StagesAreBounded, InTime, Limit
    <2> QED BY <2>2, <2>3, <2>4, <2>5 DEF Next
  <1> QED BY <1>1, <1>2, TypeCorrect, PTL DEF Spec
----------------------------------------------------------------------------
\* What AnswersAreRecent says of one process.
Recent(p) ==
    LET c == ClusterOf[p] IN
    /\ pc[p] = "asked" /\ answer[p] => HeldWithin(c, now - since[p])
    /\ value[p] => held[c] # Never /\ checked[p] <= held[c] + CallTime
    /\ pc[p] = "fetch" => HeldWithin(c, CallTime + Cache + (now - since[p]))
    /\ pc[p] = "batch" /\ left[p] > 0 =>
         HeldWithin(c, CallTime + Cache + FetchTime + (BatchSize - left[p]) * UnitTime
                         + (now - since[p]))

\* The steps of a process: the lease and the time stay, and so does the rest of them.
ProcessStep(p) ==
    \/ FromCache(p) \/ Ask(p) \/ Answered(p) \/ Fetched(p)
    \/ StartUnit(p) \/ EndBatch(p) \/ Restart(p)

\* A step of one process leaves the others as they are.
LEMMA OthersStay ==
    ASSUME TypeOK, NEW p \in Process, ProcessStep(p)
    PROVE  /\ UNCHANGED <<now, held>> /\ since'[p] = now
           /\ \A q \in Process \ {p} :
                /\ pc'[q] = pc[q] /\ since'[q] = since[q] /\ answer'[q] = answer[q]
                /\ value'[q] = value[q] /\ checked'[q] = checked[q] /\ left'[q] = left[q]
  <1> USE DEF TypeOK, Goto, guardVars
  <1>1. CASE FromCache(p) BY <1>1 DEF FromCache
  <1>2. CASE Ask(p)       BY <1>2 DEF Ask
  <1>3. CASE Answered(p)  BY <1>3 DEF Answered
  <1>4. CASE Fetched(p)   BY <1>4 DEF Fetched
  <1>5. CASE StartUnit(p) BY <1>5 DEF StartUnit
  <1>6. CASE EndBatch(p)  BY <1>6 DEF EndBatch
  <1>7. CASE Restart(p)   BY <1>7 DEF Restart
  <1> QED BY <1>1, <1>2, <1>3, <1>4, <1>5, <1>6, <1>7 DEF ProcessStep

\* However often the lease moves, a positive answer is at most as old as the stages
\* its process has gone through since the lease was read.
THEOREM AnswersStayRecent == Spec => []AnswersAreRecent
  <1>1. Init => AnswersAreRecent
    BY DEF Init, AnswersAreRecent
  <1>2. TypeOK /\ TypeOK' /\ StagesAreBounded /\ AnswersAreRecent /\ [Next]_vars => AnswersAreRecent'
    <2> SUFFICES ASSUME TypeOK, TypeOK', StagesAreBounded, AnswersAreRecent, [Next]_vars,
                        NEW p \in Process
                 PROVE  Recent(p)'
      BY DEF AnswersAreRecent, Recent
    <2>0. Recent(p) /\ InTime(p) /\ ClusterOf[p] \in Cluster /\ held[ClusterOf[p]] <= now
      BY ClustersAreNamed DEF AnswersAreRecent, Recent, StagesAreBounded
    <2> USE TimesAreNatural DEF TypeOK
    <2>1. ASSUME ProcessStep(p) PROVE Recent(p)'
      <3>0. UNCHANGED <<now, held>> /\ since'[p] = now
        BY <2>1, OthersStay
      <3>1. CASE FromCache(p)
        <4>1. pc'[p] = "fetch" /\ value'[p] = value[p] /\ checked'[p] = checked[p]
          BY <3>1 DEF FromCache, Goto, guardVars
        <4>2. value[p] /\ checked[p] # Never /\ now - checked[p] < Cache
          BY <3>1 DEF FromCache, cached
        <4> QED BY <2>0, <3>0, <4>1, <4>2 DEF Recent, HeldWithin, Never
      <3>2. CASE Ask(p)
        <4>1. pc'[p] = "asked" /\ value'[p] = value[p] /\ checked'[p] = checked[p]
          BY <3>2 DEF Ask, Goto
        <4>2. answer'[p] => holder = ClusterOf[p]
          BY <3>2 DEF Ask, failed
        <4>3. holder = ClusterOf[p] => HeldWithin(ClusterOf[p], 0)
          BY <2>0 DEF StagesAreBounded, HeldWithin, Never
        <4> QED BY <2>0, <3>0, <4>1, <4>2, <4>3 DEF Recent, HeldWithin
      <3>3. CASE Answered(p)
        <4>1. /\ value'[p] = answer[p] /\ checked'[p] = now
              /\ pc'[p] = IF answer[p] THEN "fetch" ELSE "check"
          BY <3>3 DEF Answered, Goto
        <4>2. now <= since[p] + CallTime /\ pc[p] = "asked"
          BY <2>0, <3>3 DEF Answered, InTime, Limit
        <4>3. CASE answer[p]
          <5>1. HeldWithin(ClusterOf[p], CallTime)
            BY <2>0, <4>2, <4>3 DEF Recent, HeldWithin
          <5> QED BY <2>0, <3>0, <4>1, <4>3, <5>1 DEF Recent, HeldWithin
        <4>4. CASE ~answer[p]
          BY <4>1, <4>4 DEF Recent
        <4> QED BY <4>3, <4>4
      <3>4. CASE Fetched(p)
        <4>1. /\ value'[p] = value[p] /\ checked'[p] = checked[p]
              /\ pc'[p] = IF left'[p] = 0 THEN "check" ELSE "batch"
              /\ left'[p] \in 0..BatchSize
          BY <3>4 DEF Fetched, Goto, guardVars
        <4>2. now <= since[p] + FetchTime /\ pc[p] = "fetch"
          BY <2>0, <3>4 DEF Fetched, InTime, Limit
        <4>3. HeldWithin(ClusterOf[p], CallTime + Cache + FetchTime)
          BY <2>0, <4>2 DEF Recent, HeldWithin
        <4>4. (BatchSize - left'[p]) * UnitTime \in Nat
          BY <4>1
        <4> QED BY <2>0, <3>0, <4>1, <4>3, <4>4 DEF Recent, HeldWithin
      <3>5. CASE StartUnit(p)
        <4>1. /\ value'[p] = value[p] /\ checked'[p] = checked[p]
              /\ pc'[p] = "batch" /\ left'[p] = left[p] - 1 /\ pc[p] = "batch" /\ left[p] > 0
          BY <3>5 DEF StartUnit, Goto, guardVars
        <4>2. now <= since[p] + UnitTime
          BY <2>0, <4>1 DEF InTime, Limit
        <4>3. (BatchSize - left'[p]) * UnitTime = (BatchSize - left[p]) * UnitTime + UnitTime
          BY <4>1
        <4>4. (BatchSize - left[p]) * UnitTime \in Int
          OBVIOUS
        <4> QED BY <2>0, <3>0, <4>1, <4>2, <4>3, <4>4 DEF Recent, HeldWithin
      <3>6. CASE EndBatch(p)
        <4>1. value'[p] = value[p] /\ checked'[p] = checked[p] /\ pc'[p] = "check"
          BY <3>6 DEF EndBatch, Goto, guardVars
        <4> QED BY <2>0, <3>0, <4>1 DEF Recent
      <3>7. CASE Restart(p)
        <4>1. value'[p] = FALSE /\ pc'[p] = "check"
          BY <3>7 DEF Restart, Goto
        <4> QED BY <4>1 DEF Recent
      <3> QED BY <2>1, <3>1, <3>2, <3>3, <3>4, <3>5, <3>6, <3>7 DEF ProcessStep
    <2>2. ASSUME NEW q \in Process \ {p}, ProcessStep(q) PROVE Recent(p)'
      BY <2>0, <2>2, OthersStay DEF Recent, HeldWithin
    <2>3. ASSUME NEW h \in Cluster \cup {NoOne}, Move(h) PROVE Recent(p)'
      BY <2>0, <2>3 DEF Move, guardVars, Recent, HeldWithin, Never
    <2>4. CASE Elapse
      BY <2>0, <2>4 DEF Elapse, guardVars, Recent, HeldWithin, Never
    <2>5. CASE UNCHANGED vars
      BY <2>0, <2>5 DEF vars, Recent, HeldWithin
    <2> QED BY <2>1, <2>2, <2>3, <2>4, <2>5 DEF Next, ProcessStep
  <1> QED BY <1>1, <1>2, TypeCorrect, BoundedStages, PTL DEF Spec

\* No unit of work starts in a cluster that lost the lease longer than Bound ago.
THEOREM WorkStartsInTime == Spec => StartsAreRecent
  <1>1. TypeOK /\ TypeOK' /\ StagesAreBounded /\ AnswersAreRecent /\ [Next]_vars =>
          [\A p \in Process : left'[p] < left[p] /\ pc'[p] = "batch"
             => HeldWithin(ClusterOf[p], Bound)]_vars
    <2> SUFFICES ASSUME TypeOK, TypeOK', StagesAreBounded, AnswersAreRecent, Next,
                        NEW p \in Process, left'[p] < left[p], pc'[p] = "batch"
                 PROVE  HeldWithin(ClusterOf[p], Bound)
      BY DEF vars
    <2> USE TimesAreNatural DEF TypeOK
    <2>1. ProcessStep(p)
      <3>1. ASSUME NEW q \in Process \ {p}, ProcessStep(q) PROVE FALSE
        BY <3>1, OthersStay
      <3>2. ~Elapse /\ ~\E h \in Cluster \cup {NoOne} : Move(h)
        BY DEF Elapse, Move
      <3> QED BY <3>1, <3>2 DEF Next, ProcessStep
    <2>2. pc[p] = "batch" /\ left[p] > 0
      <3>1. ~FromCache(p) /\ ~Ask(p) /\ ~Answered(p) /\ ~EndBatch(p) /\ ~Restart(p)
        BY DEF FromCache, Ask, Answered, EndBatch, Restart, Goto
      <3>2. CASE Fetched(p)
        <4>1. left[p] = 0 /\ left'[p] \in 0..BatchSize
          BY <3>2 DEF Fetched, StagesAreBounded, InTime
        <4> QED BY <4>1
      <3>3. CASE StartUnit(p)
        BY <3>3 DEF StartUnit
      <3> QED BY <2>1, <3>1, <3>2, <3>3 DEF ProcessStep
    <2>3. now <= since[p] + UnitTime
      BY <2>2 DEF StagesAreBounded, InTime, Limit
    <2>4. HeldWithin(ClusterOf[p], CallTime + Cache + FetchTime + (BatchSize - left[p]) * UnitTime
                                     + (now - since[p]))
      BY <2>2 DEF AnswersAreRecent
    <2>5. (BatchSize - left[p]) * UnitTime + UnitTime <= BatchSize * UnitTime
      <3>1. left[p] \in 1..BatchSize
        BY <2>2
      <3> QED BY <3>1
    <2>6. /\ (BatchSize - left[p]) * UnitTime \in Int /\ BatchSize * UnitTime \in Int
          /\ held[ClusterOf[p]] \in Nat \cup {Never}
      BY ClustersAreNamed
    <2> QED BY <2>3, <2>4, <2>5, <2>6 DEF HeldWithin, Bound, Never
  <1> QED BY <1>1, TypeCorrect, BoundedStages, AnswersStayRecent, PTL DEF Spec, StartsAreRecent
=============================================================================
