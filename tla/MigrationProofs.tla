-------------------------- MODULE MigrationProofs --------------------------
(***************************************************************************)
(* Theorems about a whole migration, for every list of services and steps, *)
(* any number of migrations and faults, and whatever CloudWatch reports    *)
(* within its limits.                                                      *)
(***************************************************************************)
EXTENDS Migration, TLAPS

----------------------------------------------------------------------------
(* Facts about the operators. *)

\* A poll is never past the hold.
LEMMA PollType ==
    ASSUME waited \in 0..Hold, waited < Hold
    PROVE  poll \in 0..Hold
  <1>1. Interval \in Nat \ {0} /\ Hold \in Nat
    BY TimesAreNatural
  <1> DEFINE S == {Interval, Hold - waited}
  <1>2. \E m \in S : \A y \in S : m =< y
    BY <1>1
  <1>3. Min(S) \in S
    BY <1>2 DEF Min
  <1>4. CASE Min(S) = Interval /\ Interval =< Hold - waited
    BY <1>1, <1>4 DEF poll
  <1>5. CASE Min(S) = Hold - waited
    BY <1>1, <1>5 DEF poll
  <1>6. Min(S) =< Hold - waited
    BY <1>2 DEF Min
  <1> QED BY <1>3, <1>4, <1>5, <1>6

\* The lists have elements of their types.
LEMMA OrderType ==
    /\ Len(Order) \in Nat \ {0}
    /\ \A i \in 1..Len(Order) : Order[i] \in Service
    /\ Len(Steps) \in Nat \ {0}
    /\ \A i \in 1..Len(Steps) : Steps[i] \in 0..100
  <1>1. Len(Order) \in Nat \ {0} /\ \A i \in 1..Len(Order) : Order[i] \in Service
    BY OrderIsAList
  <1> DEFINE P == 0..100
  <1>2. Steps \in Seq(P) /\ Len(Steps) > 0
    BY StepsArePercentages
  <1> HIDE DEF P
  <1>3. Len(Steps) \in Nat \ {0} /\ \A i \in 1..Len(Steps) : Steps[i] \in P
    BY <1>2
  <1> QED BY <1>1, <1>3 DEF P

\* The two clusters are each other's other.
LEMMA OtherFacts ==
    \A c \in Color : /\ Other[c] \in Color /\ Other[c] # c /\ Other[Other[c]] = c
                     /\ \A d \in Color : d = c \/ d = Other[c]
  BY ColorsArePaired

\* A split gives percentages.
LEMMA SplitType ==
    \A c \in Color \cup {NoColor}, p \in 0..100 :
        /\ Split(c, p) \in [Color -> 0..100]
        /\ \A d \in Color : Split(c, p)[d] = IF d = c THEN p ELSE 100 - p
  <1> TAKE c \in Color \cup {NoColor}, p \in 0..100
  <1>1. 100 - p \in 0..100
    OBVIOUS
  <1> QED BY <1>1 DEF Split

\* All of the weight on a cluster is a split.
LEMMA WholeType ==
    \A c \in Color : Split(c, 100) \in [Color -> 0..100] /\ Split(c, 100)[c] = 100
  BY DEF Split

\* The weights are those of a split.
Paired == \A s \in Service : \E c \in Color, p \in 0..100 : weight[s] = Split(c, p)

\* All the weight on one cluster leaves none for the other.
LEMMA SplitIsWhole ==
    \A w : \A c, f \in Color, p \in 0..100 : w = Split(c, p) /\ w[f] = 100 => w = Split(f, 100)
  <1> SUFFICES ASSUME NEW w, NEW c \in Color, NEW f \in Color, NEW p \in 0..100,
                      w = Split(c, p), w[f] = 100
               PROVE  w = Split(f, 100)
    OBVIOUS
  <1>1. CASE c = f
    BY <1>1 DEF Split
  <1>2. CASE c # f
    <2>1. 100 - p = 100 /\ p = 0
      BY <1>2 DEF Split
    <2>2. \A d \in Color : (IF d = c THEN 0 ELSE 100 - 0) = (IF d = f THEN 100 ELSE 100 - 100)
      BY <1>2, OtherFacts
    <2> QED BY <2>1, <2>2 DEF Split
  <1> QED BY <1>1, <1>2
----------------------------------------------------------------------------
\* Every variable keeps its type.
THEOREM TypeCorrect == Spec => []TypeOK
  <1>1. Init => TypeOK
    <2> SUFFICES ASSUME Init PROVE TypeOK
      OBVIOUS
    <2>1. weight \in [Service -> [Color -> 0..100]]
      BY WholeType, MigrationBounds DEF Init, InitTraffic
    <2>2. 0 \in 0..Hold
      BY TimesAreNatural
    <2> QED BY <2>1, <2>2, OrderType, MigrationBounds DEF Init, InitTraffic, TypeOK, TrafficTypeOK
  <1>2. TypeOK /\ [Next]_vars => TypeOK'
    <2> SUFFICES ASSUME TypeOK, [Next]_vars PROVE TypeOK'
      OBVIOUS
    <2> USE DEF TypeOK, TrafficTypeOK
    <2>0. Other[from] \in Color
      BY OtherFacts
    <2>1. CASE Preflight \/ Gate \/ Approve \/ SeeHandoff \/ PostCheck \/ Report
      <3>1. UNCHANGED <<trafficVars, from, dataVars, migrations>>
        BY <2>1 DEF Preflight, Gate, Approve, SeeHandoff, PostCheck, Report, boundVars
      <3>2. faults' \in 0..MaxFaults
        BY <2>1, MigrationBounds
           DEF Preflight, Gate, Approve, SeeHandoff, PostCheck, Report, Fault, boundVars
      <3>3. status' \in {status, "Failed", "Stopped", "Succeeded"}
        BY <2>1 DEF Preflight, Gate, Approve, SeeHandoff, PostCheck, Report, Fail
      <3>4. stage' \in {"none", "plan", "smoke", "shadow", "shift", "db", "post", "report"}
        BY <2>1 DEF Preflight, Gate, Approve, SeeHandoff, PostCheck, Report, Fail, Enter
      <3> QED BY <3>1, <3>2, <3>3, <3>4 DEF trafficVars, dataVars
    <2>2. CASE BeginShift
      BY <2>2, <2>0, OrderType, TimesAreNatural
         DEF BeginShift, Begin, Enter, to, dataVars, boundVars
    <2>3. CASE Shift
      <3>0. target' = target /\ UNCHANGED <<sick, quiet, stage, from, status, primary, holder, desired,
                                            migrations, faults>>
        BY <2>3 DEF Shift, ShiftStep, SetStep, Look, RollBack, NextStep, NextService, Completed,
                    dataVars, boundVars
      <3>1. CASE SetStep
        <4>1. Split(target, Steps[step]) \in [Color -> 0..100]
          BY SplitType, OrderType
        <4>2. weight' \in [Service -> [Color -> 0..100]]
          BY <3>1, <4>1 DEF SetStep, set_weights
        <4>3. at' = "hold" /\ waited' = 0 /\ svc' = svc /\ step' = step
          BY <3>1 DEF SetStep
        <4> QED BY <3>0, <4>2, <4>3, TimesAreNatural
      <3>2. CASE Look
        <4>1. poll \in 0..Hold
          BY <3>2, PollType DEF Look
        <4> QED BY <3>0, <3>2, <4>1 DEF Look
      <3>3. CASE RollBack
        <4>1. Split(Source, 100) \in [Color -> 0..100]
          BY <3>3, OtherFacts DEF RollBack, Split
        <4> QED BY <3>0, <3>3, <4>1 DEF RollBack, restore, set_weights
      <3>4. CASE NextStep
        BY <3>0, <3>4, OrderType DEF NextStep, lastStep
      <3>5. CASE NextService
        BY <3>0, <3>5, OrderType DEF NextService, firstStep
      <3>6. CASE Completed
        BY <3>0, <3>6 DEF Completed
      <3> QED BY <2>3, <3>1, <3>2, <3>3, <3>4, <3>5, <3>6 DEF Shift, ShiftStep
    <2>4. CASE EndShift
      BY <2>4 DEF EndShift, Enter, Fail, dataVars, boundVars
    <2>5. CASE Switchover
      BY <2>5, <2>0, MigrationBounds DEF Switchover, Enter, Fault, to, trafficVars
    <2>6. CASE RequestHandoff
      BY <2>6, <2>0 DEF RequestHandoff, Enter, to, trafficVars, boundVars
    <2>7. CASE Die
      BY <2>7, MigrationBounds DEF Die, Fault, Enter, dataVars
    <2>8. CASE LeaseMoves
      BY <2>8 DEF LeaseMoves, trafficVars, boundVars
    <2>9. ASSUME NEW c \in Color, Migrate(c) PROVE TypeOK'
      BY <2>9, MigrationBounds DEF Migrate, Enter, trafficVars, dataVars
    <2>10. ASSUME NEW c \in Color, TrafficSet(c) PROVE TypeOK'
      <3>1. PICK n \in 0..Len(Order) : SetUpTo(n, c, 100)
        BY <2>10, OrderType DEF TrafficSet
      <3>2. weight' \in [Service -> [Color -> 0..100]]
        <4>1. Split(c, 100) \in [Color -> 0..100]
          BY WholeType
        <4> QED BY <3>1, <4>1 DEF SetUpTo
      <3>3. status' \in {"none", "Undone"} /\ faults' \in 0..MaxFaults
        BY <2>10, MigrationBounds DEF TrafficSet, Fault
      <3> QED BY <2>10, <3>2, <3>3 DEF TrafficSet, shiftVars, dataVars
    <2>11. ASSUME NEW c \in Color, SwitchoverByHand(c) \/ HandoffByHand(c) PROVE TypeOK'
      <3>1. faults' \in 0..MaxFaults /\ UNCHANGED <<trafficVars, stage, from, holder, migrations>>
        BY <2>11, MigrationBounds DEF SwitchoverByHand, HandoffByHand, Fault, boundVars
      <3>2. primary' \in Color \cup {NoColor} /\ desired' \in Color /\ status' = "none"
        BY <2>11 DEF SwitchoverByHand, HandoffByHand
      <3> QED BY <3>1, <3>2 DEF trafficVars
    <2>12. CASE Fix
      BY <2>12 DEF Fix, shiftVars, dataVars, boundVars
    <2>13. CASE UNCHANGED vars
      BY <2>13 DEF vars, trafficVars
    <2> QED BY <2>1, <2>2, <2>3, <2>4, <2>5, <2>6, <2>7, <2>8, <2>9, <2>10, <2>11, <2>12, <2>13
            DEF Next, Pipeline, ByHand
  <1> QED BY <1>1, <1>2, PTL DEF Spec
----------------------------------------------------------------------------
(* Where the weights are at each stage, and of which services a look at the *)
(* end of a hold has shown that they are fine.                              *)

\* Every hold ends with a look, which tells a sick target from a source that is fine.
SickIsSeen == Hold > 0 /\ \A t \in Bad, s \in Good : evaluate(t, s) = "fail"

Clean(s) == SickIsSeen /\ Judged(s, to) => <<s, to>> \notin sick

Idle == stage # "traffic" => at = "idle"

BeforeShift ==
    stage \in {"plan", "smoke", "shadow", "shift"} => \A s \in Service : weight[s] = Split(from, 100)

AfterShift ==
    stage \in {"approve", "db", "lease", "handoff", "post"} =>
        \A s \in Service : Clean(s) /\ weight[s] = Split(to, 100)

Others ==
    \A i \in 1..Len(Order) : /\ i < svc => Clean(Order[i]) /\ weight[Order[i]] = Split(to, 100)
                             /\ i > svc => weight[Order[i]] = Split(from, 100)

CurrentOne ==
    /\ at = "set" => IF step = 1 THEN weight[Current] = Split(from, 100) ELSE Clean(Current)
    /\ at \in {"hold", "rollback"} =>
         weight[Current] = Split(to, Steps[step]) /\ (step > 1 => Clean(Current))
    /\ at = "hold" /\ waited >= Hold => Clean(Current)
    /\ at = "passed" => svc = Len(Order) /\ Clean(Current) /\ weight[Current] = Split(to, 100)
    /\ at = "breach" => weight[Current] = Split(from, 100)

DuringShift ==
    stage = "traffic" => /\ target = to /\ at \in {"set", "hold", "rollback", "passed", "breach"}
                         /\ Others /\ CurrentOne

ShiftInv == Idle /\ Paired /\ BeforeShift /\ DuringShift /\ AfterShift

\* A hold's last look at a service it can judge fails when that is sick in the target.
LEMMA LastLook ==
    ASSUME TypeOK, target = to, Look, waited' >= Hold, at' = "hold"
    PROVE  Clean(Current)
  <1>1. ~(waited' < Hold) /\ Source = Other[to]
    BY TimesAreNatural, PollType DEF Look, Source, TypeOK, TrafficTypeOK
  <1>2. PICK t \in tg_stats(Current, target, waited'), s \in tg_stats(Current, Source, waited') :
             at' = IF evaluate(t, s) = "fail" THEN "rollback" ELSE "hold"
    BY DEF Look
  <1> SUFFICES ASSUME SickIsSeen, Judged(Current, to), <<Current, to>> \in sick PROVE FALSE
    BY DEF Clean
  <1>3. t \in Bad /\ s \in Good
    BY <1>1, <1>2 DEF tg_stats, Judged
  <1> QED BY <1>2, <1>3 DEF SickIsSeen

\* What a step of the shift does to the weights.
LEMMA ShiftKeeps ==
    ASSUME TypeOK, ShiftInv, stage = "traffic", ShiftStep, UNCHANGED <<stage, from>>
    PROVE  ShiftInv'
  <1> USE DEF TypeOK, TrafficTypeOK
  <1>0. /\ target = to /\ at \in {"set", "hold", "rollback", "passed", "breach"} /\ Others /\ CurrentOne
        /\ Paired
    BY DEF ShiftInv, DuringShift
  <1>1. /\ to \in Color /\ from \in Color /\ Other[to] = from /\ from # to
        /\ Current \in Service /\ svc \in 1..Len(Order) /\ Source = from
    BY <1>0, OtherFacts, OrderType DEF to, Current, Source
  <1>2. UNCHANGED <<sick, quiet, target>> /\ to' = to
    BY DEF ShiftStep, SetStep, Look, RollBack, NextStep, NextService, Completed, to
  <1>3. \A s \in Service : Clean(s)' = Clean(s)
    BY <1>2 DEF Clean, Judged
  <1> SUFFICES /\ at' \in {"set", "hold", "rollback", "passed", "breach"}
               /\ Others' /\ CurrentOne' /\ Paired'
    BY <1>0, <1>2 DEF ShiftInv, Idle, BeforeShift, DuringShift, AfterShift
  <1>4. \A i \in 1..Len(Order) : Order[i] \in Service /\ (Order[i] = Current => i = svc)
    BY <1>1, OrderType, OrderIsAList DEF Current
  <1>5. ASSUME UNCHANGED <<weight, svc>> PROVE Others' /\ Paired' /\ Current' = Current
    BY <1>0, <1>2, <1>3, <1>4, <1>5 DEF Others, Paired, Current
  <1>6. ASSUME NEW c \in Color, NEW p \in 0..100, set_weights(Current, c, p), svc' = svc
        PROVE  /\ Others' /\ Paired' /\ Current' = Current /\ weight'[Current] = Split(c, p)
    <2>1. /\ weight'[Current] = Split(c, p)
          /\ \A s \in Service : s # Current => weight'[s] = weight[s]
      BY <1>1, <1>6 DEF set_weights
    <2>2. Paired'
      BY <1>0, <2>1 DEF Paired
    <2>3. Others'
      BY <1>0, <1>2, <1>3, <1>4, <1>6, <2>1 DEF Others
    <2> QED BY <1>6, <2>1, <2>2, <2>3 DEF Current
  <1>7. CASE SetStep
    <2>1. Steps[step] \in 0..100 /\ set_weights(Current, to, Steps[step]) /\ svc' = svc
      BY <1>0, <1>7, OrderType DEF SetStep
    <2>2. Others' /\ Paired' /\ Current' = Current /\ weight'[Current] = Split(to, Steps[step])
      BY <1>1, <1>6, <2>1
    <2>3. waited' = 0 /\ at' = "hold" /\ step' = step /\ (step > 1 => Clean(Current))
      BY <1>0, <1>7 DEF SetStep, CurrentOne
    <2>4. 0 >= Hold => Clean(Current)
      BY TimesAreNatural DEF Clean, SickIsSeen
    <2> QED BY <1>1, <1>2, <1>3, <2>2, <2>3, <2>4 DEF CurrentOne
  <1>8. CASE Look
    <2>1. /\ at' \in {"hold", "rollback"} /\ UNCHANGED <<weight, svc, step>>
          /\ weight[Current] = Split(to, Steps[step]) /\ (step > 1 => Clean(Current))
      BY <1>0, <1>8 DEF Look, CurrentOne
    <2>2. at' = "hold" /\ waited' >= Hold => Clean(Current)
      BY <1>0, <1>8, LastLook
    <2> QED BY <1>1, <1>2, <1>3, <1>5, <2>1, <2>2 DEF CurrentOne
  <1>9. CASE RollBack
    <2>1. Others' /\ Paired' /\ Current' = Current /\ weight'[Current] = Split(from, 100)
      BY <1>1, <1>6, <1>9 DEF RollBack, restore
    <2> QED BY <1>9, <2>1 DEF RollBack, CurrentOne
  <1>10. CASE NextStep
    <2>1. at' = "set" /\ UNCHANGED <<weight, svc>> /\ step' # 1 /\ Clean(Current)
      BY <1>0, <1>10 DEF NextStep, CurrentOne
    <2> QED BY <1>1, <1>2, <1>3, <1>5, <2>1 DEF CurrentOne
  <1>11. CASE NextService
    <2>1. /\ at' = "set" /\ UNCHANGED weight /\ step' = 1 /\ svc' = svc + 1 /\ svc' \in 1..Len(Order)
          /\ Clean(Current) /\ weight[Current] = Split(to, 100)
      BY <1>0, <1>1, <1>11, LastStepIsAll, OrderType DEF NextService, CurrentOne, lastStep, firstStep
    <2>2. Others'
      <3> SUFFICES ASSUME NEW i \in 1..Len(Order)
                   PROVE  /\ i < svc' => Clean(Order[i])' /\ weight'[Order[i]] = Split(to, 100)
                          /\ i > svc' => weight'[Order[i]] = Split(from, 100)
        BY <1>2 DEF Others
      <3>1. Order[i] \in Service /\ (i < svc' <=> i < svc \/ i = svc) /\ (i > svc' => i > svc)
        BY <1>1, <1>4, <2>1, OrderType
      <3> QED BY <1>0, <1>3, <2>1, <3>1 DEF Others, Current
    <2>3. weight'[Order[svc']] = Split(from, 100)
      BY <1>0, <1>1, <2>1 DEF Others
    <2> QED BY <1>0, <2>1, <2>2, <2>3 DEF CurrentOne, Paired, Current
  <1>12. CASE Completed
    <2>1. /\ at' = "passed" /\ UNCHANGED <<weight, svc>> /\ svc = Len(Order)
          /\ Clean(Current) /\ weight[Current] = Split(to, 100)
      BY <1>0, <1>12, LastStepIsAll DEF Completed, CurrentOne, lastStep
    <2> QED BY <1>1, <1>2, <1>3, <1>5, <2>1 DEF CurrentOne
  <1> QED BY <1>7, <1>8, <1>9, <1>10, <1>11, <1>12 DEF ShiftStep

\* What is known of the weights at each stage stays so.
THEOREM ShiftIsSound == Spec => []ShiftInv
  <1>1. Init => ShiftInv
    BY MigrationBounds DEF Init, InitTraffic, ShiftInv, Idle, Paired, BeforeShift, DuringShift, AfterShift
  <1>2. TypeOK /\ ShiftInv /\ [Next]_vars => ShiftInv'
    <2> SUFFICES ASSUME TypeOK, ShiftInv, [Next]_vars PROVE ShiftInv'
      OBVIOUS
    <2> USE DEF ShiftInv
    <2>1. ASSUME UNCHANGED <<weight, sick, quiet, from>>
          PROVE  Paired' /\ to' = to /\ \A s \in Service : Clean(s)' = Clean(s)
      BY <2>1 DEF Paired, to, Clean, Judged
    <2>2. ASSUME NEW c \in Color, Migrate(c) PROVE ShiftInv'
      BY <2>1, <2>2 DEF Migrate, Enter, trafficVars, Paired, Idle, BeforeShift, DuringShift, AfterShift
    <2>3. CASE Preflight
      <3>1. UNCHANGED <<trafficVars, from>> /\ stage = "preflight" /\ stage' \in {"plan", "report"}
        BY <2>3 DEF Preflight, Enter, Fail
      <3>2. ASSUME stage' = "plan" PROVE \A s \in Service : weight[s] = Split(from, 100)
        <4>1. weights_on_source(from)
          BY <2>3, <3>2 DEF Preflight, ready, Enter, Fail
        <4>2. from \in Color
          BY DEF TypeOK
        <4> SUFFICES ASSUME NEW s \in Service PROVE weight[s] = Split(from, 100)
          OBVIOUS
        <4>3. PICK c \in Color, p \in 0..100 : weight[s] = Split(c, p)
          BY DEF Paired
        <4>4. weight[s][from] = 100
          BY <4>1 DEF weights_on_source
        <4> QED BY <4>2, <4>3, <4>4, SplitIsWhole
      <3> QED BY <2>1, <3>1, <3>2 DEF trafficVars, Idle, BeforeShift, DuringShift, AfterShift
    <2>4. CASE Gate
      <3>1. /\ UNCHANGED <<trafficVars, from>> /\ stage \in {"plan", "smoke", "shadow"}
            /\ stage' \in {"smoke", "shadow", "shift", "report"}
        BY <2>4 DEF Gate, Enter, Fail
      <3> QED BY <2>1, <3>1 DEF trafficVars, Idle, BeforeShift, DuringShift, AfterShift
    <2>5. CASE BeginShift
      <3>1. /\ UNCHANGED <<weight, sick, quiet, from>> /\ stage' = "traffic" /\ at' = "set"
            /\ target' = to /\ svc' = 1 /\ step' = 1 /\ \A s \in Service : weight[s] = Split(from, 100)
        BY <2>5 DEF BeginShift, Begin, Enter, BeforeShift
      <3>2. Others' /\ CurrentOne'
        BY <3>1, OrderType DEF Others, CurrentOne, Current
      <3> QED BY <2>1, <3>1, <3>2 DEF Idle, BeforeShift, DuringShift, AfterShift
    <2>6. CASE Shift
      <3>1. ShiftStep /\ stage = "traffic" /\ UNCHANGED <<stage, from>>
        BY <2>6 DEF Shift
      <3> QED BY <3>1, ShiftKeeps
    <2>7. CASE EndShift
      <3>1. /\ UNCHANGED <<weight, sick, quiet, from>> /\ stage = "traffic" /\ at' = "idle"
            /\ stage' \in {"approve", "report"} /\ (stage' = "approve" => at = "passed")
        BY <2>7 DEF EndShift, Enter, Fail
      <3>2. ASSUME at = "passed" PROVE \A s \in Service : Clean(s) /\ weight[s] = Split(to, 100)
        <4> SUFFICES ASSUME NEW i \in 1..Len(Order) PROVE Clean(Order[i]) /\ weight[Order[i]] = Split(to, 100)
          BY OrderIsAList
        <4>1. Others /\ svc = Len(Order) /\ Clean(Current) /\ weight[Current] = Split(to, 100)
          BY <3>1, <3>2 DEF DuringShift, CurrentOne
        <4>2. i < svc \/ i = svc
          BY <4>1, OrderType
        <4> QED BY <4>1, <4>2 DEF Others, Current
      <3> QED BY <2>1, <3>1, <3>2 DEF Idle, BeforeShift, DuringShift, AfterShift
    <2>8. CASE Approve \/ Switchover \/ RequestHandoff \/ SeeHandoff \/ PostCheck \/ Report
      <3>1. /\ UNCHANGED <<trafficVars, from>>
            /\ \/ stage \in {"approve", "db", "lease", "handoff", "post"}
                  /\ stage' \in {"db", "lease", "handoff", "post", "report", "none"}
               \/ stage = "report" /\ stage' = "none"
        BY <2>8 DEF Approve, Switchover, RequestHandoff, SeeHandoff, PostCheck, Report, Enter, Fail
      <3> QED BY <2>1, <3>1 DEF trafficVars, Idle, BeforeShift, DuringShift, AfterShift
    <2>9. CASE Die
      BY <2>1, <2>9 DEF Die, Enter, Idle, BeforeShift, DuringShift, AfterShift
    <2>10. CASE LeaseMoves \/ UNCHANGED vars
      <3>1. UNCHANGED <<trafficVars, stage, from>>
        BY <2>10 DEF LeaseMoves, vars
      <3>2. Others' = Others /\ CurrentOne' = CurrentOne
        BY <3>1 DEF trafficVars, Others, CurrentOne, Current, Clean, Judged, to
      <3> QED BY <2>1, <3>1, <3>2 DEF trafficVars, Idle, BeforeShift, DuringShift, AfterShift
    <2>11. ASSUME NEW c \in Color, TrafficSet(c) PROVE ShiftInv'
      <3>1. UNCHANGED <<at, stage>> /\ stage = "none"
        BY <2>11 DEF TrafficSet, shiftVars
      <3>2. PICK n : SetUpTo(n, c, 100)
        BY <2>11 DEF TrafficSet
      <3>3. Paired'
        BY <3>2 DEF SetUpTo, Paired
      <3> QED BY <3>1, <3>3 DEF Idle, BeforeShift, DuringShift, AfterShift
    <2>12. ASSUME NEW c \in Color, SwitchoverByHand(c) \/ HandoffByHand(c) PROVE ShiftInv'
      <3>1. UNCHANGED <<trafficVars, stage, from>> /\ stage = "none"
        BY <2>12 DEF SwitchoverByHand, HandoffByHand
      <3> QED BY <2>1, <3>1 DEF trafficVars, Idle, BeforeShift, DuringShift, AfterShift
    <2>13. CASE Fix
      BY <2>13 DEF Fix, shiftVars, Paired, Idle, BeforeShift, DuringShift, AfterShift
    <2> QED BY <2>2, <2>3, <2>4, <2>5, <2>6, <2>7, <2>8, <2>9, <2>10, <2>11, <2>12, <2>13
            DEF Next, Pipeline, ByHand
  <1> QED BY <1>1, <1>2, TypeCorrect, PTL DEF Spec

\* The services move one after the other.
THEOREM ServicesMoveInTurn == Spec => []OneAtATime
  <1>1. TypeOK /\ ShiftInv => OneAtATime
    <2> SUFFICES ASSUME TypeOK, ShiftInv, stage = "traffic", NEW i \in 1..Len(Order)
                 PROVE  /\ i < svc => weight[Order[i]] = Split(to, Steps[Len(Steps)])
                        /\ i > svc \/ (at = "breach" /\ i = svc) => weight[Order[i]] = Split(from, 100)
      BY DEF OneAtATime
    <2> QED BY LastStepIsAll DEF ShiftInv, DuringShift, Others, CurrentOne, Current
  <1> QED BY <1>1, TypeCorrect, ShiftIsSound, PTL

\* A service that is sick in the target, and can be judged, never has more there than the
\* first step gives it.
THEOREM SickServicesStaySmall ==
    ASSUME SickIsSeen
    PROVE  Spec => []SickStaysSmall
  <1>1. TypeOK /\ ShiftInv => SickStaysSmall
    <2> SUFFICES ASSUME TypeOK, ShiftInv, stage \in Started, NEW s \in Service,
                        <<s, to>> \in sick, Judged(s, to)
                 PROVE  weight[s][to] <= Steps[1]
      BY DEF SickStaysSmall
    <2>1. ~Clean(s) /\ to \in Color /\ from \in Color /\ to # from
      BY OtherFacts DEF Clean, TypeOK, to
    <2>2. stage = "traffic"
      BY <2>1 DEF Started, ShiftInv, AfterShift
    <2>3. Others /\ CurrentOne /\ at \in {"set", "hold", "rollback", "passed", "breach"}
      BY <2>2 DEF ShiftInv, DuringShift
    <2>4. PICK i \in 1..Len(Order) : Order[i] = s
      BY OrderIsAList
    <2>5. Steps[1] \in 0..100 /\ svc \in 1..Len(Order) /\ step \in 1..Len(Steps)
      BY OrderType DEF TypeOK, TrafficTypeOK
    <2>6. Split(from, 100)[to] = 0 /\ Split(to, Steps[1])[to] = Steps[1]
      BY <2>1 DEF Split
    <2>7. i = svc \/ i > svc
      BY <2>1, <2>3, <2>4, <2>5, OrderType DEF Others
    <2>8. weight[s] = Split(from, 100) \/ weight[s] = Split(to, Steps[1])
      <3>1. CASE i > svc
        BY <2>3, <2>4, <3>1 DEF Others
      <3>2. CASE i = svc
        <4>1. ~Clean(Current) /\ Current = s
          BY <2>1, <2>4, <3>2 DEF Current
        <4>2. step > 1 \/ step = 1
          BY <2>5, OrderType
        <4> QED BY <2>3, <4>1, <4>2 DEF CurrentOne
      <3> QED BY <2>7, <3>1, <3>2
    <2>9. \A n \in 0..100 : 0 <= n /\ n <= n
      OBVIOUS
    <2>10. CASE weight[s] = Split(from, 100)
      <3>1. weight[s][to] = 0
        BY <2>6, <2>10
      <3> QED BY <2>5, <2>9, <3>1
    <2>11. CASE weight[s] = Split(to, Steps[1])
      <3>1. weight[s][to] = Steps[1]
        BY <2>6, <2>11
      <3> QED BY <2>5, <2>9, <3>1
    <2> QED BY <2>8, <2>10, <2>11
  <1> QED BY <1>1, TypeCorrect, ShiftIsSound, PTL

\* The database and the lease do not follow a service that is sick in the target.
THEOREM SickServicesStayBehind ==
    ASSUME SickIsSeen
    PROVE  Spec => []SickNeverGetsTheData
  <1>1. ShiftInv => SickNeverGetsTheData
    BY DEF ShiftInv, AfterShift, SickNeverGetsTheData, Clean
  <1> QED BY <1>1, ShiftIsSound, PTL
----------------------------------------------------------------------------
(* Where the database and the lease are. *)

\* The source has them, or the lease still goes where somebody wished it before.
AtSource == primary = from /\ (holder = from \/ desired # from)

DataInv ==
    /\ stage \in {"plan", "smoke", "shadow", "shift", "traffic", "approve", "db"} => AtSource
    /\ status \in {"Stopped", "Undone"} => AtSource /\ stage \in {"report", "none"}
    /\ stage \notin {"report", "none"} => status = "Running"
    /\ status = "Undone" => stage = "none" /\ weights_on_source(from)
    /\ stage \in {"lease", "handoff", "post"} \/ status = "Succeeded" => primary = to
    /\ stage \in {"handoff", "post"} \/ status = "Succeeded" => desired = to
    /\ stage = "post" \/ status = "Succeeded" => holder = to
    /\ status = "Succeeded" => weights_on_source(to)

\* What is known of the database and the lease at each stage stays so.
THEOREM DataIsSound == Spec => []DataInv
  <1>1. Init => DataInv
    BY DEF Init, DataInv
  <1>2. TypeOK /\ ShiftInv /\ DataInv /\ [Next]_vars => DataInv'
    <2> SUFFICES ASSUME TypeOK, ShiftInv, DataInv, [Next]_vars PROVE DataInv'
      OBVIOUS
    <2> USE DEF DataInv, AtSource, weights_on_source, to, Enter, Fail, dataVars, boundVars
    <2>0. from \in Color /\ Other[from] \in Color /\ Other[from] # from
      BY OtherFacts DEF TypeOK
    <2>1. ASSUME NEW c \in Color, Migrate(c) PROVE DataInv'
      BY <2>1 DEF Migrate
    <2>2. CASE Preflight
      BY <2>2 DEF Preflight, ready, database_roles, lease_on_source
    <2>3. CASE Gate
      BY <2>3 DEF Gate
    <2>4. CASE BeginShift \/ Shift \/ EndShift
      BY <2>4 DEF BeginShift, Shift, EndShift
    <2>5. CASE Approve
      BY <2>5 DEF Approve
    <2>6. CASE Switchover
      BY <2>6, <2>0 DEF Switchover
    <2>7. CASE RequestHandoff \/ SeeHandoff
      BY <2>7 DEF RequestHandoff, SeeHandoff, handedOver
    <2>8. CASE PostCheck
      <3>1. UNCHANGED <<trafficVars, from, dataVars>> /\ stage = "post" /\ stage' = "report"
            /\ status' \in {"Succeeded", "Failed"}
        BY <2>8 DEF PostCheck
      <3>2. \A s \in Service : weight[s][to] = 100
        BY <3>1, <2>0, WholeType DEF ShiftInv, AfterShift
      <3> QED BY <3>1, <3>2 DEF trafficVars
    <2>9. CASE Report \/ Die
      BY <2>9 DEF Report, Die, trafficVars
    <2>10. CASE LeaseMoves
      BY <2>10 DEF LeaseMoves, trafficVars
    <2>11. ASSUME NEW c \in Color, TrafficSet(c) PROVE DataInv'
      <3>1. /\ stage = "none" /\ UNCHANGED <<stage, from, dataVars>> /\ status' \in {"none", "Undone"}
            /\ status' = "Undone" => status = "Stopped" /\ c = from /\ SetUpTo(Len(Order), c, 100)
        BY <2>11 DEF TrafficSet
      <3>2. ASSUME status' = "Undone" PROVE \A s \in Service : weight'[s][from] = 100
        BY <2>0, <3>1, <3>2, OrderIsAList, WholeType DEF SetUpTo
      <3> QED BY <3>1, <3>2
    <2>12. ASSUME NEW c \in Color, SwitchoverByHand(c) \/ HandoffByHand(c) PROVE DataInv'
      BY <2>12 DEF SwitchoverByHand, HandoffByHand
    <2>13. CASE Fix
      BY <2>13 DEF Fix
    <2>14. CASE UNCHANGED vars
      BY <2>14 DEF vars, trafficVars
    <2> QED BY <2>1, <2>2, <2>3, <2>4, <2>5, <2>6, <2>7, <2>8, <2>9, <2>10, <2>11, <2>12, <2>13, <2>14
            DEF Next, Pipeline, ByHand
  <1> QED BY <1>1, <1>2, TypeCorrect, ShiftIsSound, PTL DEF Spec

\* A migration that succeeded can be taken back with the same engine.
THEOREM SuccessIsReversible == Spec => []SucceededIsReversible
  <1>1. DataInv => SucceededIsReversible
    BY DEF DataInv, SucceededIsReversible, ready, database_roles, lease_on_source
  <1> QED BY <1>1, DataIsSound, PTL

\* The command that a stopped migration prints undoes it.
THEOREM StopIsUndone == Spec => []StoppedIsUndone
  <1>1. DataInv => StoppedIsUndone
    BY DEF DataInv, AtSource, StoppedIsUndone, database_roles, lease_on_source
  <1> QED BY <1>1, DataIsSound, PTL
=============================================================================
