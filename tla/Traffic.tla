------------------------------ MODULE Traffic ------------------------------
(***************************************************************************)
(* The gated traffic shift: `cm traffic` (engine/clustermotion/traffic.py  *)
(* and cli.py, cmd_traffic) moves the weights of each service's load       *)
(* balancer rule in steps and looks at CloudWatch while it holds a step.   *)
(* The steps of a shift; module Migration says when one starts.            *)
(***************************************************************************)
EXTENDS Integers, Sequences, FiniteSetsExt

CONSTANTS
    Color, Other,       \* the clusters, and config.other
    NoColor,            \* no target
    Service, Order,     \* the services, and shift_order
    Steps,              \* the percentages of --steps
    Hold, Interval,     \* --hold, and the interval of the polls
    Good, Bad, Few,     \* what CloudWatch reports of a target group that is fine,
                        \* of one that is not, and of one with too few requests
    MinRequests, MaxErrors, MinP95, MaxP95Ratio  \* slo; the ratios in percent

ASSUME ColorsArePaired ==
    /\ NoColor \notin Color /\ Other \in [Color -> Color]
    /\ \A c \in Color : Other[c] # c /\ Other[Other[c]] = c /\ Color = {c, Other[c]}
ASSUME OrderIsAList ==
    /\ Order \in Seq(Service) /\ Len(Order) > 0
    /\ \A s \in Service : \E i \in 1..Len(Order) : Order[i] = s
    /\ \A i, j \in 1..Len(Order) : Order[i] = Order[j] => i = j
ASSUME StepsArePercentages == Steps \in Seq(0..100) /\ Len(Steps) > 0
ASSUME TimesAreNatural == Hold \in Nat /\ Interval \in Nat \ {0}
ASSUME StatsAreRecords == Good \cup Bad \cup Few \subseteq [requests : Nat, errors : Nat, p95 : Nat]

VARIABLES
    weight,     \* the weights of each service's rule
    sick,       \* <<service, cluster>> where the service fails or is slow
    quiet,      \* the services that get hardly any requests
    at,         \* what the shift does next, or how it ended
    target,     \* --to
    svc, step,  \* the service, and the step of it, the shift is at
    waited      \* seconds of the step so far

trafficVars == <<weight, sick, quiet, at, target, svc, step, waited>>
shiftVars == <<at, target, svc, step, waited>>
----------------------------------------------------------------------------
(* evaluate *)

\* Too few requests decide nothing; then the errors, then the latency.
\* (Slip: only the errors.)
evaluateErrors(t, s) ==
    IF t.requests < MinRequests THEN "inconclusive"
    ELSE IF 100 * t.errors > MaxErrors * t.requests THEN "fail"
    ELSE "pass"
evaluate(t, s) ==
    IF t.requests < MinRequests THEN "inconclusive"
    ELSE IF 100 * t.errors > MaxErrors * t.requests THEN "fail"
    ELSE IF 100 * t.p95 > Max({100 * MinP95, MaxP95Ratio * s.p95}) THEN "fail"
    ELSE "pass"

\* The window starts a minute before the step and grows with it: too few requests
\* at the end of the hold mean that the service gets hardly any.
tg_stats(s, c, now) ==
    (IF <<s, c>> \in sick THEN Bad ELSE Good) \cup (IF now < Hold \/ s \in quiet THEN Few ELSE {})
----------------------------------------------------------------------------
(* set_weights *)

Split(c, pct) == [d \in Color |-> IF d = c THEN pct ELSE 100 - pct]

set_weights(s, c, pct) == weight' = [weight EXCEPT ![s] = Split(c, pct)]

\* cm traffic set: the services up to the nth; a failure leaves the others.
SetUpTo(n, c, pct) ==
    weight' = [s \in Service |-> IF \E i \in 1..n : Order[i] = s THEN Split(c, pct) ELSE weight[s]]
----------------------------------------------------------------------------
(* shift *)

Current == Order[svc]
Source == Other[target]

Begin(t) ==
    /\ at = "idle" /\ at' = "set"
    /\ target' = t /\ svc' = 1 /\ step' = 1 /\ waited' = 0
    /\ UNCHANGED <<weight, sick, quiet>>

SetStep ==
    /\ at = "set" /\ at' = "hold" /\ waited' = 0
    /\ set_weights(Current, target, Steps[step])
    /\ UNCHANGED <<sick, quiet, target, svc, step>>

\* (Slips: the time slept is not counted; the sleep is not cut at the hold.)
pollForever == waited
pollPast == waited + Interval
poll == waited + Min({Interval, Hold - waited})

Look ==
    /\ at = "hold" /\ waited < Hold
    /\ waited' = poll
    /\ \E t \in tg_stats(Current, target, waited'), s \in tg_stats(Current, Source, waited') :
         at' = IF evaluate(t, s) = "fail" THEN "rollback" ELSE "hold"
    /\ UNCHANGED <<weight, sick, quiet, target, svc, step>>

\* (Slip: back to the first step.)
restoreStep == set_weights(Current, Source, 100 - Steps[1])
restore == set_weights(Current, Source, 100)

RollBack ==
    /\ at = "rollback" /\ at' = "breach"
    /\ restore
    /\ UNCHANGED <<sick, quiet, target, svc, step, waited>>

\* (Slip: one step too few.)
lastStepEarly == step >= Len(Steps) - 1
lastStep == step = Len(Steps)

\* What is no breach passes, an inconclusive verdict too.
NextStep ==
    /\ at = "hold" /\ waited >= Hold /\ ~lastStep
    /\ at' = "set" /\ step' = step + 1
    /\ UNCHANGED <<weight, sick, quiet, target, svc, waited>>

\* (Slip: the next service goes on where this one ended.)
firstStepKept == step
firstStep == 1

NextService ==
    /\ at = "hold" /\ waited >= Hold /\ lastStep /\ svc < Len(Order)
    /\ at' = "set" /\ svc' = svc + 1 /\ step' = firstStep
    /\ UNCHANGED <<weight, sick, quiet, target, waited>>

Completed ==
    /\ at = "hold" /\ waited >= Hold /\ lastStep /\ svc = Len(Order)
    /\ at' = "passed"
    /\ UNCHANGED <<weight, sick, quiet, target, svc, step, waited>>

ShiftStep == SetStep \/ Look \/ RollBack \/ NextStep \/ NextService \/ Completed

InitTraffic(from) ==
    /\ weight = [s \in Service |-> Split(from, 100)]
    /\ sick \in SUBSET (Service \X Color) /\ quiet \in SUBSET Service
    /\ at = "idle" /\ target = NoColor /\ svc = 1 /\ step = 1 /\ waited = 0
----------------------------------------------------------------------------
\* Every variable stays in its range.
TrafficTypeOK ==
    /\ weight \in [Service -> [Color -> 0..100]]
    /\ sick \subseteq Service \X Color /\ quiet \subseteq Service
    /\ at \in {"idle", "set", "hold", "rollback", "passed", "breach"}
    /\ target \in Color \cup {NoColor}
    /\ svc \in 1..Len(Order) /\ step \in 1..Len(Steps) /\ waited \in 0..Hold

\* A service the gate can judge: it gets requests, and is fine at the source.
Judged(s, to) == s \notin quiet /\ <<s, Other[to]>> \notin sick
=============================================================================
