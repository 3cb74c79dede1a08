----------------------------- MODULE Migration -----------------------------
(***************************************************************************)
(* A whole migration: `cm migrate` (engine/clustermotion/cli.py,           *)
(* cmd_migrate), which the Argo workflow gitops/mgmt/workflows/            *)
(* migrate.yaml repeats step by step, with the preflight of checks.py and  *)
(* what an operator can do between two migrations.                         *)
(*                                                                         *)
(* The database switchover and the lease handoff are modelled in detail in *)
(* Switchover and Lease; here they have their outcomes only.               *)
(***************************************************************************)
EXTENDS Traffic

CONSTANTS
    First,          \* where everything is to begin with
    MaxMigrations,  \* bound on the migrations
    MaxFaults       \* bound on failed checks and on errors that end a command

ASSUME MigrationBounds == First \in Color /\ MaxMigrations \in Nat /\ MaxFaults \in Nat

\* --steps ends with everything.
ASSUME LastStepIsAll == Steps[Len(Steps)] = 100

VARIABLES
    stage,      \* the command of the pipeline that runs
    from,       \* --from
    status,     \* of the last migration, and what was done by hand after it
    primary,    \* the cluster the specs name the primary of the database, or none
    holder, desired,  \* of the lease
    migrations, faults

vars == <<trafficVars, stage, from, status, primary, holder, desired, migrations, faults>>

dataVars == <<primary, holder, desired>>
boundVars == <<migrations, faults>>

to == Other[from]
Fault == faults < MaxFaults /\ faults' = faults + 1
Enter(next) == stage' = next
----------------------------------------------------------------------------
(* preflight *)

weights_on_source(f) == \A s \in Service : weight[s][f] = 100
database_roles(f) == primary = f
lease_on_source(f) == holder = f

\* The checks of a state the other commands change.  (Slip: any does.)
readyAny(f) == weights_on_source(f) \/ database_roles(f) \/ lease_on_source(f)
ready(f) == weights_on_source(f) /\ database_roles(f) /\ lease_on_source(f)
----------------------------------------------------------------------------
(* The pipeline. *)

Migrate(f) ==
    /\ stage = "none" /\ migrations < MaxMigrations /\ migrations' = migrations + 1
    /\ Enter("preflight") /\ from' = f /\ status' = "Running"
    /\ UNCHANGED <<trafficVars, dataVars, faults>>

Fail == Enter("report") /\ status' = "Failed"

\* The checks of APIs, applications and targets, too, pass or fail.
Preflight ==
    /\ stage = "preflight"
    /\ \/ ready(from) /\ Enter("plan") /\ UNCHANGED <<status, faults>>
       \/ ~ready(from) /\ Fail /\ UNCHANGED faults
       \/ Fault /\ Fail
    /\ UNCHANGED <<trafficVars, from, dataVars, migrations>>

\* The plan is printed and decides nothing; --skip-shadow.
Gate ==
    /\ \/ /\ UNCHANGED <<status, faults>>
          /\ \/ stage = "plan" /\ Enter("smoke")
             \/ stage = "smoke" /\ (Enter("shadow") \/ Enter("shift"))
             \/ stage = "shadow" /\ Enter("shift")
       \/ stage \in {"smoke", "shadow"} /\ Fault /\ Fail
    /\ UNCHANGED <<trafficVars, from, dataVars, migrations>>

BeginShift ==
    /\ stage = "shift" /\ Enter("traffic")
    /\ Begin(to)
    /\ UNCHANGED <<from, status, dataVars, boundVars>>

Shift ==
    /\ stage = "traffic" /\ ShiftStep
    /\ UNCHANGED <<stage, from, status, dataVars, boundVars>>

EndShift ==
    /\ stage = "traffic" /\ at \in {"passed", "breach"} /\ at' = "idle"
    /\ IF at = "passed" THEN Enter("approve") /\ UNCHANGED status ELSE Fail
    /\ UNCHANGED <<weight, sick, quiet, target, svc, step, waited, from, dataVars, boundVars>>

\* The prompt, or --yes.
Approve ==
    /\ stage = "approve"
    /\ \/ Enter("db") /\ UNCHANGED status
       \/ Enter("report") /\ status' = "Stopped"
    /\ UNCHANGED <<trafficVars, from, dataVars, boundVars>>

\* cm db switchover: an exception ends it before the first patch, after the demotion
\* or after the promotion.
Switchover ==
    /\ stage = "db"
    /\ \/ primary = from /\ primary' = to /\ Enter("lease") /\ UNCHANGED <<status, faults>>
       \/ /\ primary = from /\ primary' \in {NoColor, to} /\ Fault
          /\ Enter("none") /\ status' = "Died"
       \/ /\ primary # from /\ UNCHANGED <<primary, faults>>
          /\ Enter("none") /\ status' = "Died"
    /\ UNCHANGED <<trafficVars, from, holder, desired, migrations>>

\* cm lease handoff.
RequestHandoff ==
    /\ stage = "lease" /\ Enter("handoff") /\ desired' = to
    /\ UNCHANGED <<trafficVars, from, status, primary, holder, boundVars>>

\* (Slip: the request is enough.)
handedOverSoon == desired = to
handedOver == holder = to

SeeHandoff ==
    /\ stage = "handoff" /\ handedOver /\ Enter("post")
    /\ UNCHANGED <<trafficVars, from, status, dataVars, boundVars>>

PostCheck ==
    /\ stage = "post"
    /\ \/ Enter("report") /\ status' = "Succeeded" /\ UNCHANGED faults
       \/ Fault /\ Fail
    /\ UNCHANGED <<trafficVars, from, dataVars, migrations>>

Report ==
    /\ stage = "report" /\ Enter("none")
    /\ UNCHANGED <<trafficVars, from, status, dataVars, boundVars>>

\* An exception, an interrupt, a handoff that times out: no report.
Die ==
    /\ stage # "none" /\ Fault
    /\ Enter("none") /\ status' = "Died" /\ at' = "idle"
    /\ UNCHANGED <<weight, sick, quiet, target, svc, step, waited, from, dataVars, migrations>>
----------------------------------------------------------------------------
(* The agents, and the operator between two migrations. *)

LeaseMoves ==
    /\ holder # desired /\ holder' = desired
    /\ UNCHANGED <<trafficVars, stage, from, status, primary, desired, boundVars>>

\* The command a stopped migration prints; it undoes it.
TrafficSet(c) ==
    /\ stage = "none" /\ status # "none"
    /\ \/ SetUpTo(Len(Order), c, 100) /\ UNCHANGED faults
          /\ status' = IF status = "Stopped" /\ c = from THEN "Undone" ELSE "none"
       \/ \E n \in 0..(Len(Order) - 1) : SetUpTo(n, c, 100) /\ Fault /\ status' = "none"
    /\ UNCHANGED <<sick, quiet, shiftVars, stage, from, dataVars, migrations>>

SwitchoverByHand(c) ==
    /\ stage = "none" /\ primary = Other[c] /\ status' = "none"
    /\ \/ primary' = c /\ UNCHANGED faults
       \/ primary' \in {NoColor, c} /\ Fault
    /\ UNCHANGED <<trafficVars, stage, from, holder, desired, migrations>>

HandoffByHand(c) ==
    /\ stage = "none" /\ desired # c /\ desired' = c
    /\ status' = "none"
    /\ UNCHANGED <<trafficVars, stage, from, primary, holder, boundVars>>

\* "Fix green and retry."
Fix ==
    /\ stage = "none" /\ sick # {} /\ sick' = {}
    /\ UNCHANGED <<weight, quiet, shiftVars, stage, from, status, dataVars, boundVars>>
----------------------------------------------------------------------------
Init ==
    /\ InitTraffic(First)
    /\ stage = "none" /\ from = First /\ status = "none"
    /\ primary = First /\ holder = First /\ desired = First
    /\ migrations = 0 /\ faults = 0

Pipeline ==
    \/ Preflight \/ Gate \/ BeginShift \/ Shift \/ EndShift \/ Approve \/ Switchover
    \/ RequestHandoff \/ SeeHandoff \/ PostCheck \/ Report

ByHand ==
    \/ \E c \in Color : Migrate(c) \/ TrafficSet(c) \/ SwitchoverByHand(c) \/ HandoffByHand(c)
    \/ Fix

Next == Pipeline \/ Die \/ LeaseMoves \/ ByHand

Spec == Init /\ [][Next]_vars

\* The commands keep running, and so do the agents (Lease, WishIsGranted).
FairSpec == Spec /\ WF_vars(Pipeline) /\ WF_vars(LeaseMoves)
----------------------------------------------------------------------------
\* Every variable stays in its range.
TypeOK ==
    /\ TrafficTypeOK
    /\ stage \in {"none", "preflight", "plan", "smoke", "shadow", "shift", "traffic", "approve",
                  "db", "lease", "handoff", "post", "report"}
    /\ status \in {"none", "Running", "Failed", "Stopped", "Succeeded", "Died", "Undone"}
    /\ from \in Color /\ primary \in Color \cup {NoColor} /\ holder \in Color /\ desired \in Color
    /\ migrations \in 0..MaxMigrations /\ faults \in 0..MaxFaults

Started == {"traffic", "approve", "db", "lease", "handoff", "post"}

\* The gate bounds the damage: from the preflight on, a service that is sick in the
\* target, is fine in the source and gets requests has at most the first step's
\* share there, whatever the windows held and whatever was done before.
SickStaysSmall ==
    stage \in Started => \A s \in Service :
        <<s, to>> \in sick /\ Judged(s, to) => weight[s][to] <= Steps[1]

\* The database and the lease follow the traffic: a migration does not touch them
\* while a service it could judge is sick in the target.
SickNeverGetsTheData ==
    stage \in {"approve", "db", "lease", "handoff", "post"} =>
        \A s \in Service : Judged(s, to) => <<s, to>> \notin sick

\* The services move one after the other: those before the current one have all
\* that the steps give, those after it nothing yet; and a breach leaves the service
\* that caused it whole, where it came from.
OneAtATime ==
    stage = "traffic" => \A i \in 1..Len(Order) :
        /\ i < svc => weight[Order[i]] = Split(to, Steps[Len(Steps)])
        /\ i > svc \/ (at = "breach" /\ i = svc) => weight[Order[i]] = Split(from, 100)

\* "Migrate back: the same engine, colours reversed": after a migration that succeeded
\* the preflight of the way back finds everything where it has to be.
SucceededIsReversible == stage = "none" /\ status = "Succeeded" => ready(to)

\* The command a stopped migration prints brings back the state its preflight saw,
\* unless an older handoff is still being granted.
StoppedIsUndone ==
    status = "Undone" => weights_on_source(from) /\ database_roles(from)
                         /\ (lease_on_source(from) \/ desired # from)

\* A migration comes to an end, whatever CloudWatch and the agents do.
MigrationEnds == stage # "none" ~> stage = "none"

\* "If SLO gate fails: traffic rolls back to blue = 100% automatically": after a
\* breach all the traffic is on the source.
BreachRestoresAll == stage = "traffic" /\ at = "breach" => weights_on_source(from)
=============================================================================
