# ClusterMotion: specifications, model checking and proofs

ClusterMotion moves a running shop from one Kubernetes cluster to its twin (the
colours *blue* and *green*) without downtime: an engine (`src/engine`, the `cm`
command) shifts HTTP traffic in steps, switches the PostgreSQL primary over and hands
the singleton workloads from one cluster to the other, while the shop's services
(`src/services`) keep accepting and fulfilling orders in both clusters. This directory
holds TLA+ models of what is hard in that, the TLC runs that check them on small
instances, and proofs checked by TLAPS for all instances.

## 1. The system

### Components

| component | state it keeps | operations | what makes it correct |
|---|---|---|---|
| **Singleton lease** (`engine/clustermotion/lease.py`) | one DynamoDB item (holder, desired, renewed_at); in each cluster the suspend flag of the cron job and the pause annotation of the scaled object | the agent's tick in each cluster (read, decide, drain, renew, release, acquire, switch on or off); `cm lease init`, `cm lease handoff` | singleton work in one cluster at a time; a live lease is not taken; a drained lease is released, an expired one taken in the end |
| **Fencing guard** (`services/shared/lease_guard.py`) | a cached answer and its age, per process | `holds_lease` | no work long after the lease has gone; an unreadable lease counts as not held |
| **Orders service** (`services/orders/app/main.py`, `db.py`, `schema.sql`) | table orders; pooled connections | `POST /api/orders` with an idempotency key; publish to the queue | one order per key however often the client retries; what was confirmed stays |
| **Fulfillment worker** (`services/fulfillment/worker/main.py`) | order status, fulfillment_log | receive a batch, fulfil, delete | one effect per order, although delivery is at least once |
| **Order sweeper** (`services/orders/app/sweeper.py`) | sweeper_runs, one `ran` row per time slot | claim the slot, re-publish what is stuck | a slot runs once; every accepted order is fulfilled in the end |
| **Order queue** (SQS, `infra/terraform/shared/data.tf`; external) | messages, receive counts, dead-letter queue | deliver, redeliver, redrive | – |
| **Database switchover** (`engine/clustermotion/database.py`, waits of `kube.py`, annotation of `checks.py`) | spec and status of the two CloudNativePG Clusters, the DNS record, the annotation GitOps renders from | `cm db switchover`, `cm db point` | one writer, no lost write, DNS and GitOps never ahead of the database, an end to the write pause |
| **Traffic shift** (`engine/clustermotion/traffic.py`) | weights of each service's load balancer rule | `cm traffic shift` (steps, polls, SLO, rollback), `cm traffic set` | a bad target never gets more than the first step; services move one by one |
| **Preflight and smoke** (`checks.py`) | none | read-only checks | refuse a migration that starts from somewhere else |
| **Migration pipeline** (`cli.py`, `gitops/mgmt/workflows/migrate.yaml`) | which command runs | the commands in order, the prompt, the report | it ends; success means everything moved; data follows traffic |
| **Shadow replay** (`shadow.py`, `cm shadow` of `cli.py`) | counts of a replay | three requests per path, comparison, gate | what the source itself disagrees about is noise, and nothing else is; the gate judges enough |
| **Planner** (`planner.py`) | none | classification of a cluster's objects, or of manifests | a singleton is handed over by the lease, whatever else is listed |
| **Reconciliation** (`verify.py`) | none | queries between the first and last confirmed write | it reports what was lost or doubled, and nothing that was not |
| Events and report, configuration, API clients, registration, catalog service, charts, Terraform, Ansible, local stack, scripts | – | – | – |

### How they interact

```
 cm migrate / Argo workflow
   preflight > plan > smoke > shadow > traffic shift > (approval) > db switchover > lease handoff > smoke > report
                                          |                              |               |
                             load balancer weights          CNPG Clusters, DNS      DynamoDB item
                                          |                              |           ^    ^    ^
 clients ------------------------> orders-svc ------------------> PostgreSQL     agent | agent | guards
                                          |                        ^      ^       (blue) (green)  |
                                          +---> SQS ---> worker ---+      |                       |
                                                 ^------- sweeper --------+      worker, sweeper -+
```

Nothing but the DynamoDB item, the database, the queue and the Kubernetes objects is
shared; there is no lock around any command. The engine runs as a person's shell
command or as workflow pods, and every one of its calls can be its last.

### What is hard

* **Interleaving**: two agents, two operators, workers and sweepers of both clusters
  act between any two remote calls of each other.
* **Stale reads**: an agent decides on a snapshot and writes several calls later; the
  guard caches; the sweeper reads before it sends; a switchover points DNS after a poll.
* **Crash and partial failure**: between the patch that demotes one database and the
  one that promotes the other, between the two switches of a drain, between commit and
  publish, between commit and delete, at a commit whose outcome the client never learns.
* **Time**: lease expiry on two clocks, drains that outlast the TTL, visibility timeouts,
  waits that time out while what they waited for still happens; a job that starts late and
  takes another slot than the one it was created for.
* **Delivery**: messages come twice, late, to a worker that has lost the lease, or end in
  the dead-letter queue.
* **Liveness**: the agent that never comes back, the publish that was lost, the pooled
  connection that leads to a demoted primary, the orders behind a sweep's limit.
* **Telling the truth about a moving system**: the shadow replay compares answers of a shop
  that is written to; `cm verify` infers overlaps and missed slots from what was left in the tables.

PROJECT.json lists these hazards one by one, at the line where each bites, with the
properties that cover it.

## 2. The modules

| module | models | implements |
|---|---|---|
| `Singleton` | the promise of the lease: active in one cluster, off in all before another | |
| `Lease` | the agents, the item, the operator's commands and the work they switch | `Singleton` |
| `LeaseProofs` | proofs about `Lease` | |
| `Fencing` | the guard inside the worker's and the sweeper's loops | |
| `FencingProofs` | proofs about `Fencing` | |
| `OrderLife` | the promise to a client: one order per key, one effect, fulfilled in the end | |
| `Orders` | orders-svc, queue, worker and sweeper on one database | `OrderLife` |
| `OrdersProofs` | proofs about `Orders` | |
| `Store` | the promise of the database: one store that is sometimes down | |
| `Switchover` | the engine's runs, the two CNPG Clusters, DNS, annotation, connections, writes | `Store` |
| `SwitchoverProofs` | proofs about `Switchover` | |
| `Traffic` | the shift of the services' weights and its gate (actions without a Next) | |
| `Migration` | the pipeline and the operator's commands around it; composes `Traffic` | |
| `MigrationProofs` | proofs about `Traffic` and `Migration` | |
| `Verify` | what `cm verify` computes about time (operators only) | |
| `Evidence` | CronJobs, their slots and the workers under a moving lease; extends `Verify` | |
| `EvidenceProofs` | proofs about `Verify` and `Evidence` | |
| `Shadow` | the replay of one path after another, the comparison and the gate | |
| `ShadowProofs` | proofs about `Shadow` | |
| `Planner` | the classification of objects | |
| `PlannerProofs` | proofs about `Planner` | |
| `MCTools` | `Evidence`, `Shadow` and `Planner` in one run | |
| `MC*` | the constants of the runs | |

Some definitions carry the comment *slip*. They state the operator below them with a
plausible programming mistake and are used by no behaviour of the models; they are what
PROJECT.json substitutes in the mutation runs, to see that each property notices.

### Lease

State: `lease` is the item (`Missing` stands for an absent holder attribute, which
`read` shows as empty and which no conditional write matches); `pc`, `seen`, `started`
are where an agent is in `tick`, the snapshot it decided on, and when the tick began;
`on` holds the two kinds of switches (`cronjob`: suspend, `scaledobject`: pause
annotation) and `load` the work behind them (`unlisted`: exists, but `drained` cannot
see it yet). Each remote call of `tick` is an action: `Read`, the patches `EnsureOff` and
`EnsureOn` (one action each, by place in the tick), `ListJobs`, `ListPods`, `Renew`,
`Release`, `Acquire`. `decide` and its arguments are evaluated in the code's order: a
holder that is no longer desired drains *before* it decides. `Fail` is an exception that
`run` logs, `Crash` and `Restart` a dead pod. Operator: `Initialise`, `HandoffRequest`,
`HandoffEnd`. `Elapse` lets one time unit pass, unless a running agent's next tick is due
(`Period`) or, with `QuickDrain`, unless switched-off work has not ended.

There is one workload of each kind, as in the charts, so the loops of `ensure` have one
iteration each, and one agent per cluster (`strategy: Recreate`). A listing and the patch
that follows it are one step.

### Fencing

The lease moves at any time. Each process runs `check` (cached or asked), `fetch` (a long
poll, or a sweeper's connection) and `batch`; the constants bound how long a read, a
fetch and a unit of work take. The history variable `held` tells when each cluster last
held the lease, which is what the properties compare with.

### Orders

A request is a thread of `create_order` (`Insert`, `Commit`, `Publish`, `Reply`, and
`Unavailable`/`Drop` for the errors and crashes, the commit with an unknown outcome
included); several requests may carry the same key. The unique index makes an insert wait for an
uncommitted one. The queue is a bounded set of messages with receive counts; `Reappear`
and `Redrive` are SQS. A worker takes batches (`Receive`, `Fulfil`, `Retry`, `Delete`,
`Crash`); receipts carry the receive count, so a delete with an old receipt may be
ignored. A sweeper job claims its slot (`Claim` waits for uncommitted claims), re-publishes
what is in `Stuck` (the `Limit` oldest of the orders in `aged` that are still pending) inside
the open transaction and commits (`CommitRun`) or fails (`FailRun`), where the
messages are out and the claim is not. Workers and jobs run whatever the lease
says: exactly-once effects must not depend on it.

### Switchover

A WAL position is the set of writes up to it. `replica`, `demotionToken`, `mode`, `log`
and `archive` are the Clusters: `Demote`, `Demoted`, `Archive`, `Replay`, `Promote` are
CloudNativePG, modelled from what `database.py` and the chart rely on (external). The
engine's run is one action per remote call: check of the roles (`Start`), `PatchSource`,
`ReadToken`, `PatchTarget`, `SeePromoted`, `PointDns`, `Annotate` (the secrets of the two
clusters, in the order of `COLORS`, one call each); `Stop` ends a run
anywhere (timeout, API error, crash). Runs overlap as they like, in both directions: the check
of the roles is all that `Start` looks at. Two history variables tell what befell a run:
`overtaken` holds the runs since whose start one in the other direction began, and `crossed` the
places where that befell a run with a patch still to make. A refused command, a read or
a write the database refuses changes nothing and has no action.

### Traffic and Migration

`Traffic` has the actions of a shift: `SetStep`, `Look` (one poll: CloudWatch answers
within what the health and load of the service allow, `tg_stats`), `RollBack`, `NextStep`,
`NextService`, `Completed`. `evaluate` is the code's decision with its strict and
non-strict limits. `Migration` adds the pipeline's commands with their outcomes, and
between two migrations the operator's commands (`TrafficSet`, `SwitchoverByHand`,
`HandoffByHand`, `Fix`). Lease and database appear with their outcomes only (`Lease` and
`Switchover` have the detail): a switchover succeeds, dies before its first patch, after
the demotion, or after the promotion; a handoff is granted some time later.

### Verify and Evidence

`Verify` has `date_bin`, the window with its grace slots, `missed_slots`, the windows of the
consumers and `overlap_seconds`, as sets of times. `Evidence` produces what they are applied
to. The CronJob controllers are external, modelled with what the chart sets: `Fire` creates a
job at a schedule that is not older than `Deadline` (`startingDeadlineSeconds`), once, and not
beside another one (`Forbid`). `RunJob` is `sweeper.py`: a job takes the slot it *runs* in, and
writes `fenced`, `duplicate-skipped` or `ran`. In `RunUnread` the holder's job cannot read the
lease and is fenced all the same (`holds_lease` fails closed); in `JobFails` a call of the database or of
the queue fails, in the job and in its one retry, and it leaves no row. The lease moves as in `Lease`, seen from outside:
`Drain` and, any time later, `HandOver`, or `TakeOver` from a dead agent, whose switches go off later
(`SwitchOffLate`). The history variables `failed`, `unread` and `stalled` are the slots in which a job died,
in which the lease could not be read, and in which a handoff that began before them was still going on
when it was too late for their job (`Leeway`). `Process` is an order that a worker applies, at most `Fence` after its
cluster lost the lease (`Bound` of `Fencing`).

### Shadow

A path is asked with `Fetch` (source, source, target), in between users `Write`; `Judge` is
`compare` on the three answers, bodies flattened as the code does; `FetchFails` is any of the exceptions
it counts as an error. Each answer of either cluster is a page (200) or an error (404, 500), and the
target's page may leave fields out or get them wrong. The
ratio is computed in units of the fourth decimal, as `round(…, 4)` leaves it. `stable` is a history
variable: the fields nobody wrote since the path's first, and since its second, answer.

### Planner

An object is a record of what the classification looks at. `classify` and `classify_pod_owner`
are the code's cascades, `Planned` the loop's choice of objects. The actions plan some
namespaces, of which the API lists the kinds in `Listed`, or the manifests of everything;
`ensured` is what the lease agent switches off.

## 3. The runs

| run | cfg | asks | distinct states |
|---|---|---|---|
| `lease_core` | `LeaseCore` | what the lease guarantees with failing, crashing, dawdling agents and jobs that are listed late | 1.6 M |
| `lease_prompt` | `LeasePrompt` | one cluster on, one cluster working, the refinement of `Singleton`, with prompt agents and skewed clocks | 1.1 M |
| `lease_live` | `LeaseLive` | a wish that settles is granted, even if the holder's agent is gone for good | 0.5 M |
| `lease_long_drain` | `LeaseLongDrain` | *violated*: exclusive work when a drain outlasts the TTL | |
| `fencing` | `Fencing` | how late work can start after the lease has gone | 1.7 M |
| `orders_safe` | `OrdersSafe` | one row per key, one effect per order, one run per slot, no event before its row | 0.8 M |
| `orders_live` | `OrdersLive` | the refinement of `OrderLife`, with its liveness: also the order behind a sweep's limit is fulfilled | 0.3 M |
| `switchover` | `SwitchoverMove` | one writer, no lost write, true announcements, the refinement of `Store`, the pause ends | 0.4 M |
| `switchover_stuck` | `SwitchoverStuck` | *violated*: a switchover can always be run in one direction | |
| `migration` | `Migration` | the gate, the data after the traffic, reversibility, and that every migration ends | 0.4 M |
| `migration_retry` | `MigrationRetry` | *violated*: a breach puts all traffic back | |
| `tools` | `Tools` | the tools around a migration tell the truth, see below | 1.3 M |

The run `tools` is a choice, in the initial state (`tool`), of four parts that have nothing to do
with each other. Their states add up and do not multiply, and each part fires its own actions.

* *slots*: `SlotsAreRun`. Wherever the lease goes, `cm verify` misses no slot of a load test,
  whenever that began and ended, but for four reasons, which the property names slot by slot. The slot's
  own job died. It was fenced because it could not read the lease. A lease had expired: the job of the
  cluster that lost it is fenced, which uses its schedule up, and the new holder's CronJob may have been
  switched on too late for it; `sweeper_runs` says `fenced` for each slot that is missed for the second or
  third reason. Or a handoff that began before the slot, and so had switched the CronJob off, was still
  going on when a job would have been refused, or too late to run in the slot. Every other handoff,
  however it falls, costs none, and a fault costs no slot but its own.
* *orders*: `OverlapIsTold`. After one move of the lease `overlap_seconds` is at most what the fence
  allows, and two clusters that take turns are always reported. The property stops where
  the tool does: after a move there and back the windows of the clusters overlap although
  their work did not, and a single stray order within the other's window has an overlap of zero.
* *shadow*: `MismatchIsReal`, `FlawIsSeen`, `GateIsSound`. A mismatch means that the source answered
  twice with one status, and the target with another one or, all three being pages, that there is a flaw
  of the target or a write after the source's second answer. A match means that all three had one
  status and, when they are pages, hides no flaw in a field that has a value and did not change. So a
  source that fails twice beside a healthy target is a mismatch, and three equal errors are a match:
  `compare` judges the target by the source, whatever that says. The gate passes only with enough samples, and within half a unit of the
  fourth decimal of the limit.
* *plan*: `PlanIsSound`. What the agent switches off is planned as a lease handoff (but for
  ClusterMotion's own components and the platform's Deployments, which the cascade takes first), and what stands
  in one namespace changes nothing in another. The converse of the first part does not hold: a
  Deployment labelled a singleton that has no ScaledObject is planned as paused outside the
  lease holder, and no agent pauses it. The charts have no such workload.

### Bounds, and why they are enough

* **Lease.** Two clusters is the system. `lease_core`: TTL 1 and an agent that may take three
  units per tick, longer than the clock runs, so an agent can be overtaken by an expiry at
  any call; one init, two handoffs (there and back), one failure. No promptness at all is
  assumed there. Commands and failures happen up to `Quiet` = 1, expiries up to time 2.
  `lease_prompt`: TTL 3, period 1, green's clock a unit ahead; 2·Period + Skew ≤ TTL
  is exactly what the properties need (with TTL 2 TLC finds two clusters switched on). In
  the deployment the TTL is 30 s, the interval 5 s. `lease_live`: the clock runs
  two units past the last command and failure, which is an expiry and a tick.
* **Fencing.** One worker with batches of two and one sweeper in different clusters; seven
  units let an answer age through read, cache, fetch and batch while the lease moves away,
  back and away again.
* **Orders.** `orders_safe` has one key and two requests: a client's retry meets its first
  attempt anywhere. `orders_live` has two orders, and a sweep takes one of them (`Limit` = 1),
  which is the smallest instance in which the younger waits for the older.
  Two workers, two jobs, two messages, a receive count of two; two slots that are
  reused, because a job (at most 100 s) ends before the second slot after its own begins.
  One fault in any place; TLC covers each single failure at every point, not pairs of them.
  `orders_live` has one worker and one job, since fairness already allows either cluster's.
* **Switchover.** Three runs from two places in both directions, overlapping or not, one of them
  stopped anywhere, one write besides the base backup, one pod, one `cm db point`: a switchover, its
  switchback and the way there again, with what an earlier one left (old promotion token,
  run that timed out but took effect). The proofs remove these bounds.
* **Migration.** Two services with two steps of two polls each, every health and load of
  them, reports exactly at the limits of the SLO and just beyond; two migrations in any
  direction, commands by hand between them, one failure.
* **Tools.** *slots*: slots of six units with a deadline of four
  and a job of one unit (a unit is 20 s of the chart's 120 s and 90 s), over three slots, two
  moves and one fault; handoffs as long as they like. Each of the four reasons does cost a slot in this
  instance: without any one of them in the property TLC finds it violated. *orders*: six units, four orders and two moves, which is what
  taking turns twice needs. *shadow*: three fields, of which one is noise, and one path after
  the counts of a replay that is one sample short, or at the gate's limit. *plan*: every
  subset of nine objects of one name in two namespaces, beside those that are always there.

Deadlock is not checked in any of them: counters that are used up, and orders that are all
fulfilled, rightly end a behaviour.

### Fairness

* `Lease`: an agent whose pod runs keeps ticking (`run` loops, remote calls return or
  raise), Kubernetes records what it started and ends what is switched off (jobs have an
  active deadline, pods a grace period), and time passes. `Restart` is *not* fair: the dead agent may
  stay dead.
* `Orders`: workers finish what they received, *some* worker receives and *some* job
  starts in the cluster that holds the lease (`WishIsGranted` is why there is one), SQS
  makes messages visible again, schedules and ages go on. Requests, failures and crashes are not fair.
* `Switchover`: CloudNativePG and the engine keep polling; pooled connections are renewed
  (`max_lifetime`, or the error that closes them). Writes, stops and `cm db point` are not.
* `Migration`: the running command goes on, and agents move the lease (again
  `WishIsGranted`). Whether a command fails, what CloudWatch reports and what the operator
  answers is left open.

`tools` has safety properties only.

### Where the code and its documents differ

Three are runs with the expected result *violation*, and quoted in PROJECT.json.

1. `lease_long_drain`: a draining holder does not renew its lease, so a drain that takes
   longer than the TTL of 30 s (a sweeper job may take 100 s, a pod 60 s to terminate) lets
   the target acquire it and work beside it, without any failure. `docs/02-services.md`
   says concurrent execution is prevented in normal operation. Orders stay correct:
   that is what `orders_safe` shows without using the lease.
2. `switchover_stuck`: after a run that ended between the two patches, neither Cluster
   is named the primary and both directions are refused; the documents give the
   opposite switchover as the rollback.
3. `migration_retry`: a breach of the second service leaves the first one on the target,
   where the runbook says that traffic is back on blue and the migration can be retried.

One more needs no run: the guard's answer is up to five seconds old and serves a whole batch,
where its comment and `docs/02-services.md` say that every unit of work asks whether the
lease is held. `StartsAreRecent` states, and `WorkStartsInTime` proves, what holds instead: no
unit starts later than `Bound` after the lease has gone.

On another point the documents are silent: none says that a switchover is run alone, and nothing
locks the database. Two switchovers in *opposite* directions can pass the check of the
roles while one of them goes on.

* Once the target is patched, a run in the other direction may begin while the first one still waits, or points DNS.
  The first one looks at nothing again, and announces a cluster that is being demoted.
  `AnnouncedIsWritable` is therefore about runs that were not overtaken. When the first run is the slower
  one, DNS stays at the demoted cluster until somebody points it back.
* A run that stalls between its check of the roles and its last patch, while another one to the same
  target finishes and a third one in the other direction begins, may demote or promote a cluster in the wrong
  state: TLC finds two writers when the premise `Apart` (`crossed` is empty) is left out of
  `OneWriter`. It takes three runs and some twenty steps, and nothing in the repository says that it
  cannot happen, nor that it must not; so it is a premise here and no run of its own.

## 4. The proofs

TLAPS checks every step of `LeaseProofs`, `FencingProofs`, `OrdersProofs`, `SwitchoverProofs`,
`MigrationProofs`, `EvidenceProofs`, `ShadowProofs` and `PlannerProofs`, for all sets of clusters,
processes, requests, keys, workers, jobs, pods, engines, writes, services, fields and objects, and all
values of the other constants that satisfy the named assumptions. Every safety property of every passing
run is the conclusion of a theorem.

**Lease.** `TypeCorrect`. `ClaimsAreJustified` is inductive with the types: an agent
enters a claim only by the decision to acquire, and until its write its snapshot does not change
while its clock does not go back. `LiveLeasesAreKept` follows: an acquire that takes
the lease from c matched the holder and the renewal time of its snapshot, so what justified the
claim is still true of the item. `UninitialisedStaysFree`: the missing holder equals
nothing an agent has read. `DrainsStayOff` says that the switches stay off from their patch
to the release, and `ReleasesAreSwitchedOff` follows, as only a release frees the
lease. `ListingsStayTrue` adds that what a listing found done stays done while the switches
are off, from which `ReleasesAreDrained`: a lease is given up only when the cluster's work has
ended, except for work that existed before it could be listed (`Lag`). None of these needs promptness: they hold for agents as slow as one likes.

**Lease, with prompt agents.** That singletons are on only where the lease is, is a matter of time,
and has premises:

* `TimesFit`: 2·Period + Skew ≤ TTL in every cluster. A holder that renewed in one tick
  renews again at most two periods later, and until then nobody's clock may call the lease expired.
* `Undisturbed`: nothing failed or crashed so far and `cm lease init` ran at most once. The theorems say
  what holds *until then*: they are about states, not about behaviours without faults. What holds after
  a fault is the first group of theorems; a second init may give the lease away from under its holder.
* for the work itself, `QuickDrain` and no `Lag`: what is switched off ends before time goes on, and
  what exists is listed. Without the first the property is false (`lease_long_drain`).

`TicksArePunctual` and `SwitchesGoOffInTurn` (a tick switches the cron job off before the scaled object,
and both before it acquires) are inductive with the types. `FreshWhileOn` is the heart: a cluster with
anything switched on, or about to be, holds the lease, and renewed it in its current tick or in the one
before (`EngagedIsHolder`, from the lemmas `AcquireCondition` and `FreshIsKept`). So an
acquire by another one would need an expiry that `TimesFit` rules out.
From it `HoldersAreOn`. `WorkIsHeld` says the same of the work that is left: it is at the holder, which
renewed at most two periods ago (`WorkStaysExclusive`). `SingletonsAreHandedOver` is the refinement of `Singleton`: each
step switches on where all was off, switches off, or changes nothing that is seen. It holds of whole
behaviours, so its premises are `MaxFails` = 0 and `MaxInits` ≤ 1 instead of `Undisturbed`.

**Fencing.** `AnswersAreRecent` relates every stage of a process to the last time its cluster held
the lease. It is inductive with the types and `StagesAreBounded` (no stage is older than its
constant allows); `WorkStartsInTime` adds the stages up to `Bound`.

**Orders.** The types are inductive only with `Known`: a message that is in the queue is about a
request, an aged key and an answered request have a row. Three invariants carry the rest.

* `RowsAreOwned`: a row belongs to the key of the request that inserted it, and of the requests
  with one key at most one has an insert that is not yet committed, and then there is no row. With it a
  row is never replaced, so what a client was told stays true (`AnswersAreStored`), however often a
  commit took effect and was reported as failed.
* `MessagesAreCommitted`: whatever is in the queue, in a batch, in the dead-letter queue or on a
  job's list has a row, and so has what a request is about to publish (`MessagesFollowCommits`).
* `SlotsAreClaimed`: a job that sweeps holds the only claim of its slot, and the slot
  has no row `ran` (`OneRunPerSlot`).

`OneEffectPerOrder` needs `RowsAreOwned` too. `OrdersLiveOnce` is the refinement: the initial
states and every step of `Orders` are those of `OrderLife`, or stutter. Its fairness is left to
TLC. All of this is proved without a word about the lease, for any number of faults.

**Migration.** `ShiftInv` says where the weights are at every stage: before the shift all at the
source, during it the services before the current one at the last step and those after it
untouched, the current one at its step or back; and which services a look at the end of a
hold has cleared. `DataInv` says that database and lease follow only after that.
`ServicesMoveInTurn`, `SickServicesStaySmall`, `SickServicesStayBehind`, `SuccessIsReversible` and
`StopIsUndone` follow, for any list of services and steps, any number of migrations
and any commands by hand between them. Their assumptions are those of the configuration: each service
once in the list, steps in percent of which the last is 100 (`LastStepIsAll`), two clusters. The two
theorems about a sick service have the premise `SickIsSeen`: a hold lasts some time, so that it
ends with a look, and what CloudWatch reports of a sick target fails against any
report of a healthy source. Without it the gate has nothing to see.

**Switchover.** `OneWriter` and `NoWriteLost` are not inductive: nothing in them keeps a
Cluster with an old token from being promoted. The invariant `Handover` adds what the
patches rely on:

* `NamedIsQuiet`: if a spec names its own Cluster the primary, the other spec does not and the
  other PostgreSQL neither accepts nor finishes writes;
* `ActiveIsComplete`: who accepts (or is finishing) writes has every confirmed one and no old
  demotion token;
* `NamedIsComplete`: who is named the primary has everything, or waits for a token that is
  everything;
* `TokenIsFresh`: a token left in a status is complete, or the other Cluster is;
* `RunsAgree`, `RunIsSafe`: a run in the other direction than one that still has patches to make was
  overtaken after its own patches, and at each step of a run the source is where the step assumes it.

Their conjunction is `InOrder`, and `Handover` says that it holds as long as the runs stay `Apart`.
`HandoverIsSafe` proves `Handover` inductive, one step per action; `NoSplitBrain`, `ZeroDataLoss`,
`AnnouncementsAreTrue` and the refinement `DatabasesAreOneStore` follow from it, for any
number of switchovers, stops and crashes, under the same premise. `AnnouncementsAreTrue` is about
runs that were not overtaken, since the others' announcements can be false.

**Assumptions of the switchover proofs.** `ClearsToken`: CloudNativePG clears
`status.demotionToken` when it promotes. If it did not, the wait of a later switchover would
return the old token at once; with `ClearsToken = FALSE` TLC finds two writers. `Apart`: no run
that still has a patch to make is overtaken by one in the other direction. It is no assumption on the
model, where runs start whenever the check of the roles lets them, but the premise of each property: what
they say holds up to the moment at which that happens. The merge patch keeps the promotion token of an earlier switchover, as the API does.

**Evidence.** `NoSlotIsMissed` rests on `SlotsAreCared`: every slot that is over is done (a row `ran`, or one
of the four excuses of `SlotsAreRun`), and of the slot there is, one of four things holds: it is done; a job is active
that will run before the slot ends; the holder's CronJob is due; or a handoff goes on that began
before the slot did and may still end within the leeway of its job. Time moves into the next slot only from
the first of them (`TicksCare`): an active job runs or dies, a due one is created, and a handoff that
goes on past the leeway makes the slot one of `stalled`. Nothing is assumed of the length of
handoffs; `JobsAreShort` says that a job created at the beginning of a slot ends in it
(`activeDeadlineSeconds` of 100 in a slot of 120). The theorem's premise `Grace` > 0 is `reconcile`'s default of
one slot, which no caller changes; without it the slot that still goes on would count as
missed. `OverlapIsReported` needs no such premise: until the lease moves twice, what the first
cluster processed is no later than the fence after its loss, and what the second one processed no
earlier (`OrdersInv`); and the greatest of the overlaps exists because all times lie between zero
and now (`Least`, `Greatest`, from the well-foundedness of the natural numbers).

**Shadow.** `AnswersAgree` is inductive with the types: the source's answers have what the data has
now in every field that nobody wrote since, the noisy fields are different in each, and the target's
page is the data but for its flaws; any answer may be an error instead. `VerdictsAreFair` reads `compare` against it, from which
`MismatchesAreReal` and `FlawsAreSeen`. `GateDecidesRight` is arithmetic (`Rounding`) and the fact that the
gate comes last. They hold for every replay that `Begins` with a number of verdicts that is
not above `--max-requests`, so for one that begins with none. They assume that the data never has the value a flaw shows
(`NullIsNoText`): a wrong value that is right by chance is no flaw.

**Planner.** `PlansAreOfTheCluster`: the items of every plan are those of its objects, classified among
*all* objects of the cluster. This is so because `classify` looks only at listed kinds beside the object
(`ClassifyLooksBeside`), and a plan of a namespace has all of those. Both parts of `PlanIsSound` follow,
for every cluster and all namespaces asked for.

**Only model-checked.** Liveness under fairness, which is beyond the prover: `WishIsGranted`, the fairness
of `ExactlyOnce` (its safety is `OrdersLiveOnce`), `WritesResume` and `MigrationEnds`.

## 5. What is not modelled

* In `Orders`, the rows that record what did not happen (`applied = false`; `fenced` and
  `duplicate-skipped` are in `Evidence`) and malformed messages.
* In `Switchover`, `status` failing on an unreachable Cluster, and the health check of the target:
  both only refuse a start.
* In `Migration`, the Argo workflow's retries and its report after a step that died, steps that are no
  percentages, a hold of zero, and the exact share of requests a small step gives: a service that
  `Judged` speaks of gets enough requests for a verdict by the end of every hold.
* `cm traffic set` *during* a shift. Nothing locks the weights: weights that are set back to the
  source during a hold starve the target of requests, `evaluate` calls that inconclusive and goes
  on, and the next step raises a target that was never judged. `SickStaysSmall` does not hold then, so
  the model, and its theorem, are about shifts that nobody interferes with.
* In `Evidence`, the retry of a failed pod as a step of its own (`backoffLimit`: it is part of how long a
  job takes, or of its failure; a retried claim is in `Orders`) and clocks that differ between the controllers.
* In `Verify`, `max_gap`, `id_mismatch`, `lost_writes` and the other queries about single
  orders. The first is a fold over a sorted list, the others state the invariants of `Orders` again.
* In `Shadow`, the choice of paths from the load balancer's logs, and lists in a body, which the code
  flattens by position like fields.
* In `Planner`, the reasons, the estimated downtime and the rendering.
* `events.py` is telemetry that never fails a command; the catalog service answers from a constant list.
* Terraform, Ansible, charts and scripts are declarative or run outside the system; what
  they configure (receive limits, deadlines, one agent per cluster, singletons created
  switched off) is in the constants and initial states.

## 6. Plan

What is left, in the order of what it is worth:

1. *Switchovers that cross*: a condition weaker than `Apart` under which `OneWriter` still holds, and
   what an operator finds after it failed.
2. *Interference with a shift*: `cm traffic set` and a second migration during a hold, with what the
   gate then still guarantees.
3. *Composition*: `Orders` with the guard of `Fencing`, to state how many duplicate deliveries a
   handoff costs.
