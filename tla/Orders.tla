------------------------------- MODULE Orders -------------------------------
(***************************************************************************)
(* The path of an order: orders-svc stores it once per idempotency key and *)
(* publishes it (services/orders/app/main.py), the fulfillment worker      *)
(* consumes the SQS queue (services/fulfillment/worker/main.py), and the   *)
(* order sweeper re-publishes what is stuck (services/orders/app/          *)
(* sweeper.py).  PostgreSQL transactions are atomic; a commit may take     *)
(* effect and still be reported as failed.  SQS delivers at least once.    *)
(*                                                                         *)
(* Workers and sweeper jobs of both clusters run side by side whatever the *)
(* lease says: this is the layer that must hold when the lease does not.   *)
(*                                                                         *)
(* An order's UUID is the name of the request that created it.             *)
(***************************************************************************)
EXTENDS Naturals, Sequences, FiniteSets

CONSTANTS
    Key,          \* idempotency keys
    Request,      \* POST /api/orders requests, retries included
    KeyOf,        \* the key each request carries
    Worker,       \* fulfillment worker pods, of either cluster
    Job,          \* sweeper pods, of either cluster
    Message,      \* bound on the messages in the queue
    NoRow,        \* no row for a key
    BatchSize,    \* MaxNumberOfMessages of one receive
    MaxReceive,   \* the queue's maxReceiveCount
    Limit,        \* orders a sweeper run re-publishes at most
    MaxFaults     \* bound on errors and crashes

ASSUME KeyOfIsTotal == KeyOf \in [Request -> Key]
ASSUME NoRowIsNone ==
    NoRow \notin Request /\ NoRow \notin [id : Request, status : {"PENDING", "FULFILLED"}]
ASSUME SizesArePositive ==
    BatchSize \in Nat \ {0} /\ MaxReceive \in Nat \ {0} /\ Limit \in Nat \ {0}
ASSUME FaultsAreBounded == MaxFaults \in Nat

VARIABLES
    row,          \* the committed row of each key in table orders
    effects,      \* rows with applied = true in fulfillment_log, per order
    pc,           \* where each request is in create_order
    confirmed,    \* the answers clients got, as <<key, order>>
    queue,        \* the SQS queue
    dlq,          \* orders whose message was moved to the dead-letter queue
    worker,       \* the loop of each worker
    slot, ran,    \* the schedule slot, and rows with outcome 'ran' per slot
    job,          \* the run of each sweeper pod
    aged,         \* keys whose order is older than STALE_SECONDS, the oldest first
    faults

vars == <<row, effects, pc, confirmed, queue, dlq, worker, slot, ran, job, aged, faults>>

dbVars == <<row, effects, aged>>
apiVars == <<pc, confirmed>>
sqsVars == <<queue, dlq>>
runVars == <<slot, ran, job>>
----------------------------------------------------------------------------
\* A sweeper job ends well before the second slot after its own begins
\* (activeDeadlineSeconds 100, slots of 120 s), so two slots are told apart.
Slot == {0, 1}

Row == [id : Request, status : {"PENDING", "FULFILLED"}]
Free == [order |-> NoRow, count |-> 0, visible |-> FALSE]
Idle == [batch |-> {}, done |-> {}]
Asleep == [at |-> "asleep", slot |-> 0, todo |-> {}]

Fault == faults < MaxFaults /\ faults' = faults + 1
NoFault == UNCHANGED faults

Held(m) == \E w \in Worker : \E e \in worker[w].batch \cup worker[w].done : e.msg = m

\* sqs.send_message: a slot of the bounded queue no worker still refers to.
Send(order) ==
    \E m \in Message :
        /\ queue[m] = Free /\ ~Held(m)
        /\ queue' = [queue EXCEPT ![m] = [order |-> order, count |-> 0, visible |-> TRUE]]
----------------------------------------------------------------------------
(* orders-svc: create_order. *)

Answer(r, to) == pc' = [pc EXCEPT ![r] = to]

\* The uncommitted insert of another request holds the key's unique index entry.
Inserting(k) == \E r \in Request : KeyOf[r] = k /\ pc[r] = "created"

\* INSERT ... ON CONFLICT DO NOTHING, and the SELECT of a replay.
Insert(r) ==
    /\ pc[r] = "new" /\ ~Inserting(KeyOf[r])
    /\ Answer(r, IF row[KeyOf[r]] = NoRow THEN "created" ELSE "replayed")
    /\ NoFault
    /\ UNCHANGED <<dbVars, confirmed, sqsVars, worker, runVars>>

Stored(r) == [row EXCEPT ![KeyOf[r]] = [id |-> r, status |-> "PENDING"]]

\* The commit at the end of `with pool.connection()`.
Commit(r) ==
    /\ pc[r] = "created"
    /\ row' = Stored(r) /\ Answer(r, "publish") /\ NoFault
    /\ UNCHANGED <<effects, aged, confirmed, sqsVars, worker, runVars>>

\* OperationalError, ReadOnlySqlTransaction or PoolTimeout before the commit, at
\* the commit, or after the server committed: the client gets 503 each time, and
\* nothing is published.
Unavailable(r) ==
    /\ pc[r] \in {"new", "created", "replayed"} /\ Answer(r, "failed") /\ Fault
    /\ row' = row \/ (pc[r] = "created" /\ row' = Stored(r))
    /\ UNCHANGED <<effects, aged, confirmed, sqsVars, worker, runVars>>

\* The event is published only after the commit (slip: inside the transaction).
publishableEarly(r) == pc[r] \in {"created", "publish"}
publishable(r) == pc[r] = "publish"

\* _publish: a failure is logged and swallowed.
Publish(r) ==
    /\ publishable(r) /\ Answer(r, "reply")
    /\ \/ Send(r) /\ NoFault
       \/ Fault /\ UNCHANGED queue
    /\ UNCHANGED <<dbVars, confirmed, dlq, worker, runVars>>

\* The answer reaches the client; a replay carries the id of the stored row
\* (slip: the id the request generated).
answeredNew(r) == r
answered(r) == row[KeyOf[r]].id

Reply(r) ==
    /\ pc[r] \in {"reply", "replayed"} /\ Answer(r, "done") /\ NoFault
    /\ confirmed' = confirmed \cup {<<KeyOf[r], answered(r)>>}
    /\ UNCHANGED <<dbVars, sqsVars, worker, runVars>>

\* The pod dies, or the answer is lost: an open transaction is rolled back.
Drop(r) ==
    /\ pc[r] \in {"created", "publish", "reply", "replayed"}
    /\ Answer(r, "failed") /\ Fault
    /\ UNCHANGED <<dbVars, confirmed, sqsVars, worker, runVars>>
----------------------------------------------------------------------------
(* SQS. *)

\* The visibility timeout ends while a worker may still hold the message.
Reappear(m) ==
    /\ queue[m] # Free /\ ~queue[m].visible
    /\ queue' = [queue EXCEPT ![m].visible = TRUE]
    /\ UNCHANGED <<dbVars, apiVars, dlq, worker, runVars, faults>>

\* A message received too often is moved to the dead-letter queue.
Redrive(m) ==
    /\ queue[m] # Free /\ queue[m].visible /\ queue[m].count = MaxReceive
    /\ queue' = [queue EXCEPT ![m] = Free]
    /\ dlq' = dlq \cup {queue[m].order}
    /\ UNCHANGED <<dbVars, apiVars, worker, runVars, faults>>
----------------------------------------------------------------------------
(* The fulfillment worker. *)

SetWorker(w, v) == worker' = [worker EXCEPT ![w] = v]

\* maxReceiveCount (slip: without the redrive policy).
receivableAlways(m) == queue[m].visible
receivable(m) == queue[m].visible /\ queue[m].count < MaxReceive

\* One receive takes a batch; a receipt tells how often its message was received.
Receipt(m) == [msg |-> m, order |-> queue[m].order, count |-> queue[m].count + 1]

Receive(w) ==
    /\ worker[w] = Idle
    /\ \E batch \in SUBSET {m \in Message : receivable(m)} :
         /\ batch # {} /\ Cardinality(batch) <= BatchSize
         /\ queue' = [m \in Message |->
                        IF m \in batch
                        THEN [queue[m] EXCEPT !.count = @ + 1, !.visible = FALSE]
                        ELSE queue[m]]
         /\ SetWorker(w, [batch |-> {Receipt(m) : m \in batch}, done |-> {}])
    /\ UNCHANGED <<dbVars, apiVars, dlq, runVars, faults>>

\* WHERE id = order AND status = 'PENDING' (slip: without the status).
pendingAny(order) == row[KeyOf[order]] # NoRow /\ row[KeyOf[order]].id = order
pending(order) == row[KeyOf[order]] \in [id : {order}, status : {"PENDING"}]

\* The transaction of fulfil.
Apply(order) ==
    IF pending(order)
    THEN /\ row' = [row EXCEPT ![KeyOf[order]].status = "FULFILLED"]
         /\ effects' = [effects EXCEPT ![order] = @ + 1]
    ELSE UNCHANGED <<row, effects>>

Fulfil(w) ==
    /\ worker[w].done = {} /\ NoFault
    /\ \E e \in worker[w].batch :
         /\ Apply(e.order)
         /\ SetWorker(w, [batch |-> worker[w].batch \ {e}, done |-> {e}])
    /\ UNCHANGED <<aged, apiVars, sqsVars, runVars>>

\* ReadOnlySqlTransaction or OperationalError, the transaction committed or not:
\* the message is left to be delivered again.
Retry(w) ==
    /\ worker[w].done = {} /\ Fault
    /\ \E e \in worker[w].batch :
         /\ Apply(e.order) \/ UNCHANGED <<row, effects>>
         /\ SetWorker(w, [batch |-> worker[w].batch \ {e}, done |-> {}])
    /\ UNCHANGED <<aged, apiVars, sqsVars, runVars>>

\* delete_message; the receipt of a message received again since may be ignored.
Delete(w) ==
    /\ \E e \in worker[w].done :
         \/ queue' = [queue EXCEPT ![e.msg] = Free]
         \/ queue[e.msg] # Free /\ queue[e.msg].count # e.count /\ UNCHANGED queue
    /\ SetWorker(w, [worker[w] EXCEPT !.done = {}])
    /\ UNCHANGED <<dbVars, apiVars, dlq, runVars, faults>>

\* The pod dies, or an exception main() does not catch ends it.
Crash(w) ==
    /\ worker[w] # Idle /\ Fault
    /\ SetWorker(w, Idle)
    /\ UNCHANGED <<dbVars, apiVars, sqsVars, runVars>>
----------------------------------------------------------------------------
(* The order sweeper. *)

SetJob(j, v) == job' = [job EXCEPT ![j] = v]

\* A job whose cluster holds the lease; a fenced one only records that it was.
StartJob(j) ==
    /\ job[j].at = "asleep"
    /\ SetJob(j, [at |-> "claim", slot |-> slot, todo |-> {}])
    /\ UNCHANGED <<dbVars, apiVars, sqsVars, worker, slot, ran, faults>>

\* The partial unique index: a committed run takes the slot, and an uncommitted
\* claim makes others wait (slips: either is not there).
takenNever(s) == FALSE
taken(s) == ran[s] > 0
claimingNever(s) == FALSE
claiming(s) == \E j \in Job : job[j].at = "sweep" /\ job[j].slot = s

\* Pending for longer than STALE_SECONDS, and not too many (slip: what is fulfilled counts
\* for the limit).
open(i) == row[aged[i]].status = "PENDING"
olderAny(i) == {j \in 1..Len(aged) : j < i}
older(i) == {j \in 1..Len(aged) : j < i /\ open(j)}
Stuck ==
    {row[aged[i]].id : i \in {i \in 1..Len(aged) : open(i) /\ Cardinality(older(i)) < Limit}}

Claim(j) ==
    /\ job[j].at = "claim" /\ ~claiming(job[j].slot)
    /\ SetJob(j, IF taken(job[j].slot) THEN Asleep
                 ELSE [job[j] EXCEPT !.at = "sweep", !.todo = Stuck])
    /\ UNCHANGED <<dbVars, apiVars, sqsVars, worker, slot, ran, faults>>

Republish(j) ==
    /\ \E order \in job[j].todo :
         Send(order) /\ SetJob(j, [job[j] EXCEPT !.todo = @ \ {order}])
    /\ UNCHANGED <<dbVars, apiVars, dlq, worker, slot, ran, faults>>

Ran(j) == [ran EXCEPT ![job[j].slot] = @ + 1]

CommitRun(j) ==
    /\ job[j].at = "sweep" /\ job[j].todo = {}
    /\ ran' = Ran(j) /\ SetJob(j, Asleep)
    /\ UNCHANGED <<dbVars, apiVars, sqsVars, worker, slot, faults>>

\* An error or a crash rolls the claim back, not the messages; an error at the
\* commit may hide that it took effect.
FailRun(j) ==
    /\ job[j].at # "asleep" /\ Fault /\ SetJob(j, Asleep)
    /\ ran' = ran \/ (job[j].at = "sweep" /\ job[j].todo = {} /\ ran' = Ran(j))
    /\ UNCHANGED <<dbVars, apiVars, sqsVars, worker, slot>>

\* The schedule moves on, and order k has been pending for STALE_SECONDS.
NextSlot ==
    /\ \A j \in Job : job[j].at = "asleep" \/ job[j].slot = slot
    /\ slot' = 1 - slot /\ ran' = [ran EXCEPT ![1 - slot] = 0]
    /\ UNCHANGED <<dbVars, apiVars, sqsVars, worker, job, faults>>

Age(k) ==
    /\ row[k] # NoRow /\ row[k].status = "PENDING" /\ \A i \in 1..Len(aged) : aged[i] # k
    /\ aged' = Append(aged, k)
    /\ UNCHANGED <<row, effects, apiVars, sqsVars, worker, runVars, faults>>
----------------------------------------------------------------------------
Init ==
    /\ row = [k \in Key |-> NoRow] /\ effects = [r \in Request |-> 0] /\ aged = <<>>
    /\ pc = [r \in Request |-> "new"] /\ confirmed = {}
    /\ queue = [m \in Message |-> Free] /\ dlq = {}
    /\ worker = [w \in Worker |-> Idle]
    /\ slot = 0 /\ ran = [s \in Slot |-> 0] /\ job = [j \in Job |-> Asleep]
    /\ faults = 0

Next ==
    \/ \E r \in Request : \/ Insert(r) \/ Commit(r) \/ Unavailable(r)
                          \/ Publish(r) \/ Reply(r) \/ Drop(r)
    \/ \E m \in Message : Reappear(m) \/ Redrive(m)
    \/ \E w \in Worker : Receive(w) \/ Fulfil(w) \/ Retry(w) \/ Delete(w) \/ Crash(w)
    \/ \E j \in Job : StartJob(j) \/ Claim(j) \/ Republish(j) \/ CommitRun(j) \/ FailRun(j)
    \/ NextSlot
    \/ \E k \in Key : Age(k)

Spec == Init /\ [][Next]_vars

\* Faults end; some cluster holds the lease, so some worker receives and some
\* job starts; SQS makes messages visible again and time passes.
Fairness ==
    /\ \A w \in Worker : WF_vars(Fulfil(w)) /\ WF_vars(Delete(w))
    /\ WF_vars(\E w \in Worker : Receive(w))
    /\ \A j \in Job : WF_vars(Claim(j)) /\ WF_vars(Republish(j)) /\ WF_vars(CommitRun(j))
    /\ WF_vars(\E j \in Job : StartJob(j))
    /\ \A m \in Message : WF_vars(Reappear(m)) /\ WF_vars(Redrive(m))
    /\ WF_vars(NextSlot) /\ \A k \in Key : WF_vars(Age(k))

FairSpec == Spec /\ Fairness
----------------------------------------------------------------------------
\* Every variable stays in its range.
TypeOK ==
    /\ row \in [Key -> Row \cup {NoRow}]
    /\ effects \in [Request -> Nat]
    /\ pc \in [Request -> {"new", "created", "replayed", "publish", "reply", "done", "failed"}]
    /\ confirmed \subseteq Key \X Request
    /\ queue \in [Message -> [order : Request \cup {NoRow}, count : 0..MaxReceive,
                              visible : BOOLEAN]]
    /\ dlq \subseteq Request
    /\ LET Receipts == SUBSET [msg : Message, order : Request, count : Nat]
       IN  worker \in [Worker -> [batch : Receipts, done : Receipts]]
    /\ slot \in Slot /\ ran \in [Slot -> Nat]
    /\ job \in [Job -> [at : {"asleep", "claim", "sweep"}, slot : Slot, todo : SUBSET Request]]
    /\ aged \in Seq(Key) /\ faults \in 0..MaxFaults

\* A client that was told an order id finds that order under its key, whichever
\* of its retries was answered (verify: lost_writes, id_mismatch).
ConfirmedIsStored ==
    \A c \in confirmed : row[c[1]] # NoRow /\ row[c[1]].id = c[2]

\* A message, wherever it is, is about a committed order: an event is never ahead
\* of its row, so no delivery is wasted on an order that does not exist yet.
MessageIsCommitted ==
    LET carried == {queue[m].order : m \in {m \in Message : queue[m] # Free}} \cup dlq
                     \cup {e.order : e \in UNION {worker[w].batch \cup worker[w].done : w \in Worker}}
    IN  \A order \in carried : row[KeyOf[order]] # NoRow /\ row[KeyOf[order]].id = order

\* One applied attempt per fulfilled order and none before (double_fulfilled).
OneEffect ==
    \A r \in Request :
        effects[r] = IF row[KeyOf[r]] \in [id : {r}, status : {"FULFILLED"}] THEN 1 ELSE 0

\* At most one attempt runs a slot, crashed and retried jobs included.
RunsAreUnique == \A s \in Slot : ran[s] <= 1

\* Exactly-once effect and fulfilment of whatever was accepted.
Life == INSTANCE OrderLife WITH
            status <- [k \in Key |-> IF row[k] = NoRow THEN "none" ELSE row[k].status],
            effects <- [k \in Key |-> IF row[k] = NoRow THEN 0 ELSE effects[row[k].id]]
ExactlyOnce == Life!Spec
=============================================================================
