---------------------------- MODULE OrdersProofs ----------------------------
(* Theorems about the path of an order, for any number of clients, workers, jobs and
   faults. *)
EXTENDS Orders, TLAPS

\* What is referred to is there: a message has an order, and the key of a request that
\* was answered by the database, or of an order that has grown old, has a row.
Known ==
    /\ \A m \in Message : queue[m] = Free \/ queue[m].order \in Request
    /\ \A i \in 1..Len(aged) : row[aged[i]] # NoRow
    /\ \A r \in Request : pc[r] \in {"replayed", "publish", "reply"} => row[KeyOf[r]] # NoRow

Places == [order : Request \cup {NoRow}, count : 0..MaxReceive, visible : BOOLEAN]

\* Rows are records, and only those of a key without one are new.
LEMMA StoredType ==
    ASSUME TypeOK, NEW r \in Request
    PROVE  /\ Stored(r) \in [Key -> Row \cup {NoRow}]
           /\ \A k \in Key : row[k] # NoRow => Stored(r)[k] # NoRow
           /\ Stored(r)[KeyOf[r]] = [id |-> r, status |-> "PENDING"]
           /\ Stored(r)[KeyOf[r]] # NoRow
  <1>1. [id |-> r, status |-> "PENDING"] \in Row
    BY DEF Row
  <1>2. [id |-> r, status |-> "PENDING"] # NoRow
    BY <1>1, NoRowIsNone DEF Row
  <1> QED BY <1>1, <1>2, KeyOfIsTotal DEF TypeOK, Stored

\* The transaction of fulfil keeps the types and the rows.
LEMMA ApplyType ==
    ASSUME TypeOK, NEW order \in Request, Apply(order)
    PROVE  /\ row' \in [Key -> Row \cup {NoRow}] /\ effects' \in [Request -> Nat]
           /\ \A k \in Key : row[k] # NoRow => row'[k] # NoRow
  <1>1. CASE pending(order)
    <2>1. row[KeyOf[order]] \in Row /\ KeyOf[order] \in Key
      BY <1>1, KeyOfIsTotal DEF pending, Row
    <2>2. [row[KeyOf[order]] EXCEPT !.status = "FULFILLED"] \in Row
      BY <2>1 DEF Row
    <2>3. /\ row' = [row EXCEPT ![KeyOf[order]] = [row[KeyOf[order]] EXCEPT !.status = "FULFILLED"]]
          /\ effects' = [effects EXCEPT ![order] = effects[order] + 1]
      BY <1>1 DEF Apply
    <2>4. row' \in [Key -> Row \cup {NoRow}] /\ \A k \in Key : row[k] # NoRow => row'[k] # NoRow
      BY <2>1, <2>2, <2>3, NoRowIsNone DEF TypeOK, Row
    <2>5. effects' \in [Request -> Nat]
      BY <2>3 DEF TypeOK
    <2> QED BY <2>4, <2>5
  <1>2. CASE ~pending(order)
    BY <1>2 DEF Apply, TypeOK
  <1> QED BY <1>1, <1>2

\* A send puts an order into a free place of the queue.
LEMMA SendType ==
    ASSUME TypeOK, Known, NEW order \in Request, Send(order)
    PROVE  /\ queue' \in [Message -> Places]
           /\ \A m \in Message : queue'[m] = Free \/ queue'[m].order \in Request
  <1>1. PICK m \in Message :
          queue' = [queue EXCEPT ![m] = [order |-> order, count |-> 0, visible |-> TRUE]]
    BY DEF Send
  <1>2. [order |-> order, count |-> 0, visible |-> TRUE] \in Places
    BY SizesArePositive DEF Places
  <1>3. queue \in [Message -> Places]
    BY DEF TypeOK, Places
  <1> QED BY <1>1, <1>2, <1>3 DEF Known

\* What a job is to re-publish are orders.
LEMMA StuckType == ASSUME TypeOK, Known PROVE Stuck \subseteq Request
  BY DEF TypeOK, Known, Stuck, Row

\* Every variable keeps its type.
THEOREM TypeCorrect == Spec => [](TypeOK /\ Known)
  <1>1. Init => TypeOK /\ Known
    BY SizesArePositive, FaultsAreBounded
       DEF Init, TypeOK, Known, Free, Idle, Asleep, Slot
  <1>2. TypeOK /\ Known /\ [Next]_vars => TypeOK' /\ Known'
    <2> SUFFICES ASSUME TypeOK, Known, [Next]_vars PROVE TypeOK' /\ Known'
      OBVIOUS
    <2>0. ASSUME Fault \/ NoFault PROVE faults' \in 0..MaxFaults
      BY <2>0, FaultsAreBounded DEF TypeOK, Fault, NoFault
    <2>1. ASSUME NEW r \in Request, Insert(r) PROVE TypeOK' /\ Known'
      BY <2>1, <2>0, KeyOfIsTotal DEF TypeOK, Known, Insert, Answer, dbVars, sqsVars, runVars
    <2>2. ASSUME NEW r \in Request, Commit(r) PROVE TypeOK' /\ Known'
      <3>1. row' = Stored(r) /\ pc' = [pc EXCEPT ![r] = "publish"]
        BY <2>2 DEF Commit, Answer
      <3>2. row' \in [Key -> Row \cup {NoRow}] /\ row'[KeyOf[r]] # NoRow
            /\ \A k \in Key : row[k] # NoRow => row'[k] # NoRow
        BY <3>1, StoredType
      <3>3. TypeOK'
        BY <2>2, <2>0, <3>1, <3>2 DEF TypeOK, Commit, sqsVars, runVars
      <3>4. queue' = queue /\ aged' = aged
        BY <2>2 DEF Commit, sqsVars
      <3>5. \A q \in Request : pc'[q] \in {"replayed", "publish", "reply"} => row'[KeyOf[q]] # NoRow
        BY <3>1, <3>2, KeyOfIsTotal DEF TypeOK, Known
      <3>6. \A i \in 1..Len(aged) : row'[aged[i]] # NoRow
        BY <3>2 DEF TypeOK, Known
      <3> QED BY <3>3, <3>4, <3>5, <3>6 DEF Known
    <2>3. ASSUME NEW r \in Request, Unavailable(r) PROVE TypeOK' /\ Known'
      <3>1. pc' = [pc EXCEPT ![r] = "failed"] /\ (row' = row \/ row' = Stored(r))
        BY <2>3 DEF Unavailable, Answer
      <3>2. row' \in [Key -> Row \cup {NoRow}] /\ \A k \in Key : row[k] # NoRow => row'[k] # NoRow
        BY <3>1, StoredType DEF TypeOK
      <3>3. TypeOK'
        BY <2>3, <2>0, <3>1, <3>2 DEF TypeOK, Unavailable, sqsVars, runVars
      <3>4. queue' = queue /\ aged' = aged
        BY <2>3 DEF Unavailable, sqsVars
      <3>5. \A q \in Request : pc'[q] \in {"replayed", "publish", "reply"} => row'[KeyOf[q]] # NoRow
        BY <3>1, <3>2, KeyOfIsTotal DEF TypeOK, Known
      <3>6. \A i \in 1..Len(aged) : row'[aged[i]] # NoRow
        BY <3>2 DEF TypeOK, Known
      <3> QED BY <3>3, <3>4, <3>5, <3>6 DEF Known
    <2>4. ASSUME NEW r \in Request, Publish(r) PROVE TypeOK' /\ Known'
      BY <2>4, <2>0, SendType DEF TypeOK, Known, Places, Publish, publishable, Answer, dbVars, runVars
    <2>5. ASSUME NEW r \in Request, Reply(r) PROVE TypeOK' /\ Known'
      <3>1. KeyOf[r] \in Key /\ answered(r) \in Request
        BY <2>5, KeyOfIsTotal DEF TypeOK, Known, Reply, answered, Row
      <3> QED BY <2>5, <2>0, <3>1 DEF TypeOK, Known, Reply, Answer, dbVars, sqsVars, runVars
    <2>6. ASSUME NEW r \in Request, Drop(r) PROVE TypeOK' /\ Known'
      BY <2>6, <2>0 DEF TypeOK, Known, Drop, Answer, dbVars, sqsVars, runVars
    <2>7. ASSUME NEW m \in Message, Reappear(m) PROVE TypeOK' /\ Known'
      <3>1. /\ queue \in [Message -> Places] /\ queue[m].order \in Request
            /\ queue' = [queue EXCEPT ![m] = [queue[m] EXCEPT !.visible = TRUE]]
        BY <2>7 DEF Reappear, TypeOK, Known, Places
      <3>2. /\ [queue[m] EXCEPT !.visible = TRUE] \in Places
            /\ [queue[m] EXCEPT !.visible = TRUE].order = queue[m].order
        BY <3>1 DEF Places
      <3>3. /\ queue' \in [Message -> Places]
            /\ \A n \in Message : queue'[n] = Free \/ queue'[n].order \in Request
        BY <3>1, <3>2 DEF Known
      <3> QED BY <2>7, <3>3 DEF TypeOK, Known, Places, Reappear, dbVars, apiVars, runVars
    <2>8. ASSUME NEW m \in Message, Redrive(m) PROVE TypeOK' /\ Known'
      <3>1. queue[m].order \in Request /\ queue' = [queue EXCEPT ![m] = Free]
        BY <2>8 DEF Redrive, Known
      <3>2. Free \in [order : Request \cup {NoRow}, count : 0..MaxReceive, visible : BOOLEAN]
        BY SizesArePositive DEF Free
      <3> QED BY <2>8, <3>1, <3>2 DEF TypeOK, Known, Redrive, dbVars, apiVars, runVars
    <2>9. ASSUME NEW w \in Worker, Receive(w) PROVE TypeOK' /\ Known'
      <3>1. PICK batch \in SUBSET {m \in Message : receivable(m)} :
              /\ queue' = [m \in Message |->
                             IF m \in batch
                             THEN [queue[m] EXCEPT !.count = @ + 1, !.visible = FALSE]
                             ELSE queue[m]]
              /\ SetWorker(w, [batch |-> {Receipt(m) : m \in batch}, done |-> {}])
        BY <2>9 DEF Receive
      <3>2. queue \in [Message -> Places]
        BY DEF TypeOK, Places
      <3>3. ASSUME NEW m \in batch
            PROVE  /\ [queue[m] EXCEPT !.count = @ + 1, !.visible = FALSE] \in Places
                   /\ [queue[m] EXCEPT !.count = @ + 1, !.visible = FALSE].order \in Request
                   /\ Receipt(m) \in [msg : Message, order : Request, count : Nat]
        <4>1. m \in Message /\ queue[m].visible /\ queue[m].count < MaxReceive
          BY DEF receivable
        <4>2. queue[m] # Free
          BY <4>1 DEF Free
        <4>3. queue[m] \in Places /\ queue[m].order \in Request
          BY <4>1, <4>2, <3>2 DEF Known
        <4>4. queue[m].count \in 0..MaxReceive /\ queue[m].count + 1 \in 0..MaxReceive
          BY <4>1, <4>3, SizesArePositive DEF Places
        <4>5. DEFINE n == [queue[m] EXCEPT !.count = queue[m].count + 1, !.visible = FALSE]
        <4>6. n \in Places /\ n.order = queue[m].order
          BY <4>3, <4>4 DEF Places
        <4>7. Receipt(m) \in [msg : Message, order : Request, count : Nat]
          BY <4>1, <4>3, <4>4 DEF Receipt
        <4> QED BY <4>3, <4>6, <4>7
      <3>4. /\ queue' \in [Message -> Places]
            /\ \A m \in Message : queue'[m] = Free \/ queue'[m].order \in Request
        BY <3>1, <3>2, <3>3 DEF Known
      <3>5. {Receipt(m) : m \in batch} \in SUBSET [msg : Message, order : Request, count : Nat]
        BY <3>3
      <3>6. worker' \in [Worker -> [batch : SUBSET [msg : Message, order : Request, count : Nat],
                                    done : SUBSET [msg : Message, order : Request, count : Nat]]]
        BY <3>1, <3>5 DEF TypeOK, SetWorker
      <3> QED BY <2>9, <3>4, <3>6 DEF TypeOK, Known, Places, Receive, dbVars, apiVars, runVars
    <2>10. ASSUME NEW w \in Worker, Fulfil(w) PROVE TypeOK' /\ Known'
      <3>1. PICK e \in worker[w].batch :
              /\ Apply(e.order)
              /\ SetWorker(w, [batch |-> worker[w].batch \ {e}, done |-> {e}])
        BY <2>10 DEF Fulfil
      <3>2. e.order \in Request
        BY DEF TypeOK
      <3> QED BY <2>10, <2>0, <3>1, <3>2, ApplyType, KeyOfIsTotal
              DEF TypeOK, Known, Fulfil, SetWorker, apiVars, sqsVars, runVars
    <2>11. ASSUME NEW w \in Worker, Retry(w) PROVE TypeOK' /\ Known'
      <3>1. PICK e \in worker[w].batch :
              /\ Apply(e.order) \/ UNCHANGED <<row, effects>>
              /\ SetWorker(w, [batch |-> worker[w].batch \ {e}, done |-> {}])
        BY <2>11 DEF Retry
      <3>2. e.order \in Request
        BY DEF TypeOK
      <3>3. /\ row' \in [Key -> Row \cup {NoRow}] /\ effects' \in [Request -> Nat]
            /\ \A k \in Key : row[k] # NoRow => row'[k] # NoRow
        BY <3>1, <3>2, ApplyType DEF TypeOK
      <3> QED BY <2>11, <2>0, <3>1, <3>3, KeyOfIsTotal
              DEF TypeOK, Known, Retry, SetWorker, apiVars, sqsVars, runVars
    <2>12. ASSUME NEW w \in Worker, Delete(w) PROVE TypeOK' /\ Known'
      <3>1. PICK e \in worker[w].done :
              queue' = [queue EXCEPT ![e.msg] = Free] \/ UNCHANGED queue
        BY <2>12 DEF Delete
      <3>2. Free \in Places /\ queue \in [Message -> Places]
        BY SizesArePositive DEF Free, TypeOK, Places
      <3>3. /\ queue' \in [Message -> Places]
            /\ \A m \in Message : queue'[m] = Free \/ queue'[m].order \in Request
        BY <3>1, <3>2 DEF Known
      <3>4. worker' = [worker EXCEPT ![w] = [worker[w] EXCEPT !.done = {}]]
        BY <2>12 DEF Delete, SetWorker
      <3>5. worker' \in [Worker -> [batch : SUBSET [msg : Message, order : Request, count : Nat],
                                    done : SUBSET [msg : Message, order : Request, count : Nat]]]
        BY <3>4 DEF TypeOK
      <3> QED BY <2>12, <3>3, <3>5 DEF TypeOK, Known, Places, Delete, dbVars, apiVars, runVars
    <2>13. ASSUME NEW w \in Worker, Crash(w) PROVE TypeOK' /\ Known'
      BY <2>13, <2>0 DEF TypeOK, Known, Crash, SetWorker, Idle, dbVars, apiVars, sqsVars, runVars
    <2>14. ASSUME NEW j \in Job, StartJob(j) PROVE TypeOK' /\ Known'
      BY <2>14 DEF TypeOK, Known, StartJob, SetJob, dbVars, apiVars, sqsVars
    <2>15. ASSUME NEW j \in Job, Claim(j) PROVE TypeOK' /\ Known'
      BY <2>15, StuckType DEF TypeOK, Known, Claim, SetJob, Asleep, Slot, dbVars, apiVars, sqsVars
    <2>16. ASSUME NEW j \in Job, Republish(j) PROVE TypeOK' /\ Known'
      <3>1. PICK order \in job[j].todo :
              Send(order) /\ job' = [job EXCEPT ![j] = [job[j] EXCEPT !.todo = @ \ {order}]]
        BY <2>16 DEF Republish, SetJob
      <3>2. order \in Request
        BY DEF TypeOK
      <3>3. /\ queue' \in [Message -> Places]
            /\ \A m \in Message : queue'[m] = Free \/ queue'[m].order \in Request
        BY <3>1, <3>2, SendType
      <3>4. job' \in [Job -> [at : {"asleep", "claim", "sweep"}, slot : Slot,
                              todo : SUBSET Request]]
        BY <3>1 DEF TypeOK
      <3> QED BY <2>16, <3>3, <3>4 DEF TypeOK, Known, Places, Republish, dbVars, apiVars
    <2>17. ASSUME NEW j \in Job, CommitRun(j) PROVE TypeOK' /\ Known'
      BY <2>17 DEF TypeOK, Known, CommitRun, SetJob, Ran, Asleep, Slot, dbVars, apiVars, sqsVars
    <2>18. ASSUME NEW j \in Job, FailRun(j) PROVE TypeOK' /\ Known'
      BY <2>18, <2>0 DEF TypeOK, Known, FailRun, SetJob, Ran, Asleep, Slot, dbVars, apiVars, sqsVars
    <2>19. CASE NextSlot
      BY <2>19 DEF TypeOK, Known, NextSlot, Slot, dbVars, apiVars, sqsVars
    <2>20. ASSUME NEW k \in Key, Age(k) PROVE TypeOK' /\ Known'
      BY <2>20 DEF TypeOK, Known, Age, apiVars, sqsVars, runVars
    <2>21. CASE UNCHANGED vars
      BY <2>21 DEF TypeOK, Known, vars
    <2> QED BY <2>1, <2>2, <2>3, <2>4, <2>5, <2>6, <2>7, <2>8, <2>9, <2>10, <2>11, <2>12, <2>13,
               <2>14, <2>15, <2>16, <2>17, <2>18, <2>19, <2>20, <2>21 DEF Next
  <1> QED BY <1>1, <1>2, PTL DEF Spec
-----------------------------------------------------------------------------
\* In this state of the table, the key's row is the order.
Holds(table, order) == table[KeyOf[order]] # NoRow /\ table[KeyOf[order]].id = order

\* A row is found under its own key; only the one request that holds the key's index entry
\* may be inserting, and it found no row.
RowsAreOwned ==
    /\ \A k \in Key : row[k] # NoRow => KeyOf[row[k].id] = k
    /\ \A r \in Request : pc[r] = "created" => row[KeyOf[r]] = NoRow
    /\ \A q, r \in Request :
          pc[q] = "created" /\ pc[r] = "created" /\ KeyOf[q] = KeyOf[r] => q = r

\* The three things a step may do to the table: nothing, one insert, one fulfilment.
Keeps == UNCHANGED <<row, effects>>
Inserts(r) ==
    /\ pc[r] = "created" /\ row' = Stored(r) /\ effects' = effects
    /\ \E to \in {"publish", "failed"} : pc' = [pc EXCEPT ![r] = to]
Applies(order) == pending(order) /\ Apply(order) /\ pc' = pc

\* No step does more to the table than one of these.
LEMMA RowMoves ==
    ASSUME TypeOK, [Next]_vars
    PROVE  \/ Keeps
           \/ \E r \in Request : Inserts(r)
           \/ \E order \in Request : Applies(order)
  <1>1. ASSUME NEW r \in Request, Commit(r) PROVE Inserts(r)
    BY <1>1 DEF Commit, Answer, Inserts
  <1>2. ASSUME NEW r \in Request, Unavailable(r) PROVE Keeps \/ Inserts(r)
    BY <1>2 DEF Unavailable, Answer, Inserts, Keeps
  <1>3. ASSUME NEW w \in Worker, Fulfil(w) \/ Retry(w)
        PROVE  Keeps \/ \E order \in Request : Applies(order)
    <2>1. PICK e \in worker[w].batch : Apply(e.order) \/ UNCHANGED <<row, effects>>
      BY <1>3 DEF Fulfil, Retry
    <2>2. e.order \in Request /\ pc' = pc
      BY <1>3 DEF TypeOK, Fulfil, Retry, apiVars
    <2>3. CASE Apply(e.order) /\ pending(e.order)
      BY <2>2, <2>3 DEF Applies
    <2>4. CASE Apply(e.order) /\ ~pending(e.order)
      BY <2>4 DEF Apply, Keeps
    <2> QED BY <2>1, <2>3, <2>4 DEF Keeps
  <1>4. ASSUME NEW r \in Request, Insert(r) \/ Publish(r) \/ Reply(r) \/ Drop(r) PROVE Keeps
    BY <1>4 DEF Insert, Publish, Reply, Drop, dbVars, Keeps
  <1>5. ASSUME NEW m \in Message, Reappear(m) \/ Redrive(m) PROVE Keeps
    BY <1>5 DEF Reappear, Redrive, dbVars, Keeps
  <1>6. ASSUME NEW w \in Worker, Receive(w) \/ Delete(w) \/ Crash(w) PROVE Keeps
    BY <1>6 DEF Receive, Delete, Crash, dbVars, Keeps
  <1>7. ASSUME NEW j \in Job,
               StartJob(j) \/ Claim(j) \/ Republish(j) \/ CommitRun(j) \/ FailRun(j)
        PROVE  Keeps
    BY <1>7 DEF StartJob, Claim, Republish, CommitRun, FailRun, dbVars, Keeps
  <1>8. CASE NextSlot \/ UNCHANGED vars
    BY <1>8 DEF NextSlot, dbVars, vars, Keeps
  <1>9. ASSUME NEW k \in Key, Age(k) PROVE Keeps
    BY <1>9 DEF Age, Keeps
  <1> QED BY <1>1, <1>2, <1>3, <1>4, <1>5, <1>6, <1>7, <1>8, <1>9 DEF Next

\* What an update of the table does to each key.
LEMMA RowUpdates ==
    ASSUME TypeOK, RowsAreOwned, [Next]_vars
    PROVE  /\ \A k \in Key : row[k] # NoRow => row'[k] # NoRow /\ row'[k].id = row[k].id
           /\ \A r \in Request : Inserts(r) =>
                 /\ row' = [row EXCEPT ![KeyOf[r]] = [id |-> r, status |-> "PENDING"]]
                 /\ row[KeyOf[r]] = NoRow /\ row'[KeyOf[r]] # NoRow /\ KeyOf[r] \in Key
           /\ \A order \in Request : Applies(order) =>
                 /\ KeyOf[order] \in Key
                 /\ row[KeyOf[order]] = [id |-> order, status |-> "PENDING"]
                 /\ row' = [row EXCEPT ![KeyOf[order]] = [id |-> order, status |-> "FULFILLED"]]
                 /\ row'[KeyOf[order]] # NoRow
                 /\ effects' = [effects EXCEPT ![order] = effects[order] + 1]
  <1>1. ASSUME NEW r \in Request, Inserts(r)
        PROVE  /\ row' = [row EXCEPT ![KeyOf[r]] = [id |-> r, status |-> "PENDING"]]
               /\ row[KeyOf[r]] = NoRow /\ row'[KeyOf[r]] # NoRow /\ KeyOf[r] \in Key
    BY <1>1, StoredType, KeyOfIsTotal DEF Inserts, RowsAreOwned, Stored
  <1>2. ASSUME NEW order \in Request, Applies(order)
        PROVE  /\ KeyOf[order] \in Key
               /\ row[KeyOf[order]] = [id |-> order, status |-> "PENDING"]
               /\ row' = [row EXCEPT ![KeyOf[order]] = [id |-> order, status |-> "FULFILLED"]]
               /\ row'[KeyOf[order]] # NoRow
               /\ effects' = [effects EXCEPT ![order] = effects[order] + 1]
    <2>1. KeyOf[order] \in Key /\ row[KeyOf[order]] = [id |-> order, status |-> "PENDING"]
      BY <1>2, KeyOfIsTotal DEF Applies, pending
    <2>2. [row[KeyOf[order]] EXCEPT !.status = "FULFILLED"] = [id |-> order, status |-> "FULFILLED"]
      BY <2>1
    <2>3. /\ row' = [row EXCEPT ![KeyOf[order]] = [row[KeyOf[order]] EXCEPT !.status = "FULFILLED"]]
          /\ effects' = [effects EXCEPT ![order] = effects[order] + 1]
      BY <1>2 DEF Applies, Apply
    <2>4. [id |-> order, status |-> "FULFILLED"] # NoRow
      <3>1. [id |-> order, status |-> "FULFILLED"] \in Row
        BY DEF Row
      <3> QED BY <3>1, NoRowIsNone DEF Row
    <2>5. row'[KeyOf[order]] = [id |-> order, status |-> "FULFILLED"]
      BY <2>1, <2>2, <2>3 DEF TypeOK
    <2> QED BY <2>1, <2>2, <2>3, <2>4, <2>5
  <1>3. ASSUME NEW k \in Key, row[k] # NoRow PROVE row'[k] # NoRow /\ row'[k].id = row[k].id
    <2>1. CASE Keeps
      BY <1>3, <2>1 DEF Keeps
    <2>2. ASSUME NEW r \in Request, Inserts(r) PROVE row'[k] # NoRow /\ row'[k].id = row[k].id
      BY <1>3, <1>1, <2>2 DEF TypeOK
    <2>3. ASSUME NEW order \in Request, Applies(order)
          PROVE  row'[k] # NoRow /\ row'[k].id = row[k].id
      <3>1. /\ row[KeyOf[order]] = [id |-> order, status |-> "PENDING"]
            /\ row' = [row EXCEPT ![KeyOf[order]] = [id |-> order, status |-> "FULFILLED"]]
            /\ row'[KeyOf[order]] # NoRow /\ KeyOf[order] \in Key
        BY <1>2, <2>3
      <3>2. CASE k = KeyOf[order]
        <4>1. row'[k] = [id |-> order, status |-> "FULFILLED"]
          BY <3>1, <3>2 DEF TypeOK
        <4> QED BY <3>1, <3>2, <4>1
      <3>3. CASE k # KeyOf[order]
        BY <1>3, <3>1, <3>3 DEF TypeOK
      <3> QED BY <3>2, <3>3
    <2> QED BY <2>1, <2>2, <2>3, RowMoves
  <1> QED BY <1>1, <1>2, <1>3

\* An order that is committed stays so.
LEMMA CommittedStays ==
    ASSUME TypeOK, RowsAreOwned, [Next]_vars, NEW r \in Request, Holds(row, r)
    PROVE  Holds(row', r)
  BY RowUpdates, KeyOfIsTotal DEF Holds

\* A step that begins an insert finds no row, and no other request that inserts.
LEMMA Inserters ==
    ASSUME TypeOK, [Next]_vars, NEW r \in Request, pc'[r] = "created", pc[r] # "created"
    PROVE  /\ row[KeyOf[r]] = NoRow /\ Keeps
           /\ pc' = [pc EXCEPT ![r] = "created"]
           /\ \A q \in Request : KeyOf[q] = KeyOf[r] => pc[q] # "created"
  <1>1. ASSUME NEW q \in Request, Insert(q)
        PROVE  /\ row[KeyOf[r]] = NoRow /\ Keeps
               /\ pc' = [pc EXCEPT ![r] = "created"]
               /\ \A p \in Request : KeyOf[p] = KeyOf[r] => pc[p] # "created"
    <2>1. pc' = [pc EXCEPT ![q] = IF row[KeyOf[q]] = NoRow THEN "created" ELSE "replayed"]
      BY <1>1 DEF Insert, Answer
    <2>2. q = r /\ row[KeyOf[q]] = NoRow
      BY <2>1 DEF TypeOK
    <2> QED BY <1>1, <2>1, <2>2 DEF Insert, Inserting, dbVars, Keeps
  <1>2. ASSUME NEW q \in Request, Commit(q) \/ Unavailable(q) \/ Publish(q) \/ Reply(q) \/ Drop(q)
        PROVE  FALSE
    BY <1>2 DEF TypeOK, Commit, Unavailable, Publish, Reply, Drop, Answer
  <1>3. CASE UNCHANGED pc
    BY <1>3
  <1>4. ASSUME NEW m \in Message, Reappear(m) \/ Redrive(m) PROVE UNCHANGED pc
    BY <1>4 DEF Reappear, Redrive, apiVars
  <1>5. ASSUME NEW w \in Worker, Receive(w) \/ Fulfil(w) \/ Retry(w) \/ Delete(w) \/ Crash(w)
        PROVE  UNCHANGED pc
    BY <1>5 DEF Receive, Fulfil, Retry, Delete, Crash, apiVars
  <1>6. ASSUME NEW j \in Job,
               StartJob(j) \/ Claim(j) \/ Republish(j) \/ CommitRun(j) \/ FailRun(j)
        PROVE  UNCHANGED pc
    BY <1>6 DEF StartJob, Claim, Republish, CommitRun, FailRun, apiVars
  <1>7. CASE NextSlot \/ (\E k \in Key : Age(k)) \/ UNCHANGED vars
    BY <1>7 DEF NextSlot, Age, apiVars, vars
  <1> QED BY <1>1, <1>2, <1>3, <1>4, <1>5, <1>6, <1>7 DEF Next

\* A step leaves the rows to their owners.
LEMMA RowsStayOwned ==
    ASSUME TypeOK, RowsAreOwned, [Next]_vars PROVE RowsAreOwned'
  <1>1. ASSUME NEW k \in Key, row'[k] # NoRow PROVE KeyOf[row'[k].id] = k
    <2>1. CASE row[k] # NoRow
      BY <2>1, RowUpdates DEF RowsAreOwned
    <2>2. ASSUME NEW r \in Request, Inserts(r), row[k] = NoRow PROVE KeyOf[row'[k].id] = k
      <3>1. row' = [row EXCEPT ![KeyOf[r]] = [id |-> r, status |-> "PENDING"]] /\ KeyOf[r] \in Key
        BY <2>2, RowUpdates
      <3>2. k = KeyOf[r]
        BY <1>1, <2>2, <3>1 DEF TypeOK
      <3>3. row'[k] = [id |-> r, status |-> "PENDING"]
        BY <3>1, <3>2 DEF TypeOK
      <3> QED BY <3>2, <3>3
    <2>3. ASSUME NEW order \in Request, Applies(order), row[k] = NoRow PROVE FALSE
      <3>1. /\ row[KeyOf[order]] = [id |-> order, status |-> "PENDING"] /\ KeyOf[order] \in Key
            /\ row' = [row EXCEPT ![KeyOf[order]] = [id |-> order, status |-> "FULFILLED"]]
        BY <2>3, RowUpdates
      <3>2. [id |-> order, status |-> "PENDING"] \in Row
        BY DEF Row
      <3> QED BY <1>1, <2>3, <3>1, <3>2, NoRowIsNone DEF TypeOK, Row
    <2>4. CASE Keeps
      BY <1>1, <2>1, <2>4 DEF Keeps
    <2> QED BY <2>1, <2>2, <2>3, <2>4, RowMoves
  <1>2. ASSUME NEW r \in Request, pc'[r] = "created" PROVE row'[KeyOf[r]] = NoRow
    <2>1. CASE pc[r] # "created"
      BY <1>2, <2>1, Inserters DEF Keeps
    <2>2. CASE pc[r] = "created"
      <3>1. row[KeyOf[r]] = NoRow /\ KeyOf[r] \in Key
        BY <2>2, KeyOfIsTotal DEF RowsAreOwned
      <3>2. ASSUME NEW q \in Request, Inserts(q) PROVE row'[KeyOf[r]] = NoRow
        <4>1. q # r /\ pc[q] = "created"
          BY <1>2, <3>2 DEF Inserts, TypeOK
        <4>2. KeyOf[q] # KeyOf[r]
          BY <2>2, <4>1 DEF RowsAreOwned
        <4> QED BY <3>1, <3>2, <4>2, RowUpdates DEF TypeOK
      <3>3. ASSUME NEW order \in Request, Applies(order) PROVE row'[KeyOf[r]] = NoRow
        <4>1. /\ row[KeyOf[order]] = [id |-> order, status |-> "PENDING"] /\ KeyOf[order] \in Key
              /\ row' = [row EXCEPT ![KeyOf[order]] = [id |-> order, status |-> "FULFILLED"]]
          BY <3>3, RowUpdates
        <4>2. [id |-> order, status |-> "PENDING"] \in Row
          BY DEF Row
        <4>3. KeyOf[order] # KeyOf[r]
          BY <3>1, <4>1, <4>2, NoRowIsNone DEF Row
        <4> QED BY <3>1, <4>1, <4>3 DEF TypeOK
      <3> QED BY <3>1, <3>2, <3>3, RowMoves DEF Keeps
    <2> QED BY <2>1, <2>2
  <1>3. ASSUME NEW q \in Request, NEW r \in Request,
               pc'[q] = "created", pc'[r] = "created", KeyOf[q] = KeyOf[r]
        PROVE  q = r
    <2>1. CASE pc[q] = "created" /\ pc[r] = "created"
      BY <1>3, <2>1 DEF RowsAreOwned
    <2>2. CASE pc[q] # "created"
      <3>1. pc' = [pc EXCEPT ![q] = "created"] /\ pc[r] # "created"
        BY <1>3, <2>2, Inserters
      <3> QED BY <1>3, <3>1 DEF TypeOK
    <2>3. CASE pc[r] # "created"
      <3>1. pc' = [pc EXCEPT ![r] = "created"] /\ pc[q] # "created"
        BY <1>3, <2>3, Inserters
      <3> QED BY <1>3, <3>1 DEF TypeOK
    <2> QED BY <2>1, <2>2, <2>3
  <1> QED BY <1>1, <1>2, <1>3 DEF RowsAreOwned

\* A row is owned by the request that inserted it, for ever.
LEMMA Owned == Spec => []RowsAreOwned
  <1>1. Init => RowsAreOwned
    BY DEF Init, RowsAreOwned
  <1> QED BY <1>1, RowsStayOwned, TypeCorrect, PTL DEF Spec
-----------------------------------------------------------------------------
\* A step confirms only what is stored, and keeps it.
LEMMA ConfirmedStays ==
    ASSUME TypeOK, Known, RowsAreOwned, ConfirmedIsStored, [Next]_vars PROVE ConfirmedIsStored'
  <1>1. \A c \in confirmed : row'[c[1]] # NoRow /\ row'[c[1]].id = c[2]
    BY RowUpdates DEF TypeOK, ConfirmedIsStored
  <1>2. ASSUME NEW r \in Request, Reply(r) PROVE ConfirmedIsStored'
    <2>1. KeyOf[r] \in Key /\ row[KeyOf[r]] # NoRow
      BY <1>2, KeyOfIsTotal DEF Reply, Known
    <2>2. row' = row /\ confirmed' = confirmed \cup {<<KeyOf[r], row[KeyOf[r]].id>>}
      BY <1>2 DEF Reply, answered, dbVars
    <2> QED BY <1>1, <2>1, <2>2 DEF ConfirmedIsStored
  <1>3. CASE UNCHANGED confirmed
    BY <1>1, <1>3 DEF ConfirmedIsStored
  <1>4. ASSUME NEW r \in Request, Insert(r) \/ Commit(r) \/ Unavailable(r) \/ Publish(r) \/ Drop(r)
        PROVE  UNCHANGED confirmed
    BY <1>4 DEF Insert, Commit, Unavailable, Publish, Drop
  <1>5. ASSUME NEW m \in Message, Reappear(m) \/ Redrive(m) PROVE UNCHANGED confirmed
    BY <1>5 DEF Reappear, Redrive, apiVars
  <1>6. ASSUME NEW w \in Worker, Receive(w) \/ Fulfil(w) \/ Retry(w) \/ Delete(w) \/ Crash(w)
        PROVE  UNCHANGED confirmed
    BY <1>6 DEF Receive, Fulfil, Retry, Delete, Crash, apiVars
  <1>7. ASSUME NEW j \in Job,
               StartJob(j) \/ Claim(j) \/ Republish(j) \/ CommitRun(j) \/ FailRun(j)
        PROVE  UNCHANGED confirmed
    BY <1>7 DEF StartJob, Claim, Republish, CommitRun, FailRun, apiVars
  <1>8. ASSUME NextSlot \/ (\E k \in Key : Age(k)) \/ UNCHANGED vars PROVE UNCHANGED confirmed
    BY <1>8 DEF NextSlot, Age, apiVars, vars
  <1> QED BY <1>2, <1>3, <1>4, <1>5, <1>6, <1>7, <1>8 DEF Next

\* An order a client was told is the one in the table: create_order answers a replay with
\* the id of the stored row, and no row is ever replaced.
THEOREM AnswersAreStored == Spec => []ConfirmedIsStored
  <1>1. Init => ConfirmedIsStored
    BY DEF Init, ConfirmedIsStored
  <1> QED BY <1>1, ConfirmedStays, TypeCorrect, Owned, PTL DEF Spec
-----------------------------------------------------------------------------
\* A step adds an effect only with the status.
LEMMA EffectStays ==
    ASSUME TypeOK, RowsAreOwned, OneEffect, [Next]_vars PROVE OneEffect'
  <1>1. CASE Keeps
    BY <1>1 DEF Keeps, OneEffect
  <1>2. ASSUME NEW q \in Request, Inserts(q), NEW r \in Request
        PROVE  effects'[r] = IF row'[KeyOf[r]] \in [id : {r}, status : {"FULFILLED"}] THEN 1 ELSE 0
    <2>1. /\ row' = [row EXCEPT ![KeyOf[q]] = [id |-> q, status |-> "PENDING"]]
          /\ row[KeyOf[q]] = NoRow /\ KeyOf[q] \in Key /\ effects' = effects
      BY <1>2, RowUpdates DEF Inserts
    <2>2. CASE KeyOf[r] = KeyOf[q]
      <3>1. [id : {r}, status : {"FULFILLED"}] \subseteq Row
        BY DEF Row
      <3>2. effects[r] = 0
        BY <2>1, <2>2, <3>1, NoRowIsNone DEF OneEffect, Row
      <3>3. row'[KeyOf[r]] = [id |-> q, status |-> "PENDING"]
        BY <2>1, <2>2 DEF TypeOK
      <3> QED BY <2>1, <3>2, <3>3
    <2>3. CASE KeyOf[r] # KeyOf[q]
      BY <2>1, <2>3, KeyOfIsTotal DEF OneEffect, TypeOK
    <2> QED BY <2>2, <2>3
  <1>3. ASSUME NEW order \in Request, Applies(order), NEW r \in Request
        PROVE  effects'[r] = IF row'[KeyOf[r]] \in [id : {r}, status : {"FULFILLED"}] THEN 1 ELSE 0
    <2>1. /\ KeyOf[order] \in Key
          /\ row[KeyOf[order]] = [id |-> order, status |-> "PENDING"]
          /\ row' = [row EXCEPT ![KeyOf[order]] = [id |-> order, status |-> "FULFILLED"]]
          /\ effects' = [effects EXCEPT ![order] = effects[order] + 1]
      BY <1>3, RowUpdates
    <2>2. CASE r = order
      <3>1. effects[r] = 0
        BY <2>1, <2>2 DEF OneEffect
      <3>2. row'[KeyOf[r]] = [id |-> r, status |-> "FULFILLED"]
        BY <2>1, <2>2 DEF TypeOK
      <3>3. effects'[r] = 1
        BY <2>1, <2>2, <3>1 DEF TypeOK
      <3> QED BY <3>2, <3>3
    <2>3. CASE r # order /\ KeyOf[r] = KeyOf[order]
      <3>1. effects[r] = 0
        BY <2>1, <2>3 DEF OneEffect
      <3>2. row'[KeyOf[r]] = [id |-> order, status |-> "FULFILLED"]
        BY <2>1, <2>3 DEF TypeOK
      <3>3. effects'[r] = effects[r]
        BY <2>1, <2>3 DEF TypeOK
      <3> QED BY <2>3, <3>1, <3>2, <3>3
    <2>4. CASE KeyOf[r] # KeyOf[order]
      <3>1. effects'[r] = effects[r] /\ row'[KeyOf[r]] = row[KeyOf[r]]
        BY <2>1, <2>4, KeyOfIsTotal DEF TypeOK
      <3> QED BY <3>1 DEF OneEffect
    <2> QED BY <2>2, <2>3, <2>4
  <1> QED BY <1>1, <1>2, <1>3, RowMoves DEF OneEffect

\* An order has one applied attempt when it is fulfilled and none before, whatever is
\* delivered or re-published twice: fulfil changes only a row that is still PENDING.
THEOREM OneEffectPerOrder == Spec => []OneEffect
  <1>1. Init => OneEffect
    <2>1. ASSUME NEW r \in Request PROVE NoRow \notin [id : {r}, status : {"FULFILLED"}]
      <3>1. [id : {r}, status : {"FULFILLED"}] \subseteq Row
        BY DEF Row
      <3> QED BY <3>1, NoRowIsNone DEF Row
    <2> QED BY <2>1, KeyOfIsTotal DEF Init, OneEffect
  <1> QED BY <1>1, EffectStays, TypeCorrect, Owned, PTL DEF Spec
-----------------------------------------------------------------------------
\* Whatever refers to an order, a published or re-published message included, refers to one
\* that is committed: create_order sends after its commit, the sweeper what it has read.
MessagesAreCommitted ==
    /\ \A m \in Message : queue[m] # Free => Holds(row, queue[m].order)
    /\ \A order \in dlq : Holds(row, order)
    /\ \A w \in Worker : \A e \in worker[w].batch \cup worker[w].done : Holds(row, e.order)
    /\ \A j \in Job : \A order \in job[j].todo : Holds(row, order)
    /\ \A r \in Request : pc[r] = "publish" => Holds(row, r)

\* A send adds a message about the order it is given, and no other.
LEMMA SendCommits ==
    ASSUME TypeOK, NEW order \in Request, Send(order), Holds(row', order),
           \A m \in Message : queue[m] # Free => Holds(row', queue[m].order)
    PROVE  \A m \in Message : queue'[m] # Free => Holds(row', queue'[m].order)
  <1>1. PICK m \in Message :
          queue' = [queue EXCEPT ![m] = [order |-> order, count |-> 0, visible |-> TRUE]]
    BY DEF Send
  <1>2. queue'[m].order = order /\ \A n \in Message \ {m} : queue'[n] = queue[n]
    BY <1>1 DEF TypeOK
  <1> QED BY <1>2 DEF Holds

\* What a job is to re-publish has a row.
LEMMA StuckIsCommitted ==
    ASSUME TypeOK, Known, RowsAreOwned, NEW order \in Stuck PROVE Holds(row, order)
  <1>1. PICK i \in 1..Len(aged) : order = row[aged[i]].id
    BY DEF Stuck
  <1>2. aged[i] \in Key /\ row[aged[i]] # NoRow
    BY DEF TypeOK, Known
  <1> QED BY <1>1, <1>2 DEF RowsAreOwned, Holds

\* A step sends only what has a row, and moves the rest.
LEMMA MessagesStay ==
    ASSUME TypeOK, TypeOK', Known, Known', RowsAreOwned, MessagesAreCommitted, [Next]_vars
    PROVE  MessagesAreCommitted'
  <1> DEFINE QueueOK == \A m \in Message : queue[m] # Free => Holds(row, queue[m].order)
             DlqOK == \A order \in dlq : Holds(row, order)
             WorkerOK == \A w \in Worker :
                           \A e \in worker[w].batch \cup worker[w].done : Holds(row, e.order)
             JobOK == \A j \in Job : \A order \in job[j].todo : Holds(row, order)
             PublishOK == \A r \in Request : pc[r] = "publish" => Holds(row, r)
  <1>1. /\ \A m \in Message : queue[m] # Free => Holds(row', queue[m].order)
        /\ \A order \in dlq : Holds(row', order)
        /\ \A w \in Worker : \A e \in worker[w].batch \cup worker[w].done : Holds(row', e.order)
        /\ \A j \in Job : \A order \in job[j].todo : Holds(row', order)
        /\ \A r \in Request : pc[r] = "publish" => Holds(row', r)
    <2>1. \A m \in Message : queue[m] # Free => Holds(row', queue[m].order)
      BY CommittedStays DEF Known, MessagesAreCommitted
    <2>2. \A order \in dlq : Holds(row', order)
      BY CommittedStays DEF TypeOK, MessagesAreCommitted
    <2>3. ASSUME NEW w \in Worker, NEW e \in worker[w].batch \cup worker[w].done
          PROVE  Holds(row', e.order)
      <3>1. e.order \in Request
        BY DEF TypeOK
      <3> QED BY <3>1, CommittedStays DEF MessagesAreCommitted
    <2>4. \A j \in Job : \A order \in job[j].todo : Holds(row', order)
      BY CommittedStays DEF TypeOK, MessagesAreCommitted
    <2>5. \A r \in Request : pc[r] = "publish" => Holds(row', r)
      BY CommittedStays DEF MessagesAreCommitted
    <2> QED BY <2>1, <2>2, <2>3, <2>4, <2>5
  <1>2. UNCHANGED queue => QueueOK'
    BY <1>1
  <1>3. UNCHANGED dlq => DlqOK'
    BY <1>1
  <1>4. UNCHANGED worker => WorkerOK'
    BY <1>1
  <1>5. UNCHANGED job => JobOK'
    BY <1>1
  <1>6. (\A r \in Request : pc'[r] = "publish" => pc[r] = "publish") => PublishOK'
    BY <1>1
  <1>7. QueueOK' /\ DlqOK' /\ WorkerOK' /\ JobOK' /\ PublishOK' => MessagesAreCommitted'
    BY DEF MessagesAreCommitted
  <1>8. UNCHANGED pc => PublishOK'
    BY <1>6
  <1> HIDE DEF QueueOK, DlqOK, WorkerOK, JobOK, PublishOK
  <1>9. ASSUME NEW r \in Request, Insert(r) \/ Unavailable(r) \/ Reply(r) \/ Drop(r)
        PROVE  MessagesAreCommitted'
    <2>1. \A q \in Request : pc'[q] = "publish" => pc[q] = "publish"
      BY <1>9 DEF TypeOK, Insert, Unavailable, Reply, Drop, Answer
    <2> QED BY <1>2, <1>3, <1>4, <1>5, <1>6, <1>7, <1>9, <2>1
            DEF Insert, Unavailable, Reply, Drop, sqsVars, runVars
  <1>10. ASSUME NEW r \in Request, Commit(r) PROVE MessagesAreCommitted'
    <2>1. row' = Stored(r) /\ pc' = [pc EXCEPT ![r] = "publish"]
      BY <1>10 DEF Commit, Answer
    <2>2. Holds(row', r)
      <3>1. row'[KeyOf[r]] = [id |-> r, status |-> "PENDING"] /\ row'[KeyOf[r]] # NoRow
        BY <2>1, StoredType
      <3> QED BY <3>1 DEF Holds
    <2>3. PublishOK'
      BY <1>1, <2>1, <2>2 DEF TypeOK, PublishOK
    <2> QED BY <1>2, <1>3, <1>4, <1>5, <1>7, <1>10, <2>3 DEF Commit, sqsVars, runVars
  <1>11. ASSUME NEW r \in Request, Publish(r) PROVE MessagesAreCommitted'
    <2>1. Holds(row', r)
      BY <1>1, <1>11 DEF Publish, publishable
    <2>2. QueueOK'
      BY <1>1, <1>2, <1>11, <2>1, SendCommits DEF Publish, QueueOK
    <2>3. \A q \in Request : pc'[q] = "publish" => pc[q] = "publish"
      BY <1>11 DEF TypeOK, Publish, Answer
    <2> QED BY <1>3, <1>4, <1>5, <1>6, <1>7, <1>11, <2>2, <2>3 DEF Publish, runVars
  <1>12. ASSUME NEW m \in Message, Reappear(m) PROVE MessagesAreCommitted'
    <2>1. /\ queue' = [queue EXCEPT ![m] = [queue[m] EXCEPT !.visible = TRUE]]
          /\ queue[m] # Free /\ queue[m] \in Places
      BY <1>12 DEF Reappear, TypeOK, Places
    <2>2. /\ queue'[m].order = queue[m].order
          /\ \A n \in Message \ {m} : queue'[n] = queue[n]
      <3>1. [queue[m] EXCEPT !.visible = TRUE].order = queue[m].order
        BY <2>1 DEF Places
      <3>2. queue'[m] = [queue[m] EXCEPT !.visible = TRUE]
        BY <2>1 DEF TypeOK
      <3> QED BY <2>1, <3>1, <3>2
    <2>3. QueueOK'
      BY <1>1, <2>1, <2>2 DEF QueueOK
    <2> QED BY <1>3, <1>4, <1>5, <1>7, <1>8, <1>12, <2>3 DEF Reappear, apiVars, runVars
  <1>13. ASSUME NEW m \in Message, Redrive(m) PROVE MessagesAreCommitted'
    <2>1. Holds(row', queue[m].order)
      BY <1>1, <1>13 DEF Redrive
    <2>2. DlqOK'
      BY <1>1, <1>13, <2>1 DEF Redrive, DlqOK
    <2>3. QueueOK'
      BY <1>1, <1>13 DEF Redrive, TypeOK, QueueOK
    <2> QED BY <1>4, <1>5, <1>7, <1>8, <1>13, <2>2, <2>3 DEF Redrive, apiVars, runVars
  <1>14. ASSUME NEW w \in Worker, Receive(w) PROVE MessagesAreCommitted'
    <2>1. PICK batch \in SUBSET {m \in Message : receivable(m)} :
            /\ queue' = [m \in Message |->
                           IF m \in batch
                           THEN [queue[m] EXCEPT !.count = @ + 1, !.visible = FALSE]
                           ELSE queue[m]]
            /\ worker' = [worker EXCEPT ![w] = [batch |-> {Receipt(m) : m \in batch}, done |-> {}]]
      BY <1>14 DEF Receive, SetWorker
    <2>2. ASSUME NEW m \in Message
          PROVE  queue'[m] # Free => queue[m] # Free /\ queue'[m].order = queue[m].order
      <3>1. CASE m \in batch
        <4>1. queue[m].visible
          BY <3>1 DEF receivable
        <4>2. queue'[m] = [queue[m] EXCEPT !.count = @ + 1, !.visible = FALSE]
          BY <2>1, <3>1
        <4>3. queue[m] \in Places
          BY DEF TypeOK, Places
        <4> QED BY <4>1, <4>2, <4>3 DEF Places, Free
      <3>2. CASE m \notin batch
        BY <2>1, <3>2
      <3> QED BY <3>1, <3>2
    <2>3. QueueOK'
      BY <1>1, <2>2 DEF QueueOK
    <2>4. ASSUME NEW m \in batch PROVE Holds(row', Receipt(m).order)
      <3>1. m \in Message /\ queue[m] # Free
        BY DEF receivable, Free
      <3> QED BY <1>1, <3>1 DEF Receipt
    <2>5. WorkerOK'
      <3>1. ASSUME NEW v \in Worker, NEW e \in worker'[v].batch \cup worker'[v].done
            PROVE  Holds(row', e.order)
        <4>1. CASE v = w
          BY <2>1, <2>4, <3>1, <4>1 DEF TypeOK
        <4>2. CASE v # w
          BY <1>1, <2>1, <3>1, <4>2 DEF TypeOK
        <4> QED BY <4>1, <4>2
      <3> QED BY <3>1 DEF WorkerOK
    <2> QED BY <1>3, <1>5, <1>7, <1>8, <1>14, <2>3, <2>5 DEF Receive, apiVars, runVars
  <1>15. ASSUME NEW w \in Worker, NEW v, SetWorker(w, v),
                v.batch \cup v.done \subseteq worker[w].batch \cup worker[w].done
         PROVE  WorkerOK'
    BY <1>1, <1>15 DEF TypeOK, SetWorker, WorkerOK
  <1>16. ASSUME NEW w \in Worker, Fulfil(w) PROVE MessagesAreCommitted'
    <2>1. PICK e \in worker[w].batch :
            SetWorker(w, [batch |-> worker[w].batch \ {e}, done |-> {e}])
      BY <1>16 DEF Fulfil
    <2>2. WorkerOK'
      BY <1>15, <2>1
    <2> QED BY <1>2, <1>3, <1>5, <1>7, <1>8, <1>16, <2>2 DEF Fulfil, apiVars, sqsVars, runVars
  <1>17. ASSUME NEW w \in Worker, Retry(w) PROVE MessagesAreCommitted'
    <2>1. PICK e \in worker[w].batch :
            SetWorker(w, [batch |-> worker[w].batch \ {e}, done |-> {}])
      BY <1>17 DEF Retry
    <2>2. WorkerOK'
      BY <1>15, <2>1
    <2> QED BY <1>2, <1>3, <1>5, <1>7, <1>8, <1>17, <2>2 DEF Retry, apiVars, sqsVars, runVars
  <1>18. ASSUME NEW w \in Worker, Delete(w) PROVE MessagesAreCommitted'
    <2>1. PICK e \in worker[w].done :
            queue' = [queue EXCEPT ![e.msg] = Free] \/ UNCHANGED queue
      BY <1>18 DEF Delete
    <2>2. QueueOK'
      BY <1>1, <2>1 DEF TypeOK, QueueOK
    <2>3. SetWorker(w, [worker[w] EXCEPT !.done = {}])
      BY <1>18 DEF Delete
    <2>4. /\ [worker[w] EXCEPT !.done = {}].batch = worker[w].batch
          /\ [worker[w] EXCEPT !.done = {}].done = {}
      BY DEF TypeOK
    <2>5. WorkerOK'
      BY <1>15, <2>3, <2>4
    <2> QED BY <1>3, <1>5, <1>7, <1>8, <1>18, <2>2, <2>5 DEF Delete, apiVars, runVars
  <1>19. ASSUME NEW w \in Worker, Crash(w) PROVE MessagesAreCommitted'
    <2>1. WorkerOK'
      BY <1>15, <1>19 DEF Crash, Idle
    <2> QED BY <1>2, <1>3, <1>5, <1>7, <1>8, <1>19, <2>1 DEF Crash, apiVars, sqsVars, runVars
  <1>20. ASSUME NEW j \in Job, NEW v, SetJob(j, v), \A order \in v.todo : Holds(row', order)
         PROVE  JobOK'
    BY <1>1, <1>20 DEF TypeOK, SetJob, JobOK
  <1>21. ASSUME NEW j \in Job, StartJob(j) \/ CommitRun(j) \/ FailRun(j)
         PROVE  MessagesAreCommitted'
    <2>1. JobOK'
      BY <1>20, <1>21 DEF StartJob, CommitRun, FailRun, Asleep
    <2> QED BY <1>2, <1>3, <1>4, <1>7, <1>8, <1>21, <2>1
            DEF StartJob, CommitRun, FailRun, apiVars, sqsVars
  <1>22. ASSUME NEW j \in Job, Claim(j) PROVE MessagesAreCommitted'
    <2>1. row' = row /\ (SetJob(j, Asleep) \/ SetJob(j, [job[j] EXCEPT !.at = "sweep", !.todo = Stuck]))
      BY <1>22 DEF Claim, dbVars
    <2>2. [job[j] EXCEPT !.at = "sweep", !.todo = Stuck].todo = Stuck
      BY DEF TypeOK
    <2>3. JobOK'
      BY <1>20, <2>1, <2>2, StuckIsCommitted DEF Asleep
    <2> QED BY <1>2, <1>3, <1>4, <1>7, <1>8, <1>22, <2>3 DEF Claim, apiVars, sqsVars
  <1>23. ASSUME NEW j \in Job, Republish(j) PROVE MessagesAreCommitted'
    <2>1. PICK order \in job[j].todo :
            Send(order) /\ SetJob(j, [job[j] EXCEPT !.todo = @ \ {order}])
      BY <1>23 DEF Republish
    <2>2. order \in Request /\ Holds(row', order)
      BY <1>1 DEF TypeOK
    <2>3. QueueOK'
      BY <1>1, <2>1, <2>2, SendCommits DEF QueueOK
    <2>4. [job[j] EXCEPT !.todo = @ \ {order}].todo \subseteq job[j].todo
      BY DEF TypeOK
    <2>5. JobOK'
      BY <1>1, <1>20, <2>1, <2>4
    <2> QED BY <1>3, <1>4, <1>7, <1>8, <1>23, <2>3, <2>5 DEF Republish, apiVars
  <1>24. CASE NextSlot \/ UNCHANGED vars
    BY <1>2, <1>3, <1>4, <1>5, <1>7, <1>8, <1>24 DEF NextSlot, apiVars, sqsVars, vars
  <1>25. ASSUME NEW k \in Key, Age(k) PROVE MessagesAreCommitted'
    BY <1>2, <1>3, <1>4, <1>5, <1>7, <1>8, <1>25 DEF Age, apiVars, sqsVars, runVars
  <1> QED BY <1>9, <1>10, <1>11, <1>12, <1>13, <1>14, <1>16, <1>17, <1>18, <1>19, <1>21, <1>22,
             <1>23, <1>24, <1>25 DEF Next

\* A message, in the queue, in a worker's batch or dead-lettered, never is ahead of its row.
THEOREM MessagesFollowCommits == Spec => []MessageIsCommitted
  <1>1. Init => MessagesAreCommitted
    BY DEF Init, MessagesAreCommitted, Idle, Asleep
  <1>2. MessagesAreCommitted => MessageIsCommitted
    BY DEF MessagesAreCommitted, MessageIsCommitted, Holds
  <1> QED BY <1>1, <1>2, MessagesStay, TypeCorrect, Owned, PTL DEF Spec
-----------------------------------------------------------------------------
\* A job that sweeps a slot is alone, and no run of the slot is committed.
SlotsAreClaimed ==
    /\ RunsAreUnique
    /\ \A j \in Job : job[j].at = "sweep" => ran[job[j].slot] = 0
    /\ \A i, j \in Job :
          job[i].at = "sweep" /\ job[j].at = "sweep" /\ job[i].slot = job[j].slot => i = j

\* A step claims only a slot that is free.
LEMMA ClaimsStay ==
    ASSUME TypeOK, SlotsAreClaimed, [Next]_vars PROVE SlotsAreClaimed'
  <1>1. CASE UNCHANGED <<ran, job>>
    BY <1>1 DEF SlotsAreClaimed, RunsAreUnique
  <1>2. ASSUME NEW j \in Job, NEW v, SetJob(j, v), v.at # "sweep", UNCHANGED ran
        PROVE  SlotsAreClaimed'
    BY <1>2 DEF TypeOK, SetJob, SlotsAreClaimed, RunsAreUnique
  <1>3. ASSUME NEW j \in Job, StartJob(j) PROVE SlotsAreClaimed'
    BY <1>2, <1>3 DEF StartJob
  <1>4. ASSUME NEW j \in Job, Claim(j) PROVE SlotsAreClaimed'
    <2>1. CASE taken(job[j].slot)
      BY <1>2, <1>4, <2>1 DEF Claim, Asleep
    <2>2. CASE ~taken(job[j].slot)
      <3>1. job' = [job EXCEPT ![j] = [job[j] EXCEPT !.at = "sweep", !.todo = Stuck]] /\ ran' = ran
        BY <1>4, <2>2 DEF Claim, SetJob
      <3>2. job'[j].slot = job[j].slot /\ \A i \in Job \ {j} : job'[i] = job[i]
        BY <3>1 DEF TypeOK
      <3>3. \A i \in Job : job[i].at = "sweep" => job[i].slot # job[j].slot
        BY <1>4 DEF Claim, claiming
      <3>4. ran[job[j].slot] = 0
        BY <2>2 DEF TypeOK, taken
      <3>5. RunsAreUnique'
        BY <3>1 DEF SlotsAreClaimed, RunsAreUnique
      <3>6. \A i \in Job : job'[i].at = "sweep" => ran'[job'[i].slot] = 0
        BY <3>1, <3>2, <3>4 DEF SlotsAreClaimed
      <3>7. \A i, k \in Job :
              job'[i].at = "sweep" /\ job'[k].at = "sweep" /\ job'[i].slot = job'[k].slot => i = k
        BY <3>2, <3>3 DEF SlotsAreClaimed
      <3> QED BY <3>5, <3>6, <3>7 DEF SlotsAreClaimed
    <2> QED BY <2>1, <2>2
  <1>5. ASSUME NEW j \in Job, Republish(j) PROVE SlotsAreClaimed'
    <2>1. /\ \E order : job' = [job EXCEPT ![j] = [job[j] EXCEPT !.todo = @ \ {order}]]
          /\ ran' = ran
      BY <1>5 DEF Republish, SetJob
    <2>2. \A i \in Job : job'[i].at = job[i].at /\ job'[i].slot = job[i].slot
      BY <2>1 DEF TypeOK
    <2> QED BY <2>1, <2>2 DEF SlotsAreClaimed, RunsAreUnique
  <1>6. ASSUME NEW j \in Job, job[j].at = "sweep", ran' = Ran(j), SetJob(j, Asleep)
        PROVE  SlotsAreClaimed'
    <2>1. /\ ran' = [ran EXCEPT ![job[j].slot] = @ + 1] /\ job[j].slot \in Slot
          /\ job' = [job EXCEPT ![j] = Asleep]
      BY <1>6 DEF TypeOK, Ran, SetJob
    <2>2. ran'[job[j].slot] = 1 /\ \A s \in Slot \ {job[j].slot} : ran'[s] = ran[s]
      BY <1>6, <2>1 DEF TypeOK, SlotsAreClaimed
    <2>3. job'[j].at = "asleep" /\ \A i \in Job \ {j} : job'[i] = job[i]
      BY <2>1 DEF TypeOK, Asleep
    <2>4. RunsAreUnique'
      BY <2>2 DEF SlotsAreClaimed, RunsAreUnique
    <2>5. \A i \in Job : job'[i].at = "sweep" => ran'[job'[i].slot] = 0
      BY <1>6, <2>2, <2>3 DEF TypeOK, SlotsAreClaimed
    <2>6. \A i, k \in Job :
            job'[i].at = "sweep" /\ job'[k].at = "sweep" /\ job'[i].slot = job'[k].slot => i = k
      BY <2>3 DEF SlotsAreClaimed
    <2> QED BY <2>4, <2>5, <2>6 DEF SlotsAreClaimed
  <1>7. ASSUME NEW j \in Job, CommitRun(j) PROVE SlotsAreClaimed'
    BY <1>6, <1>7 DEF CommitRun
  <1>8. ASSUME NEW j \in Job, FailRun(j) PROVE SlotsAreClaimed'
    BY <1>2, <1>6, <1>8 DEF FailRun, Asleep
  <1>9. ASSUME NextSlot PROVE SlotsAreClaimed'
    <2>1. /\ job' = job /\ ran' = [ran EXCEPT ![1 - slot] = 0] /\ 1 - slot \in Slot
      BY <1>9 DEF NextSlot, TypeOK, Slot
    <2>2. \A s \in Slot : ran'[s] = 0 \/ ran'[s] = ran[s]
      BY <2>1 DEF TypeOK
    <2> QED BY <2>1, <2>2 DEF TypeOK, SlotsAreClaimed, RunsAreUnique
  <1>10. ASSUME NEW r \in Request, Insert(r) \/ Commit(r) \/ Unavailable(r) \/ Publish(r)
                                   \/ Reply(r) \/ Drop(r)
         PROVE  SlotsAreClaimed'
    BY <1>1, <1>10 DEF Insert, Commit, Unavailable, Publish, Reply, Drop, runVars
  <1>11. ASSUME NEW m \in Message, Reappear(m) \/ Redrive(m) PROVE SlotsAreClaimed'
    BY <1>1, <1>11 DEF Reappear, Redrive, runVars
  <1>12. ASSUME NEW w \in Worker, Receive(w) \/ Fulfil(w) \/ Retry(w) \/ Delete(w) \/ Crash(w)
         PROVE  SlotsAreClaimed'
    BY <1>1, <1>12 DEF Receive, Fulfil, Retry, Delete, Crash, runVars
  <1>13. ASSUME (\E k \in Key : Age(k)) \/ UNCHANGED vars PROVE SlotsAreClaimed'
    BY <1>1, <1>13 DEF Age, runVars, vars
  <1> QED BY <1>3, <1>4, <1>5, <1>7, <1>8, <1>9, <1>10, <1>11, <1>12, <1>13 DEF Next

\* Each slot is swept by at most one committed run: the unique index makes a second claim
\* wait for the first, and refuses it once the first is committed.
THEOREM OneRunPerSlot == Spec => []RunsAreUnique
  <1>1. Init => SlotsAreClaimed
    BY DEF Init, SlotsAreClaimed, RunsAreUnique, Asleep, Slot
  <1>2. SlotsAreClaimed => RunsAreUnique
    BY DEF SlotsAreClaimed
  <1> QED BY <1>1, <1>2, ClaimsStay, TypeCorrect, PTL DEF Spec
-----------------------------------------------------------------------------
\* What the abstract life of an order sees of the table.
Status == [k \in Key |-> IF row[k] = NoRow THEN "none" ELSE row[k].status]
Effects == [k \in Key |-> IF row[k] = NoRow THEN 0 ELSE effects[row[k].id]]
Accepts(k) == Status[k] = "none" /\ Status' = [Status EXCEPT ![k] = "PENDING"] /\ Effects' = Effects
Fulfils(k) ==
    /\ Status[k] = "PENDING" /\ Status' = [Status EXCEPT ![k] = "FULFILLED"]
    /\ Effects' = [Effects EXCEPT ![k] = 1]

\* A step is one of the abstract life, or a stutter.
LEMMA StepsOfLife ==
    ASSUME TypeOK, RowsAreOwned, OneEffect, [Next]_vars
    PROVE  (\E k \in Key : Accepts(k) \/ Fulfils(k)) \/ UNCHANGED <<Status, Effects>>
  <1>1. CASE Keeps
    BY <1>1 DEF Keeps, Status, Effects
  <1>2. ASSUME NEW r \in Request, Inserts(r) PROVE Accepts(KeyOf[r]) /\ KeyOf[r] \in Key
    <2>1. /\ row' = [row EXCEPT ![KeyOf[r]] = [id |-> r, status |-> "PENDING"]]
          /\ row[KeyOf[r]] = NoRow /\ row'[KeyOf[r]] # NoRow /\ KeyOf[r] \in Key
          /\ effects' = effects
      BY <1>2, RowUpdates DEF Inserts
    <2>2. /\ row'[KeyOf[r]] = [id |-> r, status |-> "PENDING"]
          /\ \A k \in Key \ {KeyOf[r]} : row'[k] = row[k]
      BY <2>1 DEF TypeOK
    <2>3. effects[r] = 0
      <3>1. [id : {r}, status : {"FULFILLED"}] \subseteq Row
        BY DEF Row
      <3> QED BY <2>1, <3>1, NoRowIsNone DEF OneEffect, Row
    <2>4. Status' = [Status EXCEPT ![KeyOf[r]] = "PENDING"] /\ Status[KeyOf[r]] = "none"
      BY <2>1, <2>2 DEF Status
    <2>5. Effects' = Effects
      BY <2>1, <2>2, <2>3 DEF Effects
    <2> QED BY <2>1, <2>4, <2>5 DEF Accepts
  <1>3. ASSUME NEW order \in Request, Applies(order)
        PROVE  Fulfils(KeyOf[order]) /\ KeyOf[order] \in Key
    <2>1. /\ row[KeyOf[order]] = [id |-> order, status |-> "PENDING"] /\ KeyOf[order] \in Key
          /\ row' = [row EXCEPT ![KeyOf[order]] = [id |-> order, status |-> "FULFILLED"]]
          /\ row'[KeyOf[order]] # NoRow
          /\ effects' = [effects EXCEPT ![order] = effects[order] + 1]
      BY <1>3, RowUpdates
    <2>2. row[KeyOf[order]] # NoRow
      <3>1. [id |-> order, status |-> "PENDING"] \in Row
        BY DEF Row
      <3> QED BY <2>1, <3>1, NoRowIsNone DEF Row
    <2>3. /\ row'[KeyOf[order]] = [id |-> order, status |-> "FULFILLED"]
          /\ \A k \in Key \ {KeyOf[order]} : row'[k] = row[k]
      BY <2>1 DEF TypeOK
    <2>4. effects[order] = 0
      BY <2>1 DEF OneEffect
    <2>5. effects'[order] = 1 /\ \A r \in Request \ {order} : effects'[r] = effects[r]
      BY <2>1, <2>4 DEF TypeOK
    <2>6. \A k \in Key \ {KeyOf[order]} :
            row[k] # NoRow => row[k].id \in Request /\ row[k].id # order
      BY DEF TypeOK, RowsAreOwned, Row
    <2>7. /\ Status' = [Status EXCEPT ![KeyOf[order]] = "FULFILLED"]
          /\ Status[KeyOf[order]] = "PENDING"
      BY <2>1, <2>2, <2>3 DEF Status
    <2>8. Effects' = [Effects EXCEPT ![KeyOf[order]] = 1]
      <3>1. \A k \in Key \ {KeyOf[order]} : Effects'[k] = Effects[k]
        BY <2>3, <2>5, <2>6 DEF Effects
      <3>2. row'[KeyOf[order]].id = order
        BY <2>3
      <3>3. Effects'[KeyOf[order]] = 1
        BY <2>1, <2>5, <3>2 DEF Effects
      <3>4. /\ DOMAIN Effects = Key /\ Effects = [k \in Key |-> Effects[k]]
            /\ DOMAIN Effects' = Key /\ Effects' = [k \in Key |-> Effects'[k]]
        BY DEF Effects
      <3>5. [Effects EXCEPT ![KeyOf[order]] = 1]
              = [k \in Key |-> IF k = KeyOf[order] THEN 1 ELSE Effects[k]]
        BY <3>4
      <3> QED BY <2>1, <3>1, <3>3, <3>4, <3>5
    <2> QED BY <2>1, <2>7, <2>8 DEF Fulfils
  <1> QED BY <1>1, <1>2, <1>3, RowMoves

\* The order path implements the order's abstract life, its liveness apart: per key one
\* order is accepted, and it takes effect once, when it becomes fulfilled.
THEOREM OrdersLiveOnce == Spec => Life!Init /\ [][Life!Next]_<<Status, Effects>>
  <1>1. Init => Life!Init
    BY DEF Init, Life!Init
  <1>2. TypeOK /\ RowsAreOwned /\ OneEffect /\ [Next]_vars => [Life!Next]_<<Status, Effects>>
    BY StepsOfLife DEF Life!Next, Life!Accept, Life!Fulfil, Accepts, Fulfils, Status, Effects
  <1> QED BY <1>1, <1>2, TypeCorrect, Owned, OneEffectPerOrder, PTL DEF Spec
=============================================================================
