--------------------------- MODULE EvidenceProofs ---------------------------
(* Theorems about what `cm verify` finds in the tables, for any number of   *)
(* clusters, slots, moves of the lease and orders.                          *)
EXTENDS Evidence, TLAPS, WellFoundedInduction

\* The beginning of a slot.
Slot(s) == \E k \in Int : s = k * SlotTime

\* The slots that a time lies in.
LEMMA Bins ==
    ASSUME NEW t \in Int
    PROVE  /\ date_bin(t) \in Int /\ Slot(date_bin(t))
           /\ date_bin(t) <= t /\ t < date_bin(t) + SlotTime
           /\ t >= 0 => date_bin(t) >= 0
           /\ t % SlotTime = 0 => Slot(t)
  <1> DEFINE q == t \div SlotTime
             r == t % SlotTime
  <1>1. SlotTime \in Nat \ {0}
    BY SlotsArePositive
  <1>2. q \in Int /\ r \in 0..(SlotTime - 1) /\ t = SlotTime * q + r
    BY <1>1
  <1>3. date_bin(t) = q * SlotTime
    BY DEF date_bin
  <1> HIDE DEF q, r
  <1>4. q * SlotTime = SlotTime * q /\ q * SlotTime \in Int
    BY <1>1, <1>2
  <1>5. t >= 0 => q * SlotTime >= 0
    <2> SUFFICES ASSUME t >= 0, q < 0 PROVE FALSE
      BY <1>1, <1>2
    <2>1. q * SlotTime <= (-1) * SlotTime
      BY <1>1, <1>2
    <2> QED BY <1>1, <1>2, <1>4, <2>1
  <1>6. t % SlotTime = 0 => t = q * SlotTime
    BY <1>1, <1>2, <1>4 DEF r
  <1>7. Slot(q * SlotTime)
    BY <1>2 DEF Slot
  <1>8. q * SlotTime <= t /\ t < q * SlotTime + SlotTime
    BY <1>1, <1>2, <1>4
  <1> QED BY <1>3, <1>4, <1>5, <1>6, <1>7, <1>8

\* A slot is over when the next one begins.
LEMMA SlotsAreApart ==
    ASSUME NEW s, NEW t, Slot(s), Slot(t), s < t
    PROVE  s + SlotTime <= t
  <1>1. PICK j \in Int : s = j * SlotTime
    BY DEF Slot
  <1>2. PICK k \in Int : t = k * SlotTime
    BY DEF Slot
  <1>3. SlotTime \in Nat \ {0}
    BY SlotsArePositive
  <1>4. j < k
    BY <1>1, <1>2, <1>3
  <1>5. (j + 1) * SlotTime <= k * SlotTime
    BY <1>3, <1>4
  <1> QED BY <1>1, <1>2, <1>3, <1>5

\* Time goes on within a slot or into the next one.
LEMMA NextBin ==
    ASSUME NEW t \in Int
    PROVE  \/ date_bin(t + 1) = date_bin(t)
           \/ date_bin(t + 1) = t + 1 /\ t + 1 = date_bin(t) + SlotTime
  <1> DEFINE b == date_bin(t)
             c == date_bin(t + 1)
  <1>1. SlotTime \in Nat \ {0}
    BY SlotsArePositive
  <1>2. b \in Int /\ Slot(b) /\ b <= t /\ t < b + SlotTime
    BY Bins
  <1>3. c \in Int /\ Slot(c) /\ c <= t + 1 /\ t + 1 < c + SlotTime
    BY Bins
  <1> HIDE DEF b, c
  <1>4. b < c => b + SlotTime <= c
    BY <1>2, <1>3, SlotsAreApart
  <1>5. c < b => c + SlotTime <= b
    BY <1>2, <1>3, SlotsAreApart
  <1>6. c = b \/ (c = t + 1 /\ t + 1 = b + SlotTime)
    BY <1>1, <1>2, <1>3, <1>4, <1>5
  <1> QED BY <1>6 DEF b, c
----------------------------------------------------------------------------
(* The slots.                                                               *)

Now == date_bin(now)

\* A job that is created within the leeway is not too late for its schedule or its slot.
LEMMA LeewayFits ==
    /\ StartUp \in Nat /\ Deadline \in Nat /\ SlotTime \in Nat \ {0}
    /\ Leeway \in Nat /\ Leeway <= Deadline /\ Leeway + StartUp < SlotTime
  BY DelaysAreTimes, JobsAreShort, SlotsArePositive DEF Leeway

SweepTypeOK ==
    /\ now \in Nat /\ holder \in Cluster /\ on \subseteq Cluster /\ expired \in BOOLEAN
    /\ off \in Nat \cup {NoTime}
    /\ fired \in [Cluster -> Int] /\ job \in [Cluster -> Nat \cup {NoTime}]

\* Jobs are as short as they are said to be, and schedules fire in their slot.
Timely ==
    /\ off = NoTime <=> holder \in on
    /\ off # NoTime => off <= now
    /\ \A c \in Cluster : /\ job[c] # NoTime => job[c] <= now /\ now <= job[c] + StartUp
                          /\ fired[c] <= Now

\* A slot that was swept, or is excused: its job died, or was fenced because it could not
\* read the lease or because a lease had expired, or a handoff outlasted it.
Done(s) ==
    \/ s \in slots("ran") \/ s \in failed \cup stalled
    \/ s \in slots("fenced") /\ (expired \/ s \in unread)

\* The sweep of the slot will be done in time by an active job; by the holder's, which is
\* due; or after a handoff that began before the slot did and may still end early in it.
Running == \E c \in Cluster : job[c] # NoTime /\ job[c] + StartUp < Now + SlotTime
IsDue == due(holder) /\ now <= Now + Leeway
InHandoff == holder \notin on /\ off < Now /\ now <= Now + Leeway

\* The inductive invariant: no slot that is over was missed, and the one there is will not be.
SlotsAreCared ==
    /\ \A s \in Nat : Slot(s) /\ s < Now => Done(s)
    /\ Done(Now) \/ Running \/ IsDue \/ InHandoff
    /\ \A c \in Cluster : fired[c] = Now => Done(Now) \/ job[c] # NoTime
    /\ \A c \in Cluster \ {holder} : c \in on \/ job[c] # NoTime => expired

SlotsInv == SweepTypeOK /\ Timely /\ SlotsAreCared

\* Rows and faults stay, so what is done stays done.
LEMMA RowsStay ==
    ASSUME rows \subseteq rows', failed \subseteq failed', unread \subseteq unread',
           stalled \subseteq stalled',
           expired => expired', NEW s, Done(s)
    PROVE  Done(s)'
  BY DEF Done, slots

\* A job that runs does the sweep of the slot, or leaves it to be excused.
LEMMA JobsSweep ==
    ASSUME SlotsInv, NEW c \in Cluster, RunJob(c) \/ RunUnread(c) \/ JobFails(c)
    PROVE  Done(Now)'
  <1>1. UNCHANGED <<now, holder, on, off, expired, stalled>> /\ Now' = Now
    BY DEF RunJob, RunUnread, JobFails, Record, leaseVars, Now, date_bin
  <1>2. job[c] # NoTime
    BY DEF RunJob, RunUnread, JobFails
  <1>3. CASE RunJob(c) /\ holder # c
    <2>1. expired
      BY <1>2, <1>3 DEF SlotsInv, SlotsAreCared
    <2>2. [slot |-> Now, outcome |-> "fenced"] \in rows'
      BY <1>3 DEF RunJob, Record, current_slot, Now
    <2> QED BY <1>1, <2>1, <2>2 DEF Done, slots
  <1>4. CASE RunJob(c) /\ Now \in slots("ran")
    <2>1. rows \subseteq rows'
      BY <1>4 DEF RunJob, Record
    <2> QED BY <1>1, <1>4, <2>1 DEF Done, slots
  <1>5. CASE RunJob(c) /\ holder = c /\ Now \notin slots("ran")
    <2>1. [slot |-> Now, outcome |-> "ran"] \in rows'
      BY <1>5 DEF RunJob, Record, current_slot, Now
    <2> QED BY <1>1, <2>1 DEF Done, slots
  <1>6. CASE RunUnread(c)
    <2>1. [slot |-> Now, outcome |-> "fenced"] \in rows' /\ Now \in unread'
      BY <1>6 DEF RunUnread, Record, current_slot, Now
    <2> QED BY <1>1, <2>1 DEF Done, slots
  <1>7. CASE JobFails(c)
    BY <1>1, <1>7 DEF JobFails, current_slot, Now, Done
  <1> QED BY <1>3, <1>4, <1>5, <1>6, <1>7

\* A cluster that is switched on so early in the slot sweeps it, if it did not.
LEMMA NewHoldersSweep ==
    ASSUME SlotsInv, NEW c \in Cluster, now <= Now + Leeway,
           holder' = c, on' = on \cup {c}, UNCHANGED <<now, fired, job, rows, failed, unread, stalled>>,
           expired => expired'
    PROVE  (Done(Now) \/ Running \/ IsDue)'
  <1>1. now \in Nat /\ Now \in Int /\ Now <= now /\ Now' = Now /\ SlotTime \in Nat \ {0}
    BY Bins, SlotsArePositive DEF SlotsInv, SweepTypeOK, Now, date_bin
  <1>2. /\ StartUp \in Nat /\ Deadline \in Nat
        /\ Leeway \in Nat /\ Leeway <= Deadline /\ Leeway + StartUp < SlotTime
    BY LeewayFits
  <1>3. CASE Done(Now)
    BY <1>1, <1>3, RowsStay
  <1>4. CASE job[c] # NoTime
    <2>1. job[c] \in Nat /\ job[c] <= now
      BY <1>4 DEF SlotsInv, SweepTypeOK, Timely
    <2>2. job[c] + StartUp < Now + SlotTime
      BY <1>1, <1>2, <2>1
    <2> QED BY <1>1, <1>4, <2>2 DEF Running
  <1>5. CASE job[c] = NoTime /\ ~Done(Now)
    <2>1. fired[c] < Now
      <3>1. fired[c] \in Int /\ fired[c] <= Now /\ fired[c] # Now
        BY <1>5 DEF SlotsInv, SweepTypeOK, Timely, SlotsAreCared
      <3> QED BY <1>1, <3>1
    <2>2. now - Now <= Deadline
      BY <1>1, <1>2
    <2>3. due(holder)'
      BY <1>1, <1>5, <2>1, <2>2 DEF due, Now
    <2> QED BY <1>1, <2>3 DEF IsDue
  <1> QED BY <1>3, <1>4, <1>5

\* Time goes on to a slot only when the one there is, is done, and the sweep of the next
\* one is on its way.
LEMMA TicksCare ==
    ASSUME SlotsInv, Tick
    PROVE  SlotsInv'
  <1>1. /\ now \in Nat /\ now' = now + 1
        /\ UNCHANGED <<leaseVars, fired, job, rows, failed, unread, processed>>
        /\ \A c \in Cluster : ~due(c) /\ (job[c] # NoTime => now < job[c] + StartUp)
        /\ stalled' = IF outlasted THEN stalled \cup {Now} ELSE stalled
    BY DEF SlotsInv, SweepTypeOK, Tick, Now
  <1>2. /\ Now \in Int /\ Now <= now /\ now < Now + SlotTime /\ Slot(Now) /\ Now >= 0
        /\ Now' \in Int /\ Now' <= now + 1 /\ Slot(Now')
    BY <1>1, Bins DEF Now, date_bin
  <1>3. Now' = Now \/ (Now' = now + 1 /\ now + 1 = Now + SlotTime)
    BY <1>1, NextBin DEF Now, date_bin
  <1>4. /\ StartUp \in Nat /\ Deadline \in Nat /\ SlotTime \in Nat \ {0}
        /\ Leeway \in Nat /\ Leeway <= Deadline /\ Leeway + StartUp < SlotTime
    BY LeewayFits
  <1>5. /\ holder \in Cluster /\ off \in Nat \cup {NoTime}
        /\ \A c \in Cluster : fired[c] \in Int /\ job[c] \in Nat \cup {NoTime}
    BY DEF SlotsInv, SweepTypeOK
  <1>6. SweepTypeOK'
    BY <1>1 DEF SlotsInv, SweepTypeOK, leaseVars
  <1>7. Timely'
    <2>1. ASSUME NEW c \in Cluster, job[c] # NoTime
          PROVE  job[c] <= now + 1 /\ now + 1 <= job[c] + StartUp
      BY <1>1, <1>4, <1>5, <2>1 DEF SlotsInv, Timely
    <2>2. ASSUME NEW c \in Cluster
          PROVE  fired[c] <= Now'
      BY <1>1, <1>2, <1>3, <1>5 DEF SlotsInv, Timely
    <2>3. off # NoTime => off <= now + 1
      BY <1>1, <1>5 DEF SlotsInv, Timely
    <2> QED BY <1>1, <2>1, <2>2, <2>3 DEF SlotsInv, Timely, leaseVars
  <1>8. \A s : Done(s) => Done(s)'
    <2>1. stalled \subseteq stalled'
      BY <1>1
    <2> QED BY <1>1, <2>1, RowsStay DEF leaseVars
  <1>9. ~IsDue
    BY <1>1, <1>5 DEF IsDue
  <1>9a. ASSUME InHandoff, now >= Now + Leeway, NEW s, s = Now
         PROVE  Done(s)'
    <2>1. off # NoTime /\ off < Now
      BY <1>9a DEF InHandoff, SlotsInv, Timely
    <2>2. now - Now >= Leeway
      BY <1>1, <1>2, <1>4, <1>9a
    <2>3. outlasted
      BY <2>1, <2>2 DEF outlasted, Now
    <2>4. s \in stalled'
      BY <1>1, <1>9a, <2>3
    <2> QED BY <2>4 DEF Done
  <1>10. CASE Now' = Now
    <2>1. Running => Running'
      BY <1>1, <1>10 DEF Running
    <2>2. InHandoff => InHandoff' \/ Done(Now)'
      <3>1. CASE now >= Now + Leeway
        BY <1>9a, <1>10, <3>1
      <3>2. CASE ~(now >= Now + Leeway)
        BY <1>1, <1>2, <1>4, <1>10, <3>2 DEF InHandoff, leaseVars
      <3> QED BY <3>1, <3>2
    <2>3. Done(Now) => Done(Now)'
      BY <1>8, <1>10
    <2>4. \A s \in Nat : Slot(s) /\ s < Now' => Done(s)'
      BY <1>8, <1>10 DEF SlotsInv, SlotsAreCared
    <2>5. \A c \in Cluster : fired'[c] = Now' => Done(Now)' \/ job'[c] # NoTime
      BY <1>1, <1>10, <2>3 DEF SlotsInv, SlotsAreCared
    <2>6. \A c \in Cluster \ {holder'} : c \in on' \/ job'[c] # NoTime => expired'
      BY <1>1 DEF SlotsInv, SlotsAreCared, leaseVars
    <2>7. Done(Now) \/ Running \/ InHandoff
      BY <1>9 DEF SlotsInv, SlotsAreCared
    <2>8. SlotsAreCared'
      BY <2>1, <2>2, <2>3, <2>4, <2>5, <2>6, <2>7 DEF SlotsAreCared
    <2> QED BY <1>6, <1>7, <2>8 DEF SlotsInv
  <1>11. CASE Now' = now + 1 /\ now + 1 = Now + SlotTime
    <2>1. ~Running
      BY <1>1, <1>4, <1>5, <1>11 DEF Running
    <2>2. now >= Now + Leeway
      BY <1>1, <1>2, <1>4, <1>11
    <2>3. ASSUME NEW s, s = Now
          PROVE  Done(s)'
      <3>1. CASE InHandoff
        BY <1>9a, <2>2, <2>3, <3>1
      <3>2. CASE ~InHandoff
        <4>1. Done(s)
          BY <1>9, <2>1, <2>3, <3>2 DEF SlotsInv, SlotsAreCared
        <4> QED BY <1>8, <4>1
      <3> QED BY <3>1, <3>2
    <2>4. ASSUME NEW s \in Nat, Slot(s), s < Now'
          PROVE  Done(s)'
      <3>1. CASE s < Now
        BY <1>8, <2>4, <3>1 DEF SlotsInv, SlotsAreCared
      <3>2. CASE s > Now
        BY <1>2, <1>4, <1>11, <2>4, <3>2, SlotsAreApart
      <3> QED BY <1>2, <2>3, <3>1, <3>2
    <2>5. (Running \/ IsDue \/ InHandoff)'
      <3>1. CASE \E c \in Cluster : job[c] # NoTime
        <4>1. PICK c \in Cluster : job[c] # NoTime
          BY <3>1
        <4>2. job[c] \in Nat /\ job[c] <= now
          BY <1>5, <4>1 DEF SlotsInv, Timely
        <4>3. job[c] + StartUp < Now' + SlotTime
          BY <1>1, <1>4, <1>11, <4>2
        <4> QED BY <1>1, <4>1, <4>3 DEF Running
      <3>2. CASE (\A c \in Cluster : job[c] = NoTime) /\ holder \in on
        <4>1. fired[holder] < Now' /\ now' - Now' <= Deadline /\ now' <= Now' + Leeway
          <5>1. fired[holder] <= Now
            BY <1>5 DEF SlotsInv, Timely
          <5> QED BY <1>1, <1>2, <1>4, <1>5, <1>11, <5>1
        <4> QED BY <1>1, <1>5, <3>2, <4>1 DEF IsDue, due, Now, leaseVars
      <3>3. CASE holder \notin on
        <4>1. off \in Nat /\ off <= now
          BY <1>5, <3>3 DEF SlotsInv, Timely
        <4>2. off < Now' /\ now' <= Now' + Leeway
          BY <1>1, <1>4, <1>11, <4>1
        <4> QED BY <1>1, <3>3, <4>2 DEF InHandoff, leaseVars
      <3> QED BY <3>1, <3>2, <3>3
    <2>6. ASSUME NEW c \in Cluster
          PROVE  fired[c] # Now'
      <3>1. fired[c] <= Now
        BY DEF SlotsInv, Timely
      <3> QED BY <1>2, <1>4, <1>5, <1>11, <3>1
    <2> QED BY <1>1, <1>6, <1>7, <1>8, <2>4, <2>5, <2>6 DEF SlotsInv, SlotsAreCared, leaseVars
  <1> QED BY <1>3, <1>10, <1>11

\* The CronJobs begin without a schedule behind them: no slot of the load test is missed.
LEMMA SlotsStayCared == EvidenceSpec(NoTime) => []SlotsInv
  <1>1. InitEvidence(NoTime) => SlotsInv
    <2> SUFFICES ASSUME InitEvidence(NoTime) PROVE SlotsInv
      OBVIOUS
    <2>1. now = 0 /\ Now = 0
      <3>1. 0 = Now \/ Now < 0 \/ 0 < Now
        BY Bins DEF InitEvidence, Now
      <3> QED BY <3>1, Bins DEF InitEvidence, Now
    <2>2. First \in Cluster /\ Leeway \in Nat /\ Deadline \in Nat
      BY DelaysAreTimes, LeewayFits
    <2>3. SweepTypeOK
      <3>1. NoTime \in Int
        BY DEF NoTime
      <3> QED BY <3>1, <2>2 DEF InitEvidence, SweepTypeOK
    <2>4. Timely
      BY <2>1, <2>2 DEF InitEvidence, Timely, NoTime
    <2>5. IsDue
      BY <2>1, <2>2 DEF InitEvidence, IsDue, due, NoTime, Now
    <2>6. SlotsAreCared
      BY <2>1, <2>5 DEF InitEvidence, SlotsAreCared, NoTime
    <2> QED BY <2>3, <2>4, <2>6 DEF SlotsInv
  <1>2. SlotsInv /\ [Proceed]_vars => SlotsInv'
    <2> SUFFICES ASSUME SlotsInv, [Proceed]_vars PROVE SlotsInv'
      OBVIOUS
    <2>1. CASE Tick
      BY <2>1, TicksCare
    <2>2. SweepTypeOK /\ Timely /\ SlotsAreCared
      BY DEF SlotsInv
    <2>3. now \in Nat /\ Now \in Int /\ Now <= now /\ now < Now + SlotTime
      BY <2>2, Bins DEF SweepTypeOK, Now
    <2>4. /\ StartUp \in Nat /\ Deadline \in Nat /\ SlotTime \in Nat \ {0}
          /\ Leeway \in Nat /\ Leeway <= Deadline /\ Leeway + StartUp < SlotTime
      BY LeewayFits
    <2>5. CASE Drain
      <3>1. /\ UNCHANGED <<now, holder, expired, fired, job, rows, failed, unread, stalled>>
            /\ holder \in on /\ ~due(holder) /\ on' = on \ {holder} /\ off' = now /\ Now' = Now
        BY <2>5 DEF Drain, cronVars, Now, date_bin
      <3>2. SweepTypeOK'
        BY <2>2, <3>1 DEF SweepTypeOK
      <3>3. Timely'
        BY <2>2, <2>3, <2>4, <3>1 DEF Timely, NoTime, SweepTypeOK
      <3>4. \A s : Done(s)' <=> Done(s)
        BY <3>1 DEF Done, slots
      <3>5. ~IsDue /\ ~InHandoff /\ (Running => Running')
        BY <3>1 DEF IsDue, InHandoff, Running
      <3>6. SlotsAreCared'
        BY <2>2, <3>1, <3>4, <3>5 DEF SlotsAreCared
      <3> QED BY <3>2, <3>3, <3>6 DEF SlotsInv
    <2>6. ASSUME NEW c \in Cluster, HandOver(c) \/ TakeOver(c)
          PROVE  SlotsInv'
      <3>1. /\ UNCHANGED <<now, fired, job, rows, failed, unread, stalled>> /\ Now' = Now
            /\ holder' = c /\ on' = on \cup {c} /\ off' = NoTime
        BY <2>6 DEF HandOver, TakeOver, cronVars, Now, date_bin
      <3>2. expired' = TRUE \/ (expired' = expired /\ holder \notin on /\ job[holder] = NoTime)
        BY <2>6 DEF HandOver, TakeOver
      <3>2a. expired => expired'
        BY <3>2, Zenon
      <3>3. SweepTypeOK'
        BY <2>2, <3>1, <3>2 DEF SweepTypeOK
      <3>4. Timely'
        BY <2>2, <3>1 DEF Timely, SweepTypeOK
      <3>5. \A s : Done(s) => Done(s)'
        BY <3>1, <3>2a, RowsStay
      <3>6. (Done(Now) \/ Running \/ IsDue \/ InHandoff)'
        <4>1. CASE Done(Now) \/ Running
          BY <3>1, <3>5, <4>1 DEF Running
        <4>2. CASE IsDue
          BY <3>1, <3>2a, <4>2, NewHoldersSweep DEF IsDue
        <4>3. CASE InHandoff
          <5>1. now <= Now + Leeway
            BY <4>3 DEF InHandoff
          <5> QED BY <3>1, <3>2a, <5>1, NewHoldersSweep
        <4> QED BY <2>2, <4>1, <4>2, <4>3 DEF SlotsAreCared
      <3>7. \A d \in Cluster \ {c} : d \in on \/ job[d] # NoTime => expired'
        BY <2>2, <3>2 DEF SlotsAreCared, SweepTypeOK
      <3>8. SlotsAreCared'
        BY <2>2, <3>1, <3>5, <3>6, <3>7 DEF SlotsAreCared
      <3> QED BY <3>3, <3>4, <3>8 DEF SlotsInv
    <2>7. ASSUME NEW c \in Cluster, SwitchOffLate(c)
          PROVE  SlotsInv'
      <3>1. /\ UNCHANGED <<now, holder, off, expired, fired, job, rows, failed, unread, stalled>> /\ Now' = Now
            /\ on' = on \ {c} /\ c # holder
        BY <2>7 DEF SwitchOffLate, cronVars, Now, date_bin
      <3>2. SweepTypeOK'
        BY <2>2, <3>1 DEF SweepTypeOK
      <3>3. Timely'
        BY <2>2, <3>1 DEF Timely
      <3>4. \A s : Done(s)' <=> Done(s)
        BY <3>1 DEF Done, slots
      <3>5. (Running => Running') /\ (InHandoff => InHandoff')
        BY <3>1 DEF InHandoff, Running
      <3>6. IsDue => IsDue'
        BY <3>1 DEF IsDue, due, Now
      <3>7. SlotsAreCared'
        BY <2>2, <3>1, <3>4, <3>5, <3>6 DEF SlotsAreCared
      <3> QED BY <3>2, <3>3, <3>7 DEF SlotsInv
    <2>8. ASSUME NEW c \in Cluster, Fire(c)
          PROVE  SlotsInv'
      <3>1. /\ UNCHANGED <<now, holder, on, off, expired, rows, failed, unread, stalled>> /\ Now' = Now
            /\ due(c) /\ fired' = [fired EXCEPT ![c] = Now] /\ job' = [job EXCEPT ![c] = now]
        BY <2>8 DEF Fire, leaseVars, Now, date_bin
      <3>2. SweepTypeOK'
        BY <2>2, <2>3, <3>1 DEF SweepTypeOK
      <3>3. Timely'
        BY <2>2, <2>3, <2>4, <3>1 DEF Timely, SweepTypeOK
      <3>4. \A s : Done(s)' <=> Done(s)
        BY <3>1 DEF Done, slots
      <3>5. job[c] = NoTime /\ c \in on /\ now # NoTime
        BY <2>3, <3>1 DEF due, NoTime
      <3>6. \A d \in Cluster : job[d] # NoTime => job'[d] = job[d]
        BY <2>2, <3>1, <3>5 DEF SweepTypeOK
      <3>7. (Running => Running') /\ (InHandoff => InHandoff')
        BY <3>1, <3>6 DEF Running, InHandoff
      <3>8. CASE IsDue /\ c = holder
        <4>1. now + StartUp < Now + SlotTime
          BY <2>3, <2>4, <3>8 DEF IsDue
        <4>2. job'[c] = now
          BY <2>2, <3>1 DEF SweepTypeOK
        <4>3. Running'
          BY <3>1, <3>5, <4>1, <4>2 DEF Running
        <4> QED BY <2>2, <3>1, <3>2, <3>3, <3>4, <3>5, <4>2, <4>3 DEF SlotsInv, SlotsAreCared, SweepTypeOK
      <3>9. CASE ~(IsDue /\ c = holder)
        <4>1. IsDue => IsDue'
          BY <2>2, <3>1, <3>9 DEF IsDue, due, Now, SweepTypeOK
        <4>2. \A d \in Cluster : job'[d] = (IF d = c THEN now ELSE job[d])
                                 /\ fired'[d] = (IF d = c THEN Now ELSE fired[d])
          BY <2>2, <3>1 DEF SweepTypeOK
        <4>3. SlotsAreCared'
          BY <2>2, <3>1, <3>4, <3>5, <3>7, <4>1, <4>2 DEF SlotsAreCared
        <4> QED BY <3>2, <3>3, <4>3 DEF SlotsInv
      <3> QED BY <3>8, <3>9
    <2>9. ASSUME NEW c \in Cluster, RunJob(c) \/ RunUnread(c) \/ JobFails(c)
          PROVE  SlotsInv'
      <3>1. /\ UNCHANGED <<now, holder, on, off, expired, fired>> /\ Now' = Now
            /\ job' = [job EXCEPT ![c] = NoTime]
            /\ rows \subseteq rows' /\ failed \subseteq failed' /\ unread \subseteq unread'
            /\ stalled \subseteq stalled'
        BY <2>9 DEF RunJob, RunUnread, JobFails, Record, leaseVars, Now, date_bin
      <3>2. Done(Now)'
        BY <2>9, JobsSweep
      <3>3. \A s : Done(s) => Done(s)'
        BY <3>1, RowsStay
      <3>4. SweepTypeOK' /\ Timely'
        BY <2>2, <3>1 DEF SweepTypeOK, Timely
      <3>5. SlotsAreCared'
        BY <2>2, <3>1, <3>2, <3>3 DEF SlotsAreCared, SweepTypeOK
      <3> QED BY <3>4, <3>5 DEF SlotsInv
    <2>10. CASE UNCHANGED <<now, leaseVars, cronVars>>
      BY <2>10 DEF SlotsInv, SweepTypeOK, Timely, SlotsAreCared, Now, Done, Running, IsDue, InHandoff,
                   date_bin, due, slots, leaseVars, cronVars
    <2>11. ASSUME NEW c \in Cluster, Process(c)
           PROVE  SlotsInv'
      BY <2>10, <2>11 DEF Process
    <2>12. CASE UNCHANGED vars
      BY <2>10, <2>12 DEF vars, leaseVars, cronVars
    <2> QED BY <2>1, <2>5, <2>6, <2>7, <2>8, <2>9, <2>11, <2>12 DEF Proceed, MoveLease, Sweep
  <1> QED BY <1>1, <1>2, PTL DEF EvidenceSpec

\* "A slot missed during handoff still runs": verify.QUERIES["missed_slots"] finds none,
\* whenever the load test began and ended, but the slots whose own job died, those whose job
\* was fenced because it could not read the lease or because a lease had expired, and those
\* that a handoff begun before them outlasted by more than the leeway of their job.  A slot
\* that goes on may be swept yet: reconcile leaves out at least one at the end (Grace > 0).
THEOREM NoSlotIsMissed ==
    ASSUME Grace > 0
    PROVE  EvidenceSpec(NoTime) => []SlotsAreRun
  <1>1. ASSUME SlotsInv
        PROVE  SlotsAreRun
    <2> SUFFICES ASSUME NEW since \in 0..now, NEW until \in 0..now, since <= until
                 PROVE  \A s \in missed_slots(slots("ran"), since, until) : s \notin slots("ran") /\ Done(s)
      BY DEF SlotsAreRun, Done
    <2>1. now \in Nat /\ SlotTime \in Nat \ {0} /\ Grace \in Nat \ {0}
      BY <1>1, SlotsArePositive DEF SlotsInv, SweepTypeOK
    <2>2. SlotTime * Grace \in Nat /\ SlotTime * Grace >= SlotTime
      BY <2>1
    <2>3. /\ since_slots(since) \in Int /\ since_slots(since) >= 0
          /\ until_slots(until) \in Int /\ until_slots(until) <= now - SlotTime
      <3> DEFINE grace == SlotTime * Grace
      <3> HIDE DEF grace
      <3>1. grace \in Nat /\ grace >= SlotTime
        BY <2>2 DEF grace
      <3>2. since + grace \in Int /\ since + grace >= 0
            /\ until - grace \in Int /\ until - grace <= now - SlotTime
        BY <2>1, <3>1
      <3> QED BY <3>2 DEF since_slots, until_slots, grace
    <2>4. /\ date_bin(since_slots(since)) \in Int /\ date_bin(since_slots(since)) >= 0
          /\ date_bin(until_slots(until)) \in Int /\ date_bin(until_slots(until)) <= now - SlotTime
      <3>1. date_bin(until_slots(until)) \in Int /\ date_bin(until_slots(until)) <= until_slots(until)
        BY <2>3, Bins
      <3> QED BY <2>1, <2>3, <3>1, Bins
    <2>5. ASSUME NEW s \in missed_slots(slots("ran"), since, until)
          PROVE  s \notin slots("ran") /\ Done(s)
      <3>1. s \in date_bin(since_slots(since))..date_bin(until_slots(until)) /\ s % SlotTime = 0
            /\ s \notin slots("ran")
        BY DEF missed_slots
      <3>2. s \in Nat /\ s <= now - SlotTime
        BY <2>1, <2>4, <3>1
      <3>3. Slot(s)
        BY <3>1, <3>2, Bins
      <3>4. Now \in Int /\ now < Now + SlotTime
        BY <2>1, Bins DEF Now
      <3>5. s < Now
        BY <2>1, <3>2, <3>4
      <3> QED BY <1>1, <3>1, <3>2, <3>3, <3>5 DEF SlotsInv, SlotsAreCared
    <2> QED BY <2>5
  <1> QED BY <1>1, SlotsStayCared, PTL
----------------------------------------------------------------------------
(* The orders.                                                              *)

\* Some natural numbers have a least one.
LEMMA LeastOfNat ==
    ASSUME NEW T, T \subseteq Nat, T # {}
    PROVE  \E t \in T : \A u \in T : t <= u
  <1> DEFINE R == {ss \in Nat \X Nat : ss[1] < ss[2]}
  <1>1. IsWellFoundedOn(R, Nat)
    BY NatLessThanWellFounded DEF OpToRel
  <1>2. PICK t \in T : \A u \in T : <<u, t>> \notin R
    <2> HIDE DEF R
    <2> QED BY <1>1, WFMin
  <1>3. \A m, n \in Nat : m < n => <<m, n>> \in R
    OBVIOUS
  <1> HIDE DEF R
  <1>4. ASSUME NEW u \in T
        PROVE  t <= u
    <2>1. t \in Nat /\ u \in Nat
      OBVIOUS
    <2>2. ~(u < t)
      BY <1>2, <1>3, <2>1, Zenon
    <2> QED BY <2>1, <2>2
  <1> QED BY <1>4

\* The least and the greatest of some integers within bounds are among them.
LEMMA Least ==
    ASSUME NEW S \in SUBSET Int, S # {}, NEW low \in Int, \A x \in S : low <= x
    PROVE  Min(S) \in S /\ \A x \in S : Min(S) <= x
  <1> DEFINE T == {x - low : x \in S}
  <1>1. \A x \in S : x - low \in Nat
    OBVIOUS
  <1>2. T \subseteq Nat /\ T # {}
    BY <1>1
  <1>3. PICK t \in T : \A u \in T : t <= u
    <2> HIDE DEF T
    <2> QED BY <1>2, LeastOfNat
  <1>4. PICK x \in S : t = x - low
    OBVIOUS
  <1>5. ASSUME NEW y \in S
        PROVE  x <= y
    <2>1. x \in Int /\ y \in Int /\ y - low \in T
      OBVIOUS
    <2>2. t <= y - low
      BY <1>3, <2>1
    <2> HIDE DEF T
    <2> QED BY <1>4, <2>1, <2>2
  <1> QED BY <1>5 DEF Min

LEMMA Greatest ==
    ASSUME NEW S \in SUBSET Int, S # {}, NEW high \in Int, \A x \in S : x <= high
    PROVE  Max(S) \in S /\ \A x \in S : x <= Max(S)
  <1> DEFINE T == {high - x : x \in S}
  <1>1. \A x \in S : high - x \in Nat
    OBVIOUS
  <1>2. T \subseteq Nat /\ T # {}
    BY <1>1
  <1>3. PICK t \in T : \A u \in T : t <= u
    <2> HIDE DEF T
    <2> QED BY <1>2, LeastOfNat
  <1>4. PICK x \in S : t = high - x
    OBVIOUS
  <1>5. ASSUME NEW y \in S
        PROVE  x >= y
    <2>1. x \in Int /\ y \in Int /\ high - y \in T
      OBVIOUS
    <2>2. t <= high - y
      BY <1>3, <2>1
    <2> HIDE DEF T
    <2> QED BY <1>4, <2>1, <2>2
  <1>6. Max(S) \in S /\ \A y \in S : Max(S) >= y
    BY <1>5 DEF Max
  <1> QED BY <1>6

\* The times at which a cluster processed orders since some moment.
Times(c, since) == {p.at : p \in {p \in processed : p.cluster = c /\ p.at >= since_slots(since)}}

\* When orders were processed.
OrdersAreDated == now \in Nat /\ \A p \in processed : p.cluster \in Cluster /\ p.at \in 0..now

\* The windows of the clusters begin and end with an order.
LEMMA WindowsAreTimes ==
    ASSUME OrdersAreDated, NEW since \in Int
    PROVE  LET ws == windows(processed, since)
           IN  /\ DOMAIN ws = {c \in Cluster : Times(c, since) # {}}
               /\ \A c \in DOMAIN ws :
                     /\ Times(c, since) \subseteq 0..now
                     /\ ws[c].first \in Times(c, since) /\ ws[c].last \in Times(c, since)
                     /\ \A t \in Times(c, since) : ws[c].first <= t /\ t <= ws[c].last
  <1> DEFINE ws == windows(processed, since)
  <1>1. ws = [c \in {c \in Cluster : Times(c, since) # {}} |->
                 [first |-> Min(Times(c, since)), last |-> Max(Times(c, since))]]
    BY DEF windows, Times
  <1>2. DOMAIN ws = {c \in Cluster : Times(c, since) # {}}
    BY <1>1
  <1>3. ASSUME NEW c \in DOMAIN ws
        PROVE  /\ Times(c, since) \subseteq 0..now
               /\ ws[c].first \in Times(c, since) /\ ws[c].last \in Times(c, since)
               /\ \A t \in Times(c, since) : ws[c].first <= t /\ t <= ws[c].last
    <2>1. Times(c, since) \subseteq 0..now
      BY DEF Times, OrdersAreDated
    <2>2. Times(c, since) # {} /\ ws[c].first = Min(Times(c, since)) /\ ws[c].last = Max(Times(c, since))
      BY <1>1, <1>2, <1>3
    <2>3. now \in Int /\ 0 \in Int /\ Times(c, since) \in SUBSET Int
          /\ \A t \in Times(c, since) : 0 <= t /\ t <= now
      BY <2>1 DEF OrdersAreDated
    <2>4. Min(Times(c, since)) \in Times(c, since) /\ \A t \in Times(c, since) : Min(Times(c, since)) <= t
      BY <2>2, <2>3, Least
    <2>5. Max(Times(c, since)) \in Times(c, since) /\ \A t \in Times(c, since) : t <= Max(Times(c, since))
      BY <2>2, <2>3, Greatest
    <2> QED BY <2>1, <2>2, <2>4, <2>5
  <1> QED BY <1>2, <1>3

\* The time from the later of the beginnings to the earlier of the ends of two windows.
Common(v, w) == Min({v.last, w.last}) - Max({v.first, w.first})

\* The overlap that verify reports is that of two clusters, or none, and no two have more.
LEMMA OverlapIsGreatest ==
    ASSUME OrdersAreDated, NEW since \in Int
    PROVE  LET ws == windows(processed, since)
           IN  /\ \A c, d \in DOMAIN ws : c # d =>
                     /\ Common(ws[c], ws[d]) \in Int
                     /\ \A e, f \in {c, d} : Common(ws[c], ws[d]) <= ws[e].last - ws[f].first
                     /\ \A low, high \in Int :
                           /\ low <= ws[c].last /\ low <= ws[d].last
                           /\ ws[c].first <= high /\ ws[d].first <= high
                           => low - high <= Common(ws[c], ws[d])
                     /\ Common(ws[c], ws[d]) <= overlap_seconds(ws)
               /\ \/ overlap_seconds(ws) = 0
                  \/ \E c, d \in DOMAIN ws : c # d /\ overlap_seconds(ws) = Common(ws[c], ws[d])
  <1> DEFINE ws == windows(processed, since)
             together == {p \in (DOMAIN ws) \X (DOMAIN ws) : p[1] # p[2]}
             S == {0} \cup {Common(ws[p[1]], ws[p[2]]) : p \in together}
  <1>1. overlap_seconds(ws) = Max(S)
    BY DEF overlap_seconds, Common
  <1>2. \A c \in DOMAIN ws : ws[c].first \in 0..now /\ ws[c].last \in 0..now
    BY WindowsAreTimes
  <1>3. ASSUME NEW v, NEW w, v.first \in 0..now, v.last \in 0..now, w.first \in 0..now, w.last \in 0..now
        PROVE  /\ Common(v, w) \in Int /\ Common(v, w) <= now
               /\ \A x \in {v, w}, y \in {v, w} : Common(v, w) <= x.last - y.first
               /\ \A low, high \in Int : low <= v.last /\ low <= w.last /\ v.first <= high /\ w.first <= high
                     => low - high <= Common(v, w)
    <2>1. now \in Nat
      BY DEF OrdersAreDated
    <2>2. {v.last, w.last} \in SUBSET Int /\ {v.last, w.last} # {} /\ \A x \in {v.last, w.last} : 0 <= x
      BY <1>3, <2>1
    <2>3. {v.first, w.first} \in SUBSET Int /\ {v.first, w.first} # {} /\ \A x \in {v.first, w.first} : x <= now
      BY <1>3, <2>1
    <2>4. Min({v.last, w.last}) \in {v.last, w.last} /\ \A x \in {v.last, w.last} : Min({v.last, w.last}) <= x
      BY <2>2, Least
    <2>5. Max({v.first, w.first}) \in {v.first, w.first} /\ \A x \in {v.first, w.first} : x <= Max({v.first, w.first})
      BY <2>1, <2>3, Greatest
    <2> DEFINE m == Min({v.last, w.last})
               n == Max({v.first, w.first})
    <2>6. /\ m \in {v.last, w.last} /\ m <= v.last /\ m <= w.last
          /\ n \in {v.first, w.first} /\ v.first <= n /\ w.first <= n
      BY <2>4, <2>5
    <2>7. Common(v, w) = m - n
      BY DEF Common
    <2> HIDE DEF m, n
    <2>8. m - n \in Int /\ m - n <= now
      BY <1>3, <2>1, <2>6
    <2>9. \A x \in {v, w}, y \in {v, w} : m - n <= x.last - y.first
      BY <1>3, <2>1, <2>6
    <2>10. \A low, high \in Int : low <= v.last /\ low <= w.last /\ v.first <= high /\ w.first <= high
                => low - high <= m - n
      BY <1>3, <2>1, <2>6
    <2> QED BY <2>7, <2>8, <2>9, <2>10
  <1> HIDE DEF ws
  <1>4. ASSUME NEW x \in S
        PROVE  x \in Int /\ x <= now
    <2>1. CASE x = 0
      BY <2>1 DEF OrdersAreDated
    <2>2. CASE x # 0
      <3>1. PICK p \in together : x = Common(ws[p[1]], ws[p[2]])
        BY <2>2
      <3>2. p[1] \in DOMAIN ws /\ p[2] \in DOMAIN ws
        OBVIOUS
      <3> QED BY <1>2, <1>3, <3>1, <3>2
    <2> QED BY <2>1, <2>2
  <1>5. Max(S) \in S /\ \A x \in S : x <= Max(S)
    <2>1. S # {} /\ now \in Int
      BY DEF OrdersAreDated
    <2> HIDE DEF S
    <2> QED BY <1>4, <2>1, Greatest
  <1>6. ASSUME NEW c \in DOMAIN ws, NEW d \in DOMAIN ws, c # d
        PROVE  Common(ws[c], ws[d]) \in S
    <2>1. <<c, d>> \in together
      BY <1>6
    <2> QED BY <2>1
  <1>7. Max(S) = 0 \/ \E c, d \in DOMAIN ws : c # d /\ Max(S) = Common(ws[c], ws[d])
    <2> SUFFICES ASSUME Max(S) # 0
                 PROVE  \E c, d \in DOMAIN ws : c # d /\ Max(S) = Common(ws[c], ws[d])
      OBVIOUS
    <2> DEFINE m == Max(S)
    <2>1. m \in S /\ m # 0
      BY <1>5
    <2> HIDE DEF m
    <2>2. PICK p \in together : m = Common(ws[p[1]], ws[p[2]])
      BY <2>1
    <2> QED BY <2>2 DEF m
  <1>8. ASSUME NEW c \in DOMAIN ws, NEW d \in DOMAIN ws, c # d
        PROVE  /\ Common(ws[c], ws[d]) \in Int
               /\ \A e, f \in {c, d} : Common(ws[c], ws[d]) <= ws[e].last - ws[f].first
               /\ \A low, high \in Int :
                     /\ low <= ws[c].last /\ low <= ws[d].last
                     /\ ws[c].first <= high /\ ws[d].first <= high
                     => low - high <= Common(ws[c], ws[d])
               /\ Common(ws[c], ws[d]) <= overlap_seconds(ws)
    <2>1. Common(ws[c], ws[d]) <= overlap_seconds(ws)
      BY <1>1, <1>5, <1>6, <1>8
    <2> QED BY <1>2, <1>3, <2>1
  <1>9. overlap_seconds(ws) = 0 \/ \E c, d \in DOMAIN ws : c # d /\ overlap_seconds(ws) = Common(ws[c], ws[d])
    BY <1>1, <1>7
  <1> QED BY <1>8, <1>9 DEF ws

\* Until the lease moves twice, it is where it was and nobody lost it, or it moved once:
\* then whoever had it processes no order after the fence, and the holder none before.
NobodyLost == holder = First /\ lost = [c \in Cluster |-> NoTime]
MovedOnce ==
    /\ holder # First /\ holder \in on /\ moves = 1
    /\ lost[First] \in Nat /\ \A c \in Cluster \ {First} : lost[c] = NoTime

OrdersInv ==
    /\ OrdersAreDated
    /\ moves \in Nat /\ holder \in Cluster /\ lost \in [Cluster -> Nat \cup {NoTime}]
    /\ \A c \in Cluster : lost[c] # NoTime => lost[c] <= now
    /\ moves = 0 => holder \in on
    /\ moves <= 1 =>
          \/ NobodyLost /\ \A p \in processed : p.cluster = First
          \/ MovedOnce /\ \A p \in processed :
                             \/ p.cluster = First /\ p.at <= lost[First] + Fence
                             \/ p.cluster = holder /\ p.at >= lost[First]

\* Orders are processed by the holder, or by whoever lost the lease as long as the fence
\* lets it.
LEMMA OrdersStayDated ==
    ASSUME NEW schedule
    PROVE  EvidenceSpec(schedule) => []OrdersInv
  <1> USE DelaysAreTimes DEF NobodyLost, MovedOnce, OrdersAreDated
  <1>0. NoTime \in Int /\ NoTime \notin Nat
    BY DEF NoTime
  <1>1. InitEvidence(schedule) => OrdersInv
    BY <1>0 DEF InitEvidence, OrdersInv
  <1>2. OrdersInv /\ [Proceed]_vars => OrdersInv'
    <2> SUFFICES ASSUME OrdersInv, [Proceed]_vars PROVE OrdersInv'
      OBVIOUS
    <2>1. CASE Drain
      BY <2>1 DEF Drain, OrdersInv
    <2>2. ASSUME NEW c \in Cluster, HandOver(c)
          PROVE  OrdersInv'
      <3>1. /\ UNCHANGED <<now, moves, processed>> /\ holder \notin on /\ holder' = c /\ on' = on \cup {c}
            /\ lost' = IF c = holder THEN lost ELSE [lost EXCEPT ![holder] = now]
        BY <2>2 DEF HandOver
      <3>2. lost' \in [Cluster -> Nat \cup {NoTime}] /\ \A d \in Cluster : lost'[d] # NoTime => lost'[d] <= now
        BY <1>0, <3>1 DEF OrdersInv
      <3>3. CASE moves <= 1
        <4>1. moves = 1 /\ NobodyLost /\ \A p \in processed : p.cluster = First
          BY <3>1, <3>3 DEF OrdersInv
        <4>2. CASE c = First
          BY <3>1, <3>2, <4>1, <4>2 DEF OrdersInv
        <4>3. CASE c # First
          <5>1. lost'[First] = now /\ \A d \in Cluster \ {First} : lost'[d] = NoTime
            BY <3>1, <4>1, <4>3
          <5>2. \A p \in processed : p.at <= now + Fence
            BY DEF OrdersInv
          <5> QED BY <3>1, <3>2, <4>1, <4>3, <5>1, <5>2 DEF OrdersInv
        <4> QED BY <4>2, <4>3
      <3>4. CASE ~(moves <= 1)
        BY <3>1, <3>2, <3>4 DEF OrdersInv
      <3> QED BY <3>3, <3>4
    <2>3. ASSUME NEW c \in Cluster, TakeOver(c)
          PROVE  OrdersInv'
      <3>1. /\ UNCHANGED <<now, processed>> /\ moves' = moves + 1 /\ c # holder
            /\ holder' = c /\ on' = on \cup {c} /\ lost' = [lost EXCEPT ![holder] = now]
        BY <2>3 DEF TakeOver
      <3>2. lost' \in [Cluster -> Nat \cup {NoTime}] /\ \A d \in Cluster : lost'[d] # NoTime => lost'[d] <= now
        BY <1>0, <3>1 DEF OrdersInv
      <3>3. CASE moves = 0
        <4>1. NobodyLost /\ \A p \in processed : p.cluster = First
          BY <3>3 DEF OrdersInv
        <4>2. lost'[First] = now /\ \A d \in Cluster \ {First} : lost'[d] = NoTime
          BY <3>1, <4>1
        <4>3. \A p \in processed : p.at <= now + Fence
          BY DEF OrdersInv
        <4> QED BY <3>1, <3>2, <3>3, <4>1, <4>2, <4>3 DEF OrdersInv
      <3>4. CASE moves # 0
        BY <3>1, <3>2, <3>4 DEF OrdersInv
      <3> QED BY <3>3, <3>4
    <2>4. ASSUME NEW c \in Cluster, SwitchOffLate(c)
          PROVE  OrdersInv'
      BY <2>4 DEF SwitchOffLate, OrdersInv
    <2>5. CASE Sweep
      BY <2>5 DEF Sweep, Fire, RunJob, RunUnread, JobFails, Record, leaseVars, OrdersInv
    <2>6. ASSUME NEW c \in Cluster, Process(c)
          PROVE  OrdersInv'
      <3>1. /\ UNCHANGED <<now, holder, on, lost, moves>>
            /\ processed' = processed \cup {[cluster |-> c, at |-> now]}
            /\ holder = c \/ (lost[c] # NoTime /\ ~(now - lost[c] > Fence))
        BY <2>6 DEF Process, fenced, leaseVars
      <3>2. \A p \in processed' : p \in processed \/ (p.cluster = c /\ p.at = now)
        BY <3>1
      <3>3. \A p \in processed' : p.cluster \in Cluster /\ p.at \in 0..now
        BY <3>2 DEF OrdersInv
      <3>4. CASE moves <= 1 /\ NobodyLost
        <4>1. c = First /\ \A p \in processed : p.cluster = First
          BY <3>1, <3>4 DEF OrdersInv
        <4> QED BY <3>1, <3>2, <3>3, <3>4, <4>1 DEF OrdersInv
      <3>5. CASE moves <= 1 /\ MovedOnce
        <4>1. \/ c = holder /\ now >= lost[First]
              \/ c = First /\ now <= lost[First] + Fence
          BY <1>0, <3>1, <3>5 DEF OrdersInv
        <4>2. \A p \in processed : \/ p.cluster = First /\ p.at <= lost[First] + Fence
                                   \/ p.cluster = holder /\ p.at >= lost[First]
          BY <3>5 DEF OrdersInv
        <4> QED BY <3>1, <3>2, <3>3, <3>5, <4>1, <4>2 DEF OrdersInv
      <3>6. CASE ~(moves <= 1)
        BY <3>1, <3>3, <3>6 DEF OrdersInv
      <3> QED BY <3>4, <3>5, <3>6 DEF OrdersInv
    <2>7. CASE Tick
      BY <2>7 DEF Tick, leaseVars, OrdersInv
    <2>8. CASE UNCHANGED vars
      BY <2>8 DEF vars, OrdersInv
    <2> QED BY <2>1, <2>2, <2>3, <2>4, <2>5, <2>6, <2>7, <2>8 DEF Proceed, MoveLease
  <1> QED BY <1>1, <1>2, PTL DEF EvidenceSpec

\* When verify reports consumers of both clusters at once (verify.overlap_seconds) after
\* one move of the lease, the fence let them, and for no longer than that; clusters that
\* take turns are always reported.
THEOREM OverlapIsReported ==
    ASSUME NEW schedule
    PROVE  EvidenceSpec(schedule) => []OverlapIsTold
  <1>1. ASSUME OrdersInv, NEW since \in Int, moves <= 1
        PROVE  overlap_seconds(windows(processed, since)) <= Fence
    <2> DEFINE ws == windows(processed, since)
    <2>1. OrdersAreDated /\ Fence \in Nat /\ now \in Nat
      BY <1>1, DelaysAreTimes DEF OrdersInv, OrdersAreDated
    <2>2. overlap_seconds(ws) = 0 \/ \E c, d \in DOMAIN ws : c # d /\ overlap_seconds(ws) = Common(ws[c], ws[d])
      BY <2>1, OverlapIsGreatest
    <2>3. ASSUME NEW c \in DOMAIN ws, NEW d \in DOMAIN ws, c # d
          PROVE  Common(ws[c], ws[d]) <= Fence
      <3>1. /\ ws[c].first \in Times(c, since) /\ ws[c].last \in Times(c, since)
            /\ ws[d].first \in Times(d, since) /\ ws[d].last \in Times(d, since)
        BY <2>1, WindowsAreTimes
      <3>2. /\ Common(ws[c], ws[d]) \in Int
            /\ Common(ws[c], ws[d]) <= ws[c].last - ws[d].first
            /\ Common(ws[c], ws[d]) <= ws[d].last - ws[c].first
        BY <2>1, <2>3, OverlapIsGreatest
      <3> HIDE DEF ws
      <3>3. \A e : \A t \in Times(e, since) :
               t \in 0..now /\ \E p \in processed : p.cluster = e /\ p.at = t
        BY <2>1 DEF Times, OrdersAreDated
      <3>4. MovedOnce
        BY <1>1, <2>3, <3>1, <3>3 DEF OrdersInv
      <3>5. \A p \in processed : \/ p.cluster = First /\ p.at <= lost[First] + Fence
                                 \/ p.cluster = holder /\ p.at >= lost[First]
        BY <1>1, <3>4 DEF OrdersInv, MovedOnce, NobodyLost
      <3>6. holder # First /\ lost[First] \in Nat
        BY <3>4 DEF MovedOnce
      <3>7. ASSUME NEW t \in Times(First, since)
            PROVE  t \in 0..now /\ t <= lost[First] + Fence
        BY <3>3, <3>5, <3>6
      <3>8. ASSUME NEW t \in Times(holder, since)
            PROVE  t \in 0..now /\ t >= lost[First]
        BY <3>3, <3>5, <3>6
      <3>9. c \in {First, holder} /\ d \in {First, holder}
        BY <3>1, <3>3, <3>5
      <3>10. CASE c = First /\ d = holder
        <4>1. /\ ws[c].last \in Int /\ ws[c].last <= lost[First] + Fence
              /\ ws[d].first \in Int /\ ws[d].first >= lost[First]
          BY <2>1, <3>1, <3>7, <3>8, <3>10
        <4> QED BY <2>1, <3>2, <3>6, <4>1
      <3>11. CASE c = holder /\ d = First
        <4>1. /\ ws[d].last \in Int /\ ws[d].last <= lost[First] + Fence
              /\ ws[c].first \in Int /\ ws[c].first >= lost[First]
          BY <2>1, <3>1, <3>7, <3>8, <3>11
        <4> QED BY <2>1, <3>2, <3>6, <4>1
      <3> QED BY <2>3, <3>9, <3>10, <3>11
    <2> HIDE DEF ws
    <2>4. overlap_seconds(ws) <= Fence
      BY <2>1, <2>2, <2>3
    <2> QED BY <2>4 DEF ws
  <1>2. WindowStarts \subseteq Int
    BY SlotsArePositive DEF WindowStarts
  <1>3. OrdersInv => OverlapIsFenced
    BY <1>1, <1>2 DEF OverlapIsFenced
  <1>4. OrdersInv => OverlapIsSeen
    <2> SUFFICES ASSUME OrdersInv, NEW since \in WindowStarts,
                        NEW p \in processed, NEW q \in processed, NEW r \in processed, NEW s \in processed,
                        \A x \in {p, q, r, s} : x.at >= since_slots(since),
                        p.cluster = r.cluster, q.cluster = s.cluster, p.cluster # q.cluster,
                        p.at < q.at, q.at < r.at, r.at < s.at
                 PROVE  overlap_seconds(windows(processed, since)) > 0
      BY DEF OverlapIsSeen
    <2> DEFINE ws == windows(processed, since)
               c == p.cluster
               d == q.cluster
    <2>1. since \in Int /\ OrdersAreDated
      BY <1>2 DEF OrdersInv
    <2>2. c \in Cluster /\ d \in Cluster /\ \A x \in {p, q, r, s} : x.at \in 0..now
      BY <2>1 DEF OrdersAreDated
    <2>3. p.at \in Times(c, since) /\ r.at \in Times(c, since) /\ q.at \in Times(d, since) /\ s.at \in Times(d, since)
      BY DEF Times
    <2>4. c \in DOMAIN ws /\ d \in DOMAIN ws
      BY <2>1, <2>2, <2>3, WindowsAreTimes
    <2>5. /\ ws[c].first <= p.at /\ r.at <= ws[c].last /\ ws[d].first <= q.at /\ s.at <= ws[d].last
          /\ ws[c].first \in Int /\ ws[c].last \in Int /\ ws[d].first \in Int /\ ws[d].last \in Int
      <3>1. \A e \in {c, d} : /\ Times(e, since) \subseteq 0..now
                              /\ ws[e].first \in Times(e, since) /\ ws[e].last \in Times(e, since)
                              /\ \A t \in Times(e, since) : ws[e].first <= t /\ t <= ws[e].last
        BY <2>1, <2>4, WindowsAreTimes
      <3> HIDE DEF ws
      <3> QED BY <2>3, <3>1
    <2>6. /\ \A low, high \in Int :
                /\ low <= ws[c].last /\ low <= ws[d].last /\ ws[c].first <= high /\ ws[d].first <= high
                => low - high <= Common(ws[c], ws[d])
          /\ Common(ws[c], ws[d]) \in Int /\ Common(ws[c], ws[d]) <= overlap_seconds(ws)
      BY <2>1, <2>4, OverlapIsGreatest
    <2>7. overlap_seconds(ws) \in Int
      <3>1. overlap_seconds(ws) = 0 \/ \E e, f \in DOMAIN ws : e # f /\ overlap_seconds(ws) = Common(ws[e], ws[f])
        BY <2>1, OverlapIsGreatest
      <3>2. \A e, f \in DOMAIN ws : e # f => Common(ws[e], ws[f]) \in Int
        BY <2>1, OverlapIsGreatest
      <3> HIDE DEF ws
      <3> QED BY <3>1, <3>2
    <2> HIDE DEF ws, c, d
    <2>8. r.at - q.at <= Common(ws[c], ws[d])
      <3>1. /\ r.at \in Int /\ q.at \in Int /\ p.at \in Int /\ s.at \in Int
        BY <2>2
      <3>2. r.at <= ws[c].last /\ r.at <= ws[d].last /\ ws[c].first <= q.at /\ ws[d].first <= q.at
        BY <2>5, <3>1
      <3> QED BY <2>6, <3>1, <3>2
    <2>9. overlap_seconds(ws) > 0
      BY <2>2, <2>6, <2>7, <2>8
    <2> QED BY <2>9 DEF ws
  <1> QED BY <1>3, <1>4, OrdersStayDated, PTL DEF OverlapIsTold
=============================================================================
