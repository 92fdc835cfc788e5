-------------------------- MODULE OneProcessProofs --------------------------
(***************************************************************************)
(* Proofs about JobStore when a single process works on the table and any  *)
(* others only submit: the lock that its threads share makes a call's read *)
(* and its write one, so what a call has read still holds when it writes,  *)
(* whatever is inserted meanwhile.                                         *)
(***************************************************************************)
EXTENDS JobStoreProofs

\* Thread t does more than submit.
Works(t) == Uses[t] \ {"submit"} # {}

OneWorkingProcess ==
    \A t, u \in Thread : Works(t) /\ Works(u) => ProcessOf[t] = ProcessOf[u]

-----------------------------------------------------------------------------
(* The invariant *)

MarkOps == {"succeeded", "failed", "archived", "retry_scheduled", "dead_lettered"}

Inside(t) == window[t].op \in LockedOps

\* What the call op of thread t has read, and put into plan, is still so.
StillSo(t, op, plan) ==
    \A j \in Job, to \in Status : <<j, to>> \in plan =>
        /\ op \in MarkOps => to = op /\ <<jobs[j].status, to>> \in ValidTransitions
        /\ op = "release" => to = "pending" /\ HoldsLease(t, j)
        /\ op = "heartbeat" => HoldsLease(t, j)
        /\ op = "recover" => to \in {"pending", "retry_scheduled"} /\ LeaseExpired(j)
        /\ op = "promote" => jobs[j].status = "retry_scheduled"
        /\ op = "submit" => to = "pending" /\ jobs[j].status = "absent"

\* One thread at most is inside a call, a thread that works; what it has read
\* holds; and no two threads are about to insert the same job.
Serial ==
    /\ \A t, u \in Thread : Inside(t) /\ Inside(u) => t = u
    /\ \A t \in Thread : window[t].op \in LockedOps \cup {"decide"} => Works(t)
    /\ \A t \in Thread : StillSo(t, window[t].op, window[t].plan)
    /\ \A t, u \in Thread, j \in Job :
          /\ window[t].op = "submit" /\ window[u].op = "submit"
          /\ <<j, "pending">> \in window[t].plan /\ <<j, "pending">> \in window[u].plan
          => t = u

-----------------------------------------------------------------------------
(* The six ways of JobStoreProofs, with what the calls had read *)

Tells(event, status) ==
    <<event, status>> \in
        {<<"job_created", "pending">>, <<"job_claimed", "running">>,
         <<"job_succeeded", "succeeded">>, <<"job_failed", "failed">>,
         <<"job_archived", "archived">>, <<"job_released", "pending">>,
         <<"retry_scheduled", "retry_scheduled">>,
         <<"job_dead_lettered", "dead_lettered">>,
         <<"retry_promoted", "pending">>, <<"lease_expired", "pending">>,
         <<"lease_expired", "retry_scheduled">>}

ValidMark(j, to, runAfter, event) ==
    /\ Marks(j, to, runAfter, event)
    /\ <<jobs[j].status, to>> \in ValidTransitions
    /\ Tells(event, to)
    /\ event # "lease_expired"

ExpiredRecovery(t) ==
    /\ Recovers(t)
    /\ \A j \in Planned(t) \cap Job :
          /\ LeaseExpired(j)
          /\ <<j, "pending">> \in window[t].plan \/ <<j, "retry_scheduled">> \in window[t].plan

ParkedPromotion(t) ==
    /\ Promotes(t)
    /\ \A j \in Planned(t) \cap Job : jobs[j].status = "retry_scheduled"

SerialStep ==
    \/ UNCHANGED <<jobs, ledger>>
    \/ \E t \in Thread, j \in Job :
          \/ Inserts(t, j) /\ jobs[j].status = "absent"
          \/ Claims(t, j)
          \/ Renews(t, j)
    \/ \E j \in Job, to \in Status, runAfter \in Time \cup {None}, event \in Event :
          ValidMark(j, to, runAfter, event)
    \/ \E t \in Thread : ExpiredRecovery(t) \/ ParkedPromotion(t)

LEMMA StepsOfSerialTable ==
    ASSUME TypeOK, Serial, [Next]_vars PROVE SerialStep
<1> USE DEF TypeOK, Row, Window, Time
<1> DEFINE Read(t) == StillSo(t, window[t].op, window[t].plan)
<1>1. ASSUME NEW t \in Thread, NEW j \in Job, JobStep(t, j) PROVE SerialStep
  <2>0. Read(t)
    BY DEF Serial
  <2>1. CASE SubmitLookup(t, j)
    BY <2>1 DEF SubmitLookup, Begin, SerialStep
  <2>2. CASE CreateJob(t, j)
    <3>1. jobs[j].status = "absent"
      BY <2>0, <2>2 DEF CreateJob, StillSo, Status
    <3>2. Inserts(t, j) \/ UNCHANGED <<jobs, ledger>>
      BY <2>2 DEF CreateJob, Refuse, Inserts
    <3>3. QED
      BY <3>1, <3>2 DEF SerialStep
  <2>3. CASE ClaimNext(t, j)
    BY <2>3 DEF ClaimNext, Enters, SerialStep, Claims
  <2>4. ASSUME NEW to \in MarkOps, NEW runAfter \in Time \cup {None}, NEW event \in Event,
               Tells(event, to), event # "lease_expired",
               CommitMark(t, j, to, runAfter, event)
        PROVE  SerialStep
    <3>1. to \in Status /\ to # "running"
      BY DEF MarkOps, Status
    <3>2. <<jobs[j].status, to>> \in ValidTransitions
      BY <2>0, <2>4, <3>1 DEF CommitMark, StillSo
    <3>3. Marks(j, to, runAfter, event) \/ UNCHANGED <<jobs, ledger>>
      BY <2>4, <3>1 DEF CommitMark, Refuse, Marks
    <3>4. QED
      BY <2>4, <3>1, <3>2, <3>3 DEF SerialStep, ValidMark
  <2>5. ASSUME NEW to \in Status, BeginMark(t, j, to) PROVE SerialStep
    BY <2>5 DEF BeginMark, Begin, SerialStep
  <2>6. /\ jobs[j].runAfter \in Time \cup {None}
        /\ window[t].at \in Time \cup {None}
    OBVIOUS
  <2>7. CASE MarkSucceeded(t, j)
    BY <2>4, <2>5, <2>6, <2>7 DEF MarkSucceeded, Status, Event, MarkOps, Tells
  <2>8. CASE MarkFailed(t, j)
    BY <2>4, <2>5, <2>6, <2>8 DEF MarkFailed, Status, Event, MarkOps, Tells
  <2>9. CASE MarkArchived(t, j)
    BY <2>4, <2>5, <2>6, <2>9 DEF MarkArchived, Status, Event, MarkOps, Tells
  <2>10. CASE MarkRetryScheduled(t, j)
    BY <2>4, <2>5, <2>6, <2>10 DEF MarkRetryScheduled, Status, Event, MarkOps, Tells
  <2>11. CASE MarkDeadLettered(t, j)
    BY <2>4, <2>5, <2>6, <2>11 DEF MarkDeadLettered, Status, Event, MarkOps, Tells
  <2>12. CASE DecideRetry(t, j) \/ RejectRetry(t, j)
    BY <2>12 DEF DecideRetry, RejectRetry, Begin, Refuse, SerialStep
  <2>13. CASE ReleaseJob(t, j)
    <3>1. CASE BeginRelease(t, j)
      BY <3>1 DEF BeginRelease, Begin, SerialStep
    <3>2. CASE CommitRelease(t, j) /\ KeyTaken(j)
      BY <3>2 DEF CommitRelease, Refuse, SerialStep
    <3>3. CASE CommitRelease(t, j) /\ ~KeyTaken(j)
      <4>1. jobs' = [jobs EXCEPT ![j] =
                       [Unleased(@, "pending") EXCEPT !.runAfter = jobs[j].runAfter]]
        BY <3>3 DEF CommitRelease, Unleased
      <4>2. Marks(j, "pending", jobs[j].runAfter, "job_released")
        BY <3>3, <4>1 DEF CommitRelease, Marks
      <4>3. jobs[j].status = "running"
        BY <2>0, <3>3 DEF CommitRelease, StillSo, Status, HoldsLease, Running
      <4>4. ValidMark(j, "pending", jobs[j].runAfter, "job_released")
        BY <4>2, <4>3 DEF ValidMark, ValidTransitions, Tells
      <4>5. QED
        BY <4>4, <2>6 DEF SerialStep, Status, Event
    <3>4. QED
      BY <2>13, <3>1, <3>2, <3>3 DEF ReleaseJob
  <2>14. CASE Heartbeat(t, j)
    BY <2>14 DEF Heartbeat, BeginHeartbeat, CommitHeartbeat, Begin, SerialStep, Renews
  <2>15. QED
    BY <1>1, <2>1, <2>2, <2>3, <2>7, <2>8, <2>9, <2>10, <2>11, <2>12, <2>13, <2>14
       DEF JobStep
<1>2. ASSUME NEW t \in Thread, SchedulerStep(t) PROVE SerialStep
  <2>1. ASSUME NEW j \in Planned(t) PROVE \E to \in Status : j \in Job /\ <<j, to>> \in window[t].plan
    <3>1. window[t].plan \subseteq Job \X Status
      BY DEF TypeOK, Window
    <3>2. PICK p \in window[t].plan : j = p[1]
      BY DEF Planned
    <3>3. p \in Job \X Status
      BY <3>1
    <3>4. p = <<j, p[2]>> /\ j \in Job /\ p[2] \in Status
      BY <3>2, <3>3
    <3>5. QED
      BY <3>2, <3>4
  <2>2. CASE BeginRecover(t) \/ BeginPromote(t)
    BY <2>2 DEF BeginRecover, BeginPromote, Begin, SerialStep
  <2>3. CASE CommitRecover(t)
    <3>1. Recovers(t) /\ window[t].op = "recover"
      BY <2>3 DEF CommitRecover, Recovers
    <3>2. ExpiredRecovery(t)
      BY <2>1, <3>1 DEF Serial, StillSo, ExpiredRecovery
    <3>3. QED
      BY <3>2 DEF SerialStep
  <2>4. CASE CommitPromote(t)
    <3>1. Promotes(t) /\ window[t].op = "promote"
      BY <2>4 DEF CommitPromote, Promotes
    <3>2. ParkedPromotion(t)
      BY <2>1, <3>1 DEF Serial, StillSo, ParkedPromotion
    <3>3. QED
      BY <3>2 DEF SerialStep
  <2>5. QED
    BY <1>2, <2>2, <2>3, <2>4 DEF SchedulerStep, RecoverExpiredLeases, PromoteDueRetries
<1>3. ASSUME NEW p \in Process, Crash(p) PROVE SerialStep
  BY <1>3 DEF Crash, SerialStep
<1>4. CASE Tick
  BY <1>4 DEF Tick, SerialStep
<1>5. CASE UNCHANGED vars
  BY <1>5 DEF vars, SerialStep
<1>6. QED
  BY <1>1, <1>2, <1>3, <1>4, <1>5 DEF Next

-----------------------------------------------------------------------------
(* The invariant is inductive *)

\* A call begins: nobody else is inside one, and what it has just read is so.
LEMMA BeginKeepsSerial ==
    ASSUME TypeOK, Serial, OneWorkingProcess, NEW t \in Thread,
           NEW op \in LockedOps \cup {"decide"}, NEW plan, NEW at,
           Works(t), LockFree(t), Begin(t, op, plan, at), StillSo(t, op, plan)
    PROVE  Serial'
<1> USE DEF TypeOK
<1>1. \A u \in Thread : ~Inside(u)
  BY DEF LockFree, OneWorkingProcess, Inside, Serial
<1>2. /\ window'[t].op = op /\ window'[t].plan = plan
      /\ \A u \in Thread \ {t} : window'[u] = window[u]
      /\ jobs' = jobs /\ clock' = clock
  BY DEF Begin
<1>3. \A u, v \in Thread : Inside(u)' /\ Inside(v)' => u = v
  BY <1>1, <1>2 DEF Inside
<1>4. ASSUME NEW u \in Thread PROVE StillSo(u, window[u].op, window[u].plan)'
  <2>1. StillSo(u, window'[u].op, window'[u].plan)
    BY <1>2 DEF Serial
  <2>2. QED
    BY <1>2, <2>1 DEF StillSo, HoldsLease, LeaseExpired, Running
<1>5. op # "submit"
  BY DEF LockedOps
<1>6. \A u \in Thread : window'[u].op \in LockedOps \cup {"decide"} => Works(u)
  BY <1>2 DEF Serial
<1>7. \A u, v \in Thread, j \in Job :
         /\ window'[u].op = "submit" /\ window'[v].op = "submit"
         /\ <<j, "pending">> \in window'[u].plan /\ <<j, "pending">> \in window'[v].plan
         => u = v
  BY <1>2, <1>5 DEF Serial
<1>8. QED
  BY <1>3, <1>4, <1>6, <1>7 DEF Serial

\* A call of a thread that works returns: nobody else is inside one, and the jobs
\* that others are about to insert are still absent.
LEMMA ReturnKeepsSerial ==
    ASSUME TypeOK, Serial, OneWorkingProcess, NEW t \in Thread,
           Inside(t) \/ (Works(t) /\ LockFree(t)),
           window' = [window EXCEPT ![t] = Idle],
           \A u \in Thread \ {t}, j \in Job :
              window[u].op = "submit" /\ <<j, "pending">> \in window[u].plan
                 => jobs'[j].status = jobs[j].status
    PROVE  Serial'
<1> USE DEF TypeOK
<1>1. \A u \in Thread \ {t} : ~Inside(u)
  BY DEF LockFree, OneWorkingProcess, Inside, Serial
<1>2. /\ window'[t].op = "idle" /\ window'[t].plan = {}
      /\ \A u \in Thread \ {t} : window'[u] = window[u]
  BY DEF Idle
<1>3. \A u, v \in Thread : Inside(u)' /\ Inside(v)' => u = v
  BY <1>1, <1>2 DEF Inside, LockedOps
<1>4. ASSUME NEW u \in Thread \ {t} PROVE StillSo(u, window[u].op, window[u].plan)'
  <2>1. /\ window[u].op \notin MarkOps \cup {"release", "heartbeat", "recover", "promote"}
        /\ StillSo(u, window[u].op, window[u].plan)
    BY <1>1 DEF Inside, LockedOps, MarkOps, Serial
  <2>2. QED
    BY <1>2, <2>1 DEF StillSo
<1>5. StillSo(t, window[t].op, window[t].plan)'
  BY <1>2 DEF StillSo
<1>6. \A u \in Thread : window'[u].op \in LockedOps \cup {"decide"} => Works(u)
  BY <1>2 DEF LockedOps, Serial
<1>7. \A u, v \in Thread, j \in Job :
         /\ window'[u].op = "submit" /\ window'[v].op = "submit"
         /\ <<j, "pending">> \in window'[u].plan /\ <<j, "pending">> \in window'[v].plan
         => u = v
  BY <1>2 DEF Serial
<1>8. QED
  BY <1>3, <1>4, <1>5, <1>6, <1>7 DEF Serial

LEMMA MarkKeepsSerial ==
    ASSUME TypeOK, Serial, OneWorkingProcess, NEW t \in Thread, NEW j \in Job,
           NEW to \in MarkOps, BeginMark(t, j, to)
    PROVE  Serial'
<1> USE DEF TypeOK
<1>1. to \in LockedOps /\ to \notin {"release", "heartbeat", "recover", "promote", "submit"}
  BY DEF MarkOps, LockedOps
<1>2. PICK at \in Time : Begin(t, to, {<<j, to>>}, at) /\ LockFree(t)
  BY DEF BeginMark, Enters, Window, Time
<1>3. Works(t)
  BY <1>1 DEF BeginMark, Enters, Works, Serial
<1>4. StillSo(t, to, {<<j, to>>})
  BY <1>1 DEF StillSo, BeginMark
<1>5. QED
  BY <1>1, <1>2, <1>3, <1>4, BeginKeepsSerial

\* A call inside the lock returns, and has inserted nothing.
LEMMA CommitKeepsSerial ==
    ASSUME TypeOK, Serial, OneWorkingProcess, NEW t \in Thread, Inside(t),
           window' = [window EXCEPT ![t] = Idle],
           \A k \in Job : jobs[k].status = "absent" => jobs'[k].status = "absent"
    PROVE  Serial'
<1>1. \A u \in Thread, j \in Job :
         window[u].op = "submit" /\ <<j, "pending">> \in window[u].plan
            => jobs[j].status = "absent"
  BY DEF Serial, StillSo, Status
<1>2. QED
  BY <1>1, ReturnKeepsSerial

LEMMA SerialInvariant ==
    ASSUME TypeOK, Serial, OneWorkingProcess, [Next]_vars PROVE Serial'
<1> USE DEF TypeOK, Time
<1>1. ASSUME NEW t \in Thread, NEW j \in Job, JobStep(t, j) PROVE Serial'
  <2>0. StillSo(t, window[t].op, window[t].plan)
    BY DEF Serial
  <2>1. CASE SubmitLookup(t, j)
    <3>1. /\ window[t].op = "idle"
          /\ jobs[j].status = "absent"
          /\ \A u \in Thread : <<j, "pending">> \notin window[u].plan
      BY <2>1 DEF SubmitLookup, Enters, Idle
    <3>2. /\ window'[t].op = "submit" /\ window'[t].plan = {<<j, "pending">>}
          /\ \A u \in Thread \ {t} : window'[u] = window[u]
          /\ jobs' = jobs /\ clock' = clock
      BY <2>1 DEF SubmitLookup, Begin
    <3>3. \A u, v \in Thread : Inside(u)' /\ Inside(v)' => u = v
      BY <3>1, <3>2 DEF Inside, LockedOps, Serial
    <3>4. ASSUME NEW u \in Thread \ {t} PROVE StillSo(u, window[u].op, window[u].plan)'
      <4>1. StillSo(u, window[u].op, window[u].plan)
        BY DEF Serial
      <4>2. QED
        BY <3>2, <4>1 DEF StillSo, HoldsLease, LeaseExpired, Running
    <3>5. StillSo(t, window[t].op, window[t].plan)'
      BY <3>1, <3>2 DEF StillSo, MarkOps
    <3>6. ASSUME NEW u \in Thread, NEW v \in Thread, NEW k \in Job,
                 window'[u].op = "submit", window'[v].op = "submit",
                 <<k, "pending">> \in window'[u].plan, <<k, "pending">> \in window'[v].plan
          PROVE  u = v
      <4>1. CASE u # t /\ v # t
        BY <3>2, <3>6, <4>1 DEF Serial
      <4>2. CASE u = t \/ v = t
        BY <3>1, <3>2, <3>6, <4>2
      <4>3. QED
        BY <4>1, <4>2
    <3>7. \A u \in Thread : (window[u].op \in LockedOps \cup {"decide"})' => Works(u)
      BY <3>2 DEF LockedOps, Serial
    <3>8. QED
      BY <3>3, <3>4, <3>5, <3>6, <3>7 DEF Serial
  <2>2. CASE CreateJob(t, j)
    <3>1. /\ window'[t] = Idle /\ \A u \in Thread \ {t} : window'[u] = window[u]
          /\ \A k \in Job \ {j} : jobs'[k] = jobs[k]
          /\ clock' = clock
      BY <2>2 DEF CreateJob, Refuse
    <3>2. /\ Idle.op \notin LockedOps \cup {"submit", "decide"} /\ Idle.plan = {}
          /\ StillSo(t, "idle", {})'
      BY DEF Idle, LockedOps, StillSo
    <3>3. ASSUME NEW u \in Thread \ {t} PROVE StillSo(u, window[u].op, window[u].plan)'
      <4>1. StillSo(u, window[u].op, window[u].plan)
        BY DEF Serial
      <4>2. ASSUME NEW to \in Status, <<j, to>> \in window[u].plan
            PROVE  window[u].op \notin MarkOps \cup {"release", "heartbeat", "recover", "promote", "submit"}
        <5>1. jobs[j].status = "absent"
          BY <2>0, <2>2 DEF CreateJob, StillSo, Status
        <5>2. window[u].op # "submit"
          BY <2>2, <4>1, <4>2 DEF CreateJob, Serial, StillSo
        <5>3. window[u].op \notin MarkOps
          BY <4>1, <4>2, <5>1 DEF StillSo, ValidTransitions
        <5>4. QED
          BY <4>1, <4>2, <5>1, <5>2, <5>3 DEF StillSo, HoldsLease, LeaseExpired, Running
      <4>3. QED
        BY <3>1, <4>1, <4>2 DEF StillSo, HoldsLease, LeaseExpired, Running
    <3>4. Idle.op = "idle"
      BY DEF Idle
    <3>5. QED
      BY <3>1, <3>2, <3>3, <3>4 DEF Serial, Inside
  <2>3. CASE ClaimNext(t, j)
    <3>1. /\ \A u \in Thread : ~Inside(u)
          /\ jobs[j].status = "pending"
          /\ \A k \in Job \ {j} : jobs'[k] = jobs[k]
          /\ window' = window
      BY <2>3 DEF ClaimNext, Enters, Claimable, LockFree, OneWorkingProcess, Works, Inside, Serial
    <3>2. ASSUME NEW u \in Thread PROVE StillSo(u, window[u].op, window[u].plan)'
      <4>1. /\ StillSo(u, window[u].op, window[u].plan)
            /\ window[u].op \notin MarkOps \cup {"release", "heartbeat", "recover", "promote"}
        BY <3>1 DEF Serial, Inside, LockedOps, MarkOps
      <4>2. QED
        BY <3>1, <4>1 DEF StillSo
    <3>3. QED
      BY <3>1, <3>2 DEF Serial, Inside
  <2>4. ASSUME NEW to \in MarkOps, NEW runAfter, NEW event,
               CommitMark(t, j, to, runAfter, event)
        PROVE  Serial'
    <3>1. Inside(t) /\ window' = [window EXCEPT ![t] = Idle]
      BY <2>4 DEF CommitMark, Refuse, Inside, MarkOps, LockedOps
    <3>2. <<jobs[j].status, to>> \in ValidTransitions
      BY <2>0, <2>4 DEF CommitMark, StillSo, MarkOps, Status
    <3>3. jobs[j].status # "absent"
      BY <3>2 DEF ValidTransitions
    <3>4. \A k \in Job \ {j} : jobs'[k] = jobs[k]
      BY <2>4 DEF CommitMark, Refuse
    <3>5. QED
      BY <3>1, <3>3, <3>4, CommitKeepsSerial
  <2>5. CASE \/ MarkSucceeded(t, j) \/ MarkFailed(t, j) \/ MarkArchived(t, j)
             \/ MarkRetryScheduled(t, j) \/ MarkDeadLettered(t, j)
    BY <2>4, <2>5, MarkKeepsSerial DEF MarkSucceeded, MarkFailed, MarkArchived,
       MarkRetryScheduled, MarkDeadLettered, MarkOps
  <2>6. CASE DecideRetry(t, j)
    <3>1. Works(t) /\ LockFree(t) /\ \E plan, at : Begin(t, "decide", plan, at)
      BY <2>6 DEF DecideRetry, Enters, Works
    <3>2. \A plan : StillSo(t, "decide", plan)
      BY DEF StillSo, MarkOps
    <3>3. QED
      BY <3>1, <3>2, BeginKeepsSerial
  <2>7. CASE RejectRetry(t, j)
    <3>1. /\ Works(t) /\ LockFree(t) /\ window' = [window EXCEPT ![t] = Idle] /\ jobs' = jobs
      BY <2>7 DEF RejectRetry, Refuse, Serial
    <3>2. QED
      BY <3>1, ReturnKeepsSerial
  <2>8. CASE BeginRelease(t, j) \/ BeginHeartbeat(t, j)
    <3>1. PICK op \in {"release", "heartbeat"} :
             /\ Works(t) /\ LockFree(t) /\ HoldsLease(t, j)
             /\ \/ op = "release" /\ Begin(t, op, {<<j, "pending">>}, 0)
                \/ op = "heartbeat" /\ Begin(t, op, {<<j, "running">>}, 0)
      BY <2>8 DEF BeginRelease, BeginHeartbeat, Enters, Works
    <3>2. \A to \in Status : StillSo(t, "heartbeat", {<<j, to>>})
      BY <3>1 DEF StillSo, MarkOps
    <3>3. StillSo(t, "release", {<<j, "pending">>})
      BY <3>1 DEF StillSo, MarkOps
    <3>4. "release" \in LockedOps /\ "heartbeat" \in LockedOps /\ "running" \in Status
      BY DEF LockedOps, Status
    <3>5. QED
      BY <3>1, <3>2, <3>3, <3>4, BeginKeepsSerial
  <2>9. CASE CommitRelease(t, j)
    <3>1. Inside(t) /\ window' = [window EXCEPT ![t] = Idle]
      BY <2>9 DEF CommitRelease, Refuse, Inside, LockedOps
    <3>2. jobs[j].status = "running"
      BY <2>0, <2>9 DEF CommitRelease, StillSo, HoldsLease, Running, Status
    <3>3. \A k \in Job \ {j} : jobs'[k] = jobs[k]
      BY <2>9 DEF CommitRelease, Refuse
    <3>4. QED
      BY <3>1, <3>2, <3>3, CommitKeepsSerial
  <2>10. CASE CommitHeartbeat(t, j)
    <3>1. Inside(t) /\ window' = [window EXCEPT ![t] = Idle]
      BY <2>10 DEF CommitHeartbeat, Inside, LockedOps
    <3>2. \A k \in Job : jobs'[k].status = jobs[k].status
      BY <2>10 DEF CommitHeartbeat, Row
    <3>3. QED
      BY <3>1, <3>2, CommitKeepsSerial
  <2>11. QED
    BY <1>1, <2>1, <2>2, <2>3, <2>5, <2>6, <2>7, <2>8, <2>9, <2>10
       DEF JobStep, ReleaseJob, Heartbeat
<1>2. ASSUME NEW t \in Thread, SchedulerStep(t) PROVE Serial'
  <2>1. CASE BeginRecover(t)
    <3>1. StillSo(t, "recover", {<<j, RecoveryTarget(j)>> : j \in {k \in Job : LeaseExpired(k)}})
      BY DEF StillSo, MarkOps, RecoveryTarget
    <3>2. QED
      BY <2>1, <3>1, BeginKeepsSerial DEF BeginRecover, Enters, LockedOps, Works
  <2>2. CASE BeginPromote(t)
    <3>1. StillSo(t, "promote", {j \in Job : RetryDue(j)} \X {"pending"})
      BY DEF StillSo, MarkOps, RetryDue
    <3>2. QED
      BY <2>2, <3>1, BeginKeepsSerial DEF BeginPromote, Enters, LockedOps, Works
  <2>3. CASE CommitRecover(t) \/ CommitPromote(t)
    <3>1. Inside(t) /\ window' = [window EXCEPT ![t] = Idle]
      BY <2>3 DEF CommitRecover, CommitPromote, Inside, LockedOps
    <3>2. \A k \in Job : jobs[k].status = "absent" => jobs'[k].status = "absent"
      BY <2>3 DEF CommitRecover, CommitPromote, Running
    <3>3. QED
      BY <3>1, <3>2, CommitKeepsSerial
  <2>4. QED
    BY <1>2, <2>1, <2>2, <2>3 DEF SchedulerStep, RecoverExpiredLeases, PromoteDueRetries
<1>3. ASSUME NEW p \in Process, Crash(p) PROVE Serial'
  <2>1. /\ jobs' = jobs /\ clock' = clock
        /\ \A t \in Thread : window'[t] = Idle \/ window'[t] = window[t]
    BY <1>3 DEF Crash
  <2>2. Idle.op \notin LockedOps \cup {"submit", "decide"} /\ Idle.plan = {}
    BY DEF Idle, LockedOps
  <2>3. \A t \in Thread : StillSo(t, window[t].op, window[t].plan)'
    BY <2>1, <2>2 DEF Serial, StillSo, HoldsLease, LeaseExpired, Running
  <2>4. QED
    BY <2>1, <2>2, <2>3 DEF Serial, Inside
<1>4. CASE Tick
  <2>1. jobs' = jobs /\ window' = window /\ clock' = clock + 1
    BY <1>4 DEF Tick
  <2>2. \A j \in Job : LeaseExpired(j) => LeaseExpired(j)'
    BY <2>1, ConstantTypes DEF LeaseExpired, Running, Row
  <2>3. \A t \in Thread : StillSo(t, window[t].op, window[t].plan)'
    BY <2>1, <2>2 DEF Serial, StillSo, HoldsLease, Running
  <2>4. QED
    BY <2>1, <2>3 DEF Serial, Inside
<1>5. CASE UNCHANGED vars
  BY <1>5 DEF vars, Serial, StillSo, HoldsLease, LeaseExpired, Running, Inside
<1>6. QED
  BY <1>1, <1>2, <1>3, <1>4, <1>5 DEF Next

\* With one working process, calls are as if they followed one another.
THEOREM CallsAreSerial == ASSUME OneWorkingProcess PROVE Spec => []Serial
<1>1. Init => Serial
  BY DEF Init, Serial, StillSo, Idle, Inside, LockedOps
<1>2. TypeOK /\ Serial /\ [Next]_vars => Serial'
  BY SerialInvariant
<1>3. QED
  BY <1>1, <1>2, TypeCorrect, PTL DEF Spec

-----------------------------------------------------------------------------
(* What follows for each step *)

\* The columns that a way of changing rows leaves to other rows, and to this one.
LEMMA SerialMoves ==
    ASSUME TypeOK, SerialStep PROVE LegalMoves
<1> USE DEF TypeOK
<1>1. CASE UNCHANGED <<jobs, ledger>>
  BY <1>1 DEF LegalMoves
<1>2. ASSUME NEW t \in Thread, NEW j \in Job, Inserts(t, j), jobs[j].status = "absent"
      PROVE  LegalMoves
  BY <1>2 DEF Inserts, LegalMoves
<1>3. ASSUME NEW t \in Thread, NEW j \in Job, Claims(t, j) PROVE LegalMoves
  <2>1. jobs[j].status = "pending" /\ jobs'[j].status = "running"
    BY <1>3 DEF Claims, Claimable, Leased, Row
  <2>2. \A k \in Job \ {j} : jobs'[k] = jobs[k]
    BY <1>3 DEF Claims
  <2>3. QED
    BY <2>1, <2>2 DEF LegalMoves, ValidTransitions
<1>4. ASSUME NEW t \in Thread, NEW j \in Job, Renews(t, j) PROVE LegalMoves
  BY <1>4 DEF Renews, Row, LegalMoves
<1>5. ASSUME NEW j \in Job, NEW to \in Status, NEW runAfter \in Time \cup {None},
             NEW event \in Event, ValidMark(j, to, runAfter, event)
      PROVE  LegalMoves
  BY <1>5 DEF ValidMark, Marks, Unleased, Row, LegalMoves
<1>6. ASSUME NEW t \in Thread, Recovers(t) PROVE LegalMoves
  <2>1. \A k \in Job : \/ jobs'[k] = jobs[k]
                       \/ /\ jobs[k].status = "running"
                          /\ jobs'[k].status \in {"pending", "retry_scheduled"}
    BY <1>6 DEF Recovers, Unleased, Row, Running
  <2>2. QED
    BY <2>1 DEF LegalMoves, ValidTransitions
<1>7. ASSUME NEW t \in Thread, Promotes(t) PROVE LegalMoves
  <2>1. \A k \in Job : \/ jobs'[k] = jobs[k]
                       \/ /\ jobs[k].status = "retry_scheduled"
                          /\ jobs'[k].status = "pending"
    BY <1>7 DEF Promotes, Row
  <2>2. QED
    BY <2>1 DEF LegalMoves, ValidTransitions
<1>8. QED
  BY <1>1, <1>2, <1>3, <1>4, <1>5, <1>6, <1>7
     DEF SerialStep, ExpiredRecovery, ParkedPromotion

\* A status changes only along validate_transition's table, although every call
\* but a claim and an insertion writes by id what it validated before.
THEOREM TransitionsLegal == ASSUME OneWorkingProcess PROVE Spec => LegalTransitions
<1>1. TypeOK /\ Serial /\ [Next]_vars => [LegalMoves]_vars
  BY StepsOfSerialTable, SerialMoves
<1>2. QED
  BY <1>1, TypeCorrect, CallsAreSerial, PTL DEF Spec, LegalTransitions

LEMMA SerialSpares ==
    ASSUME TypeOK, SerialStep PROVE LiveLeasesSpared
<1> USE ConstantTypes DEF TypeOK, Running, Time
<1>1. CASE UNCHANGED <<jobs, ledger>>
  BY <1>1 DEF LiveLeasesSpared
<1>2. ASSUME NEW j \in Job, NEW event, event # "lease_expired", Log({j}, event),
             \A k \in Job \ {j} : jobs'[k].status = jobs[k].status
      PROVE  LiveLeasesSpared
  BY <1>2 DEF LiveLeasesSpared, Log, Snapshot
<1>3. ASSUME NEW t \in Thread, NEW j \in Job, Inserts(t, j) \/ Claims(t, j)
      PROVE  LiveLeasesSpared
  BY <1>2, <1>3 DEF Inserts, Claims
<1>4. ASSUME NEW t \in Thread, NEW j \in Job, Renews(t, j) PROVE LiveLeasesSpared
  <2>1. \A k \in Job : jobs'[k].status = jobs[k].status
    BY <1>4 DEF Renews, Row
  <2>2. QED
    BY <2>1 DEF LiveLeasesSpared
<1>5. ASSUME NEW j \in Job, NEW to \in Status, NEW runAfter \in Time \cup {None},
             NEW event \in Event, ValidMark(j, to, runAfter, event)
      PROVE  LiveLeasesSpared
  BY <1>2, <1>5 DEF ValidMark, Marks
<1>6. ASSUME NEW t \in Thread, ExpiredRecovery(t) PROVE LiveLeasesSpared
  <2>1. ASSUME NEW k \in Job, Running(k), jobs[k].expires > clock PROVE jobs'[k] = jobs[k]
    <3>1. ~LeaseExpired(k)
      BY <2>1 DEF LeaseExpired, Row
    <3>2. k \notin Planned(t)
      BY <1>6, <3>1 DEF ExpiredRecovery
    <3>3. <<k, "pending">> \notin window[t].plan /\ <<k, "retry_scheduled">> \notin window[t].plan
      BY <3>2 DEF Planned
    <3>4. QED
      BY <1>6, <3>3 DEF ExpiredRecovery, Recovers
  <2>2. QED
    BY <2>1 DEF LiveLeasesSpared
<1>7. ASSUME NEW t \in Thread, ParkedPromotion(t) PROVE LiveLeasesSpared
  BY <1>7 DEF ParkedPromotion, Promotes, LiveLeasesSpared
<1>8. QED
  BY <1>1, <1>3, <1>4, <1>5, <1>6, <1>7 DEF SerialStep

\* Recovery takes no job whose lease was renewed, or that was claimed anew,
\* between its two statements.
THEOREM LiveLeasesKept == ASSUME OneWorkingProcess PROVE Spec => LiveLeaseKept
<1>1. TypeOK /\ Serial /\ [Next]_vars => [LiveLeasesSpared]_vars
  BY StepsOfSerialTable, SerialSpares
<1>2. QED
  BY <1>1, TypeCorrect, CallsAreSerial, PTL DEF Spec, LiveLeaseKept

-----------------------------------------------------------------------------
(* What follows for the states *)

LEMMA SerialTells ==
    ASSUME TypeOK, EventTellsStatus, SerialStep PROVE EventTellsStatus'
<1> USE DEF TypeOK
<1> DEFINE Told(event, status) == event \in {"none", "handoff_recorded"} \/ Tells(event, status)
<1>1. EventTellsStatus <=> \A j \in Job : Told(ledger[j].event, jobs[j].status)
  BY DEF EventTellsStatus, Tells
<1>2. EventTellsStatus' <=> \A j \in Job : Told(ledger'[j].event, jobs'[j].status)
  BY DEF EventTellsStatus, Tells
<1> HIDE DEF Told
<1>3. ASSUME NEW js, NEW event, Log(js, event),
             \A k \in Job \ js : jobs'[k] = jobs[k],
             \A k \in Job \cap js : Tells(event, jobs'[k].status)
      PROVE  EventTellsStatus'
  BY <1>1, <1>2, <1>3 DEF Log, Snapshot, Told
<1>4. CASE UNCHANGED <<jobs, ledger>>
  BY <1>1, <1>2, <1>4
<1>5. ASSUME NEW t \in Thread, NEW j \in Job, Inserts(t, j) PROVE EventTellsStatus'
  <2>1. Tells("job_created", jobs'[j].status)
    BY <1>5 DEF Inserts, Tells, NoRow
  <2>2. QED
    BY <1>3, <1>5, <2>1 DEF Inserts
<1>6. ASSUME NEW t \in Thread, NEW j \in Job, Claims(t, j) PROVE EventTellsStatus'
  <2>1. Tells("job_claimed", jobs'[j].status)
    BY <1>6 DEF Claims, Leased, Row, Tells
  <2>2. QED
    BY <1>3, <1>6, <2>1 DEF Claims
<1>7. ASSUME NEW t \in Thread, NEW j \in Job, Renews(t, j) PROVE EventTellsStatus'
  <2>1. \A k \in Job : jobs'[k].status = jobs[k].status /\ ledger'[k] = ledger[k]
    BY <1>7 DEF Renews, Row
  <2>2. QED
    BY <1>1, <1>2, <2>1
<1>8. ASSUME NEW j \in Job, NEW to \in Status, NEW runAfter \in Time \cup {None},
             NEW event \in Event, ValidMark(j, to, runAfter, event)
      PROVE  EventTellsStatus'
  <2>1. jobs'[j].status = to
    BY <1>8 DEF ValidMark, Marks, Unleased, Row
  <2>2. QED
    BY <1>3, <1>8, <2>1 DEF ValidMark, Marks
<1>9. ASSUME NEW t \in Thread, ExpiredRecovery(t) PROVE EventTellsStatus'
  <2>1. \A k \in Job \ Planned(t) : jobs'[k] = jobs[k]
    <3>1. \A k \in Job, to \in Status : <<k, to>> \in window[t].plan => k \in Planned(t)
      BY DEF Planned
    <3>2. QED
      BY <1>9, <3>1 DEF ExpiredRecovery, Recovers, Status
  <2>2. ASSUME NEW k \in Job \cap Planned(t) PROVE Tells("lease_expired", jobs'[k].status)
    <3>1. Running(k) /\ (<<k, "pending">> \in window[t].plan \/ <<k, "retry_scheduled">> \in window[t].plan)
      BY <1>9 DEF ExpiredRecovery, LeaseExpired
    <3>2. jobs'[k].status \in {"pending", "retry_scheduled"}
      BY <1>9, <3>1 DEF ExpiredRecovery, Recovers, Unleased, Row
    <3>3. QED
      BY <3>2 DEF Tells
  <2>3. QED
    BY <1>3, <1>9, <2>1, <2>2 DEF ExpiredRecovery, Recovers
<1>10. ASSUME NEW t \in Thread, ParkedPromotion(t) PROVE EventTellsStatus'
  <2>1. \A k \in Job \ Planned(t) : jobs'[k] = jobs[k]
    BY <1>10 DEF ParkedPromotion, Promotes
  <2>2. ASSUME NEW k \in Job \cap Planned(t) PROVE Tells("retry_promoted", jobs'[k].status)
    BY <1>10 DEF ParkedPromotion, Promotes, Row, Tells
  <2>3. QED
    BY <1>3, <1>10, <2>1, <2>2 DEF ParkedPromotion, Promotes
<1>11. QED
  BY <1>4, <1>5, <1>6, <1>7, <1>8, <1>9, <1>10 DEF SerialStep

\* The newest event of a job tells its status: no recovery and no promotion is
\* recorded for a job that it left alone.
THEOREM EventsTellStatus == ASSUME OneWorkingProcess PROVE Spec => []EventTellsStatus
<1>1. Init => EventTellsStatus
  BY DEF Init, EventTellsStatus, Snapshot
<1>2. TypeOK /\ Serial /\ EventTellsStatus /\ [Next]_vars => EventTellsStatus'
  BY StepsOfSerialTable, SerialTells
<1>3. QED
  BY <1>1, <1>2, TypeCorrect, CallsAreSerial, PTL DEF Spec

\* A job runs only if what it depends on succeeded, and nothing reopens that.
THEOREM DependenciesKept == ASSUME OneWorkingProcess PROVE Spec => []StartedAfterDependencies
<1>1. Init => StartedAfterDependencies
  BY DEF Init, StartedAfterDependencies, Running, NoRow
<1>2. ASSUME TypeOK, Serial, StartedAfterDependencies, [Next]_vars
      PROVE  StartedAfterDependencies'
  <2>1. SerialStep /\ LegalMoves
    BY <1>2, StepsOfSerialTable, SerialMoves
  <2>2. ASSUME NEW d \in Job, jobs[d].status \in {"succeeded", "archived"}
        PROVE  jobs'[d].status \in {"succeeded", "archived"}
    BY <2>1, <2>2 DEF LegalMoves, ValidTransitions
  <2>3. ASSUME NEW j \in Job, jobs'[j].status = "running", jobs[j].status # "running"
        PROVE  DependenciesSatisfied(j)
    <3>1. \E t \in Thread : Claims(t, j)
      <4>1. CASE UNCHANGED <<jobs, ledger>>
        BY <2>3, <4>1
      <4>2. ASSUME NEW t \in Thread, NEW k \in Job, Inserts(t, k) PROVE FALSE
        BY <1>2, <2>3, <4>2 DEF Inserts, NoRow, TypeOK
      <4>3. ASSUME NEW t \in Thread, NEW k \in Job, Claims(t, k) PROVE k = j
        BY <1>2, <2>3, <4>3 DEF Claims, TypeOK
      <4>4. ASSUME NEW t \in Thread, NEW k \in Job, Renews(t, k) PROVE FALSE
        BY <1>2, <2>3, <4>4 DEF Renews, TypeOK, Row
      <4>5. ASSUME NEW k \in Job, NEW to \in Status, NEW runAfter, NEW event,
                   ValidMark(k, to, runAfter, event)
            PROVE  FALSE
        BY <1>2, <2>3, <4>5 DEF ValidMark, Marks, Unleased, TypeOK, Row
      <4>6. ASSUME NEW t \in Thread, ExpiredRecovery(t) PROVE FALSE
        BY <1>2, <2>3, <4>6 DEF ExpiredRecovery, Recovers, Running
      <4>7. ASSUME NEW t \in Thread, ParkedPromotion(t) PROVE FALSE
        BY <1>2, <2>3, <4>7 DEF ParkedPromotion, Promotes, TypeOK, Row
      <4>8. QED
        BY <2>1, <4>1, <4>2, <4>3, <4>4, <4>5, <4>6, <4>7 DEF SerialStep
    <3>2. QED
      BY <3>1 DEF Claims, Claimable
  <2>4. QED
    BY <1>2, <2>2, <2>3, ConstantTypes
       DEF StartedAfterDependencies, DependenciesSatisfied, Running
<1>3. QED
  BY <1>1, <1>2, TypeCorrect, CallsAreSerial, PTL DEF Spec

-----------------------------------------------------------------------------
(* The abstract queue *)

LEMMA Phases ==
    /\ PhaseOf("absent") = "new" /\ PhaseOf("pending") = "open"
    /\ PhaseOf("running") = "held" /\ PhaseOf("retry_scheduled") = "parked"
    /\ PhaseOf("succeeded") = "closed" /\ PhaseOf("failed") = "closed"
    /\ PhaseOf("dead_lettered") = "closed" /\ PhaseOf("archived") = "archived"
BY DEF PhaseOf

\* Every step of the table is a step of the abstract queue, or none.
LEMMA SerialRefines ==
    ASSUME TypeOK, TypeOK', LeaseConsistent, SerialStep
    PROVE  [Queue!LQNext]_(Queue!lqVars)
<1> USE DEF TypeOK, Row
<1>1. ASSUME \A k \in Job : jobs'[k].status = jobs[k].status /\ jobs'[k].owner = jobs[k].owner
      PROVE  UNCHANGED Queue!lqVars
  BY <1>1 DEF Queue!lqVars
<1>2. \A k \in Job : ~Running(k) => jobs[k].owner = None
  BY DEF LeaseConsistent
<1>3. ASSUME NEW t \in Thread, NEW j \in Job, Inserts(t, j), jobs[j].status = "absent"
      PROVE  Queue!Submit(j)
  <2>1. jobs'[j].status = "pending" /\ jobs'[j].owner = None /\ jobs[j].owner = None
    BY <1>2, <1>3 DEF Inserts, NoRow, Running
  <2>2. \A k \in Job \ {j} : jobs'[k] = jobs[k]
    BY <1>3 DEF Inserts
  <2>3. QED
    BY <1>3, <2>1, <2>2, Phases DEF Queue!Submit
<1>4. ASSUME NEW t \in Thread, NEW j \in Job, Claims(t, j) PROVE Queue!Grant(j, t)
  <2>1. /\ jobs[j].status = "pending" /\ ~ResourceHeld(j)
        /\ jobs'[j].status = "running" /\ jobs'[j].owner = t
    BY <1>4 DEF Claims, Claimable, Leased
  <2>2. \A k \in Job \ {j} : jobs'[k] = jobs[k]
    BY <1>4 DEF Claims
  <2>3. \A k \in Job : PhaseOf(jobs[k].status) = "held" => Running(k)
    BY Phases DEF Status, Running
  <2>4. QED
    BY <2>1, <2>2, <2>3, Phases DEF Queue!Grant, ResourceHeld
<1>5. ASSUME NEW t \in Thread, NEW j \in Job, Renews(t, j) PROVE UNCHANGED Queue!lqVars
  <2>1. \A k \in Job : jobs'[k].status = jobs[k].status /\ jobs'[k].owner = jobs[k].owner
    BY <1>5 DEF Renews
  <2>2. QED
    BY <1>1, <2>1
<1>6. ASSUME NEW j \in Job, NEW to \in Status, NEW runAfter \in Time \cup {None},
             NEW event \in Event, ValidMark(j, to, runAfter, event)
      PROVE  Queue!LQNext
  <2>1. /\ jobs'[j].status = to /\ jobs'[j].owner = None
        /\ <<jobs[j].status, to>> \in ValidTransitions /\ to # "running"
        /\ Tells(event, to) /\ event # "lease_expired"
    BY <1>6 DEF ValidMark, Marks, Unleased
  <2>2. \A k \in Job \ {j} : jobs'[k] = jobs[k]
    BY <1>6 DEF ValidMark, Marks
  <2>3. CASE to \in {"succeeded", "failed", "dead_lettered"}
    <3>1. jobs[j].status \in {"pending", "running"}
      BY <2>1, <2>3 DEF ValidTransitions
    <3>2. Queue!Close(j)
      BY <2>1, <2>2, <2>3, <3>1, Phases DEF Queue!Close, Queue!Move, Queue!Drop
    <3>3. QED
      BY <3>2 DEF Queue!LQNext
  <2>4. CASE to = "archived"
    <3>1. jobs[j].status \notin {"absent", "archived"}
      BY <2>1, <2>4 DEF ValidTransitions
    <3>2. PhaseOf(jobs[j].status) \in {"open", "held", "parked", "closed"}
      BY <3>1, Phases DEF Status
    <3>3. Queue!Archive(j)
      BY <2>1, <2>2, <2>4, <3>2, Phases DEF Queue!Archive, Queue!Move, Queue!Drop
    <3>4. QED
      BY <3>3 DEF Queue!LQNext
  <2>5. CASE to = "pending" /\ jobs[j].status = "retry_scheduled"
    <3>1. jobs[j].owner = None
      BY <1>2, <2>5 DEF Running
    <3>2. Queue!Resume({j})
      BY <2>1, <2>2, <2>5, <3>1, Phases DEF Queue!Resume, Queue!Move
    <3>3. QED
      BY <3>2 DEF Queue!LQNext
  <2>6. CASE to \in {"pending", "retry_scheduled"} /\ jobs[j].status = "running"
    <3>1. [k \in {j} |-> PhaseOf(to)] \in [{j} -> {"open", "parked"}]
      BY <2>6, Phases
    <3>2. Queue!Move({j}, [k \in {j} |-> PhaseOf(to)]) /\ Queue!Drop({j})
      BY <2>1, <2>2 DEF Queue!Move, Queue!Drop
    <3>3. Queue!Yield({j})
      BY <2>6, <3>1, <3>2, Phases DEF Queue!Yield
    <3>4. QED
      BY <3>3 DEF Queue!LQNext
  <2>7. QED
    BY <2>1, <2>3, <2>4, <2>5, <2>6 DEF ValidTransitions
<1>7. ASSUME NEW t \in Thread, ExpiredRecovery(t) PROVE [Queue!LQNext]_(Queue!lqVars)
  <2>0. PICK js \in SUBSET Job : js = Planned(t) \cap Job
    OBVIOUS
  <2> DEFINE to == [k \in js |-> PhaseOf(jobs'[k].status)]
  <2>1. \A k \in Job, s \in Status : <<k, s>> \in window[t].plan => k \in Planned(t)
    BY DEF Planned
  <2>2. \A k \in Job \ js : jobs'[k] = jobs[k]
    BY <1>7, <2>0, <2>1 DEF ExpiredRecovery, Recovers, Status
  <2>3. ASSUME NEW k \in js
        PROVE  /\ jobs[k].status = "running"
               /\ jobs'[k].status \in {"pending", "retry_scheduled"} /\ jobs'[k].owner = None
    <3>1. Running(k) /\ (<<k, "pending">> \in window[t].plan \/ <<k, "retry_scheduled">> \in window[t].plan)
      BY <1>7, <2>0 DEF ExpiredRecovery, LeaseExpired
    <3>2. QED
      BY <1>7, <3>1 DEF ExpiredRecovery, Recovers, Unleased, Running
  <2>4. CASE js = {}
    BY <1>1, <2>2, <2>4
  <2>5. CASE js # {}
    <3>1. to \in [js -> {"open", "parked"}]
      BY <2>3, Phases
    <3>2. Queue!Move(js, to)
      BY <2>2 DEF Queue!Move
    <3>3. Queue!Drop(js)
      BY <2>2, <2>3 DEF Queue!Drop
    <3>4. \A k \in js : PhaseOf(jobs[k].status) = "held"
      BY <2>3, Phases
    <3>5. Queue!Yield(js)
      BY <2>5, <3>1, <3>2, <3>3, <3>4 DEF Queue!Yield
    <3>6. QED
      BY <3>5 DEF Queue!LQNext
  <2>6. QED
    BY <2>4, <2>5
<1>8. ASSUME NEW t \in Thread, ParkedPromotion(t) PROVE [Queue!LQNext]_(Queue!lqVars)
  <2>0. PICK js \in SUBSET Job : js = Planned(t) \cap Job
    OBVIOUS
  <2>1. \A k \in Job \ js : jobs'[k] = jobs[k]
    BY <1>8, <2>0 DEF ParkedPromotion, Promotes
  <2>2. ASSUME NEW k \in js
        PROVE  /\ jobs[k].status = "retry_scheduled" /\ jobs'[k].status = "pending"
               /\ jobs'[k].owner = jobs[k].owner
    <3>1. k \in Planned(t) \cap Job /\ jobs[k].status = "retry_scheduled"
      BY <1>8, <2>0 DEF ParkedPromotion
    <3>2. jobs'[k] = [jobs[k] EXCEPT !.status = "pending", !.runAfter = None]
      BY <1>8, <3>1 DEF ParkedPromotion, Promotes
    <3>3. QED
      BY <3>1, <3>2
  <2>3. CASE js = {}
    BY <1>1, <2>1, <2>3
  <2>4. CASE js # {}
    <3>1. Queue!Move(js, [k \in js |-> "open"])
      BY <2>1, <2>2, Phases DEF Queue!Move
    <3>2. UNCHANGED [k \in Job |-> jobs[k].owner]
      BY <2>1, <2>2
    <3>3. Queue!Resume(js)
      BY <2>2, <2>4, <3>1, <3>2, Phases DEF Queue!Resume
    <3>4. QED
      BY <3>3 DEF Queue!LQNext
  <2>5. QED
    BY <2>3, <2>4
<1>9. CASE UNCHANGED <<jobs, ledger>>
  BY <1>1, <1>9
<1>10. QED
  BY <1>3, <1>4, <1>5, <1>6, <1>7, <1>8, <1>9 DEF SerialStep, Queue!LQNext

\* The table of one working process implements the abstract lease queue: no call that
\* was validated on an older row, or dies half-way, shows a step a queue has not.
THEOREM TableImplementsQueue == ASSUME OneWorkingProcess PROVE Spec => ImplementsLeaseQueue
<1>1. Init => Queue!LQInit
  BY Phases DEF Init, NoRow, Queue!LQInit
<1>2. TypeOK /\ TypeOK' /\ LeaseConsistent /\ Serial /\ [Next]_vars => [Queue!LQNext]_(Queue!lqVars)
  BY StepsOfSerialTable, SerialRefines
<1>3. QED
  BY <1>1, <1>2, TypeCorrect, LeasesConsistent, CallsAreSerial, PTL
     DEF Spec, ImplementsLeaseQueue, Queue!LQSpec
=============================================================================
