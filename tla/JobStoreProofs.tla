--------------------------- MODULE JobStoreProofs ---------------------------
(***************************************************************************)
(* Proofs about JobStore, for any jobs, threads and processes.             *)
(***************************************************************************)
EXTENDS JobStore, FiniteSetTheorems, TLAPS

-----------------------------------------------------------------------------
(* What a step does to the tables.  Twenty actions change a row in six     *)
(* ways; the invariants are proved for the ways, not for the actions.      *)

Inserts(t, j) ==
    /\ ~KeyTaken(j)
    /\ jobs' = [jobs EXCEPT ![j] =
           [NoRow EXCEPT
              !.status = "pending",
              !.created = window[t].at,
              !.runAfter = IF StartDelay[j] = 0 THEN None
                           ELSE window[t].at + StartDelay[j]]]
    /\ Log({j}, "job_created")

Claims(t, j) ==
    /\ "claim" \in Uses[t]
    /\ Claimable(t, j)
    /\ jobs[j].attempt < MaxClaims
    /\ jobs' = [jobs EXCEPT ![j] = [Leased(@, t) EXCEPT !.runAfter = None]]
    /\ Log({j}, "job_claimed")

Marks(j, to, runAfter, event) ==
    /\ to # "running"
    /\ to \in ActiveStatuses => ~KeyTaken(j)
    /\ jobs' = [jobs EXCEPT ![j] = [Unleased(@, to) EXCEPT !.runAfter = runAfter]]
    /\ Log({j}, event)

Renews(t, j) ==
    /\ jobs' = IF jobs[j].owner = t
               THEN [jobs EXCEPT ![j].expires = clock + Lease]
               ELSE jobs
    /\ UNCHANGED ledger

Recovers(t) ==
    /\ jobs' = [j \in Job |->
                  IF Running(j) /\ <<j, "pending">> \in window[t].plan
                  THEN Unleased(jobs[j], "pending")
                  ELSE IF Running(j) /\ <<j, "retry_scheduled">> \in window[t].plan
                  THEN Unleased(jobs[j], "retry_scheduled")
                  ELSE jobs[j]]
    /\ Log(Planned(t), "lease_expired")

Promotes(t) ==
    /\ jobs' = [j \in Job |->
                  IF j \in Planned(t) /\ jobs[j].status = "retry_scheduled"
                  THEN [jobs[j] EXCEPT !.status = "pending", !.runAfter = None]
                  ELSE jobs[j]]
    /\ Log(Planned(t), "retry_promoted")

\* Every step of the table is one of these, or leaves it and the ledger alone.
TableStep ==
    \/ UNCHANGED <<jobs, ledger>>
    \/ \E t \in Thread, j \in Job : Inserts(t, j) \/ Claims(t, j) \/ Renews(t, j)
    \/ \E j \in Job, to \in Status, runAfter \in Time \cup {None}, event \in Event :
          Marks(j, to, runAfter, event)
    \/ \E t \in Thread : Recovers(t) \/ Promotes(t)

LEMMA StepsOfTable ==
    ASSUME TypeOK, [Next]_vars PROVE TableStep
<1> USE DEF TypeOK, Row, Window, Time
<1>1. ASSUME NEW t \in Thread, NEW j \in Job, JobStep(t, j) PROVE TableStep
  <2>1. CASE SubmitLookup(t, j)
    BY <2>1 DEF SubmitLookup, Begin, TableStep
  <2>2. CASE CreateJob(t, j)
    BY <2>2 DEF CreateJob, Refuse, TableStep, Inserts
  <2>3. CASE ClaimNext(t, j)
    BY <2>3 DEF ClaimNext, Enters, TableStep, Claims
  <2>4. ASSUME NEW to \in Status, NEW runAfter \in Time \cup {None}, NEW event \in Event,
               to # "running", CommitMark(t, j, to, runAfter, event)
        PROVE  TableStep
    BY <2>4 DEF CommitMark, Refuse, TableStep, Marks
  <2>5. ASSUME NEW to \in Status, BeginMark(t, j, to) PROVE TableStep
    BY <2>5 DEF BeginMark, Begin, TableStep
  <2>6. /\ jobs[j].runAfter \in Time \cup {None}
        /\ window[t].at \in Time \cup {None}
    OBVIOUS
  <2>7. CASE MarkSucceeded(t, j)
    BY <2>4, <2>5, <2>6, <2>7 DEF MarkSucceeded, Status, Event
  <2>8. CASE MarkFailed(t, j)
    BY <2>4, <2>5, <2>6, <2>8 DEF MarkFailed, Status, Event
  <2>9. CASE MarkArchived(t, j)
    BY <2>4, <2>5, <2>6, <2>9 DEF MarkArchived, Status, Event
  <2>10. CASE MarkRetryScheduled(t, j)
    BY <2>4, <2>5, <2>6, <2>10 DEF MarkRetryScheduled, Status, Event
  <2>11. CASE MarkDeadLettered(t, j)
    BY <2>4, <2>5, <2>6, <2>11 DEF MarkDeadLettered, Status, Event
  <2>12. CASE DecideRetry(t, j) \/ RejectRetry(t, j)
    BY <2>12 DEF DecideRetry, RejectRetry, Begin, Refuse, TableStep
  <2>13. CASE ReleaseJob(t, j)
    <3>1. CASE BeginRelease(t, j)
      BY <3>1 DEF BeginRelease, Begin, TableStep
    <3>2. CASE CommitRelease(t, j) /\ KeyTaken(j)
      BY <3>2 DEF CommitRelease, Refuse, TableStep
    <3>3. CASE CommitRelease(t, j) /\ ~KeyTaken(j)
      <4>1. jobs' = [jobs EXCEPT ![j] =
                       [Unleased(@, "pending") EXCEPT !.runAfter = jobs[j].runAfter]]
        BY <3>3 DEF CommitRelease, Unleased
      <4>2. Marks(j, "pending", jobs[j].runAfter, "job_released")
        BY <3>3, <4>1 DEF CommitRelease, Marks
      <4>3. QED
        BY <4>2, <2>6 DEF TableStep, Status, Event
    <3>4. QED
      BY <2>13, <3>1, <3>2, <3>3 DEF ReleaseJob
  <2>14. CASE Heartbeat(t, j)
    BY <2>14 DEF Heartbeat, BeginHeartbeat, CommitHeartbeat, Begin, TableStep, Renews
  <2>15. QED
    BY <1>1, <2>1, <2>2, <2>3, <2>7, <2>8, <2>9, <2>10, <2>11, <2>12, <2>13, <2>14
       DEF JobStep
<1>2. ASSUME NEW t \in Thread, SchedulerStep(t) PROVE TableStep
  BY <1>2 DEF SchedulerStep, RecoverExpiredLeases, PromoteDueRetries, BeginRecover,
     CommitRecover, BeginPromote, CommitPromote, Begin, TableStep, Recovers, Promotes
<1>3. ASSUME NEW p \in Process, Crash(p) PROVE TableStep
  BY <1>3 DEF Crash, TableStep
<1>4. CASE Tick
  BY <1>4 DEF Tick, TableStep
<1>5. CASE UNCHANGED vars
  BY <1>5 DEF vars, TableStep
<1>6. QED
  BY <1>1, <1>2, <1>3, <1>4, <1>5 DEF Next

-----------------------------------------------------------------------------
(* Type correctness *)

LEMMA RowTypes ==
    /\ NoRow \in Row
    /\ \A row \in Row, to \in Status : Unleased(row, to) \in Row
    /\ \A event \in Event, row \in Row : Snapshot(event, row) \in Revision
<1>1. NoRow \in Row
  BY ConstantTypes DEF NoRow, Row, Status, Time
<1>2. ASSUME NEW row \in Row, NEW to \in Status PROVE Unleased(row, to) \in Row
  BY DEF Row, Unleased
<1>3. ASSUME NEW event \in Event, NEW row \in Row
      PROVE  Snapshot(event, row) \in Revision
  BY DEF Row, Snapshot, Revision
<1>4. QED
  BY <1>1, <1>2, <1>3

LEMMA LogTypes ==
    ASSUME TypeOK, jobs' \in [Job -> Row], NEW js, NEW event \in Event, Log(js, event)
    PROVE  ledger' \in [Job -> Revision]
BY RowTypes DEF TypeOK, Log

\* The rows and the ledger keep their types.
LEMMA TableTypes ==
    ASSUME TypeOK, TableStep
    PROVE  jobs' \in [Job -> Row] /\ ledger' \in [Job -> Revision]
<1> USE ConstantTypes DEF TypeOK, Time
<1>1. CASE UNCHANGED <<jobs, ledger>>
  BY <1>1
<1>2. ASSUME NEW t \in Thread, NEW j \in Job, Inserts(t, j)
      PROVE  jobs' \in [Job -> Row] /\ ledger' \in [Job -> Revision]
  <2>1. window[t].at \in Nat
    BY DEF Window
  <2>2. ASSUME NEW runAfter \in Time \cup {None}
        PROVE  [NoRow EXCEPT !.status = "pending", !.created = window[t].at,
                             !.runAfter = runAfter] \in Row
    BY <2>1, RowTypes DEF Row, Status
  <2>3. (IF StartDelay[j] = 0 THEN None ELSE window[t].at + StartDelay[j])
           \in Time \cup {None}
    BY <2>1
  <2>4. jobs' \in [Job -> Row]
    BY <1>2, <2>2, <2>3 DEF Inserts
  <2>5. QED
    BY <1>2, <2>4, LogTypes DEF Inserts, Event
<1>3. ASSUME NEW t \in Thread, NEW j \in Job, Claims(t, j)
      PROVE  jobs' \in [Job -> Row] /\ ledger' \in [Job -> Revision]
  <2>1. jobs[j] \in Row /\ jobs[j].attempt + 1 \in 0..MaxClaims /\ clock + Lease \in Nat
    BY <1>3 DEF Claims, Row
  <2>2. [Leased(jobs[j], t) EXCEPT !.runAfter = None] \in Row
    BY <2>1 DEF Leased, Row, Status
  <2>3. jobs' \in [Job -> Row]
    BY <1>3, <2>2 DEF Claims
  <2>4. QED
    BY <1>3, <2>3, LogTypes DEF Claims, Event
<1>4. ASSUME NEW t \in Thread, NEW j \in Job, Renews(t, j)
      PROVE  jobs' \in [Job -> Row] /\ ledger' \in [Job -> Revision]
  <2>1. clock + Lease \in Nat /\ jobs[j] \in Row
    OBVIOUS
  <2>2. [jobs[j] EXCEPT !.expires = clock + Lease] \in Row
    BY <2>1 DEF Row
  <2>3. [jobs EXCEPT ![j].expires = clock + Lease]
           = [jobs EXCEPT ![j] = [jobs[j] EXCEPT !.expires = clock + Lease]]
    OBVIOUS
  <2>4. QED
    BY <1>4, <2>2, <2>3 DEF Renews
<1>5. ASSUME NEW j \in Job, NEW to \in Status, NEW runAfter \in Time \cup {None},
             NEW event \in Event, Marks(j, to, runAfter, event)
      PROVE  jobs' \in [Job -> Row] /\ ledger' \in [Job -> Revision]
  <2>1. jobs' \in [Job -> Row]
    BY <1>5 DEF Marks, Unleased, Row
  <2>2. QED
    BY <1>5, <2>1, LogTypes DEF Marks
<1>6. ASSUME NEW t \in Thread, Recovers(t)
      PROVE  jobs' \in [Job -> Row] /\ ledger' \in [Job -> Revision]
  <2>1. jobs' \in [Job -> Row]
    BY <1>6, RowTypes DEF Recovers, Status
  <2>2. QED
    BY <1>6, <2>1, LogTypes DEF Recovers, Event
<1>7. ASSUME NEW t \in Thread, Promotes(t)
      PROVE  jobs' \in [Job -> Row] /\ ledger' \in [Job -> Revision]
  <2>1. ASSUME NEW row \in Row
        PROVE  [row EXCEPT !.status = "pending", !.runAfter = None] \in Row
    BY DEF Row, Status
  <2>2. jobs' \in [Job -> Row]
    BY <1>7, <2>1 DEF Promotes
  <2>3. QED
    BY <1>7, <2>2, LogTypes DEF Promotes, Event
<1>8. QED
  BY <1>1, <1>2, <1>3, <1>4, <1>5, <1>6, <1>7 DEF TableStep

\* A call keeps its thread's window a window.
LEMMA WindowTypes ==
    ASSUME TypeOK, [Next]_vars
    PROVE  window' \in [Thread -> Window] /\ clock' \in Time
<1> USE ConstantTypes DEF TypeOK, Time
<1>1. Idle \in Window
  BY DEF Idle, Window
<1>2. ASSUME NEW t \in Thread, window' = [window EXCEPT ![t] = Idle], UNCHANGED clock
      PROVE  window' \in [Thread -> Window] /\ clock' \in Time
  BY <1>1, <1>2
<1>3. ASSUME NEW t \in Thread, NEW op \in LockedOps \cup {"submit", "decide"},
             NEW plan \in SUBSET (Job \X Status), NEW at \in Time,
             Begin(t, op, plan, at)
      PROVE  window' \in [Thread -> Window] /\ clock' \in Time
  BY <1>3 DEF Begin, Window
<1>4. ASSUME NEW t \in Thread, NEW j \in Job, JobStep(t, j)
      PROVE  window' \in [Thread -> Window] /\ clock' \in Time
  <2>1. \A s \in Status : {<<j, s>>} \in SUBSET (Job \X Status)
    OBVIOUS
  <2>2. /\ {<<j, "pending">>} \in SUBSET (Job \X Status)
        /\ {<<j, "running">>} \in SUBSET (Job \X Status)
        /\ {<<j, "retry_scheduled">>} \in SUBSET (Job \X Status)
        /\ {<<j, "dead_lettered">>} \in SUBSET (Job \X Status)
    BY DEF Status
  <2>3. "release" \in LockedOps /\ "heartbeat" \in LockedOps /\ 0 \in Time
    BY DEF LockedOps
  <2>4. CASE SubmitLookup(t, j)
    <3>1. Begin(t, "submit", {<<j, "pending">>}, clock)
      BY <2>4 DEF SubmitLookup
    <3>2. QED
      BY <1>3, <2>2, <3>1
  <2>5. CASE CreateJob(t, j)
    <3>1. window' = [window EXCEPT ![t] = Idle] /\ UNCHANGED clock
      BY <2>5 DEF CreateJob, Refuse
    <3>2. QED
      BY <1>2, <3>1
  <2>6. CASE ClaimNext(t, j)
    BY <2>6 DEF ClaimNext
  <2>7. ASSUME NEW to \in {"succeeded", "failed", "archived", "retry_scheduled",
                           "dead_lettered"},
               BeginMark(t, j, to)
        PROVE  window' \in [Thread -> Window] /\ clock' \in Time
    <3>1. window[t].at \in Time /\ to \in LockedOps /\ to \in Status
      BY DEF Window, LockedOps, Status
    <3>2. Begin(t, to, {<<j, to>>}, 0) \/ Begin(t, to, {<<j, to>>}, window[t].at)
      BY <2>7 DEF BeginMark
    <3>3. {<<j, to>>} \in SUBSET (Job \X Status)
      BY <2>1, <3>1
    <3>4. QED
      BY <1>3, <2>3, <3>1, <3>2, <3>3
  <2>8. ASSUME NEW to, NEW runAfter, NEW event, CommitMark(t, j, to, runAfter, event)
        PROVE  window' \in [Thread -> Window] /\ clock' \in Time
    <3>1. window' = [window EXCEPT ![t] = Idle] /\ UNCHANGED clock
      BY <2>8 DEF CommitMark, Refuse
    <3>2. QED
      BY <1>2, <3>1
  <2>9. CASE \/ MarkSucceeded(t, j) \/ MarkFailed(t, j) \/ MarkArchived(t, j)
             \/ MarkRetryScheduled(t, j) \/ MarkDeadLettered(t, j)
    BY <2>7, <2>8, <2>9 DEF MarkSucceeded, MarkFailed, MarkArchived,
       MarkRetryScheduled, MarkDeadLettered
  <2>10. CASE DecideRetry(t, j)
    <3>1. jobs[j].attempt \in 0..MaxClaims /\ MaxAttempts[j] \in Nat
      BY DEF Row
    <3>2. clock + Backoff[jobs[j].attempt] \in Time
      BY <3>1
    <3>3. \/ Begin(t, "decide", {<<j, "retry_scheduled">>},
                   clock + Backoff[jobs[j].attempt])
          \/ Begin(t, "decide", {<<j, "dead_lettered">>}, 0)
      BY <2>10 DEF DecideRetry
    <3>4. CASE Begin(t, "decide", {<<j, "retry_scheduled">>},
                     clock + Backoff[jobs[j].attempt])
      BY <1>3, <2>2, <3>2, <3>4
    <3>5. CASE Begin(t, "decide", {<<j, "dead_lettered">>}, 0)
      BY <1>3, <2>2, <2>3, <3>5
    <3>6. QED
      BY <3>3, <3>4, <3>5
  <2>11. CASE RejectRetry(t, j)
    BY <1>2, <2>11 DEF RejectRetry, Refuse
  <2>12. CASE ReleaseJob(t, j)
    <3>1. \/ Begin(t, "release", {<<j, "pending">>}, 0)
          \/ window' = [window EXCEPT ![t] = Idle] /\ UNCHANGED clock
      BY <2>12 DEF ReleaseJob, BeginRelease, CommitRelease, Refuse
    <3>2. QED
      BY <1>2, <1>3, <2>2, <2>3, <3>1
  <2>13. CASE Heartbeat(t, j)
    <3>1. \/ Begin(t, "heartbeat", {<<j, "running">>}, 0)
          \/ window' = [window EXCEPT ![t] = Idle] /\ UNCHANGED clock
      BY <2>13 DEF Heartbeat, BeginHeartbeat, CommitHeartbeat
    <3>2. QED
      BY <1>2, <1>3, <2>2, <2>3, <3>1
  <2>14. QED
    BY <1>4, <2>4, <2>5, <2>6, <2>9, <2>10, <2>11, <2>12, <2>13 DEF JobStep
<1>5. ASSUME NEW t \in Thread, SchedulerStep(t)
      PROVE  window' \in [Thread -> Window] /\ clock' \in Time
  <2>1. CASE BeginRecover(t)
    <3>1. {<<j, RecoveryTarget(j)>> : j \in {k \in Job : LeaseExpired(k)}}
             \in SUBSET (Job \X Status)
      BY DEF RecoveryTarget, Status
    <3>2. QED
      BY <1>3, <2>1, <3>1 DEF BeginRecover, LockedOps
  <2>2. CASE BeginPromote(t)
    <3>1. {j \in Job : RetryDue(j)} \X {"pending"} \in SUBSET (Job \X Status)
      BY DEF Status
    <3>2. QED
      BY <1>3, <2>2, <3>1 DEF BeginPromote, LockedOps
  <2>3. CASE CommitRecover(t) \/ CommitPromote(t)
    <3>1. window' = [window EXCEPT ![t] = Idle] /\ UNCHANGED clock
      BY <2>3 DEF CommitRecover, CommitPromote
    <3>2. QED
      BY <1>2, <3>1
  <2>4. QED
    BY <1>5, <2>1, <2>2, <2>3 DEF SchedulerStep, RecoverExpiredLeases, PromoteDueRetries
<1>6. ASSUME NEW p \in Process, Crash(p)
      PROVE  window' \in [Thread -> Window] /\ clock' \in Time
  BY <1>1, <1>6 DEF Crash
<1>7. CASE Tick
  BY <1>7 DEF Tick
<1>8. CASE UNCHANGED vars
  BY <1>8 DEF vars
<1>9. QED
  BY <1>4, <1>5, <1>6, <1>7, <1>8 DEF Next

\* Every column of every row, every ledger row and every window keeps its type.
THEOREM TypeCorrect == Spec => []TypeOK
<1>1. Init => TypeOK
  <2>1. Snapshot("none", NoRow) \in Revision
    BY RowTypes DEF Event
  <2>2. QED
    BY <2>1, RowTypes DEF Init, TypeOK, Idle, Window, Time
<1>2. TypeOK /\ [Next]_vars => TypeOK'
  BY StepsOfTable, TableTypes, WindowTypes DEF TypeOK
<1>3. QED
  BY <1>1, <1>2, PTL DEF Spec

-----------------------------------------------------------------------------
(* The invariants that hold between any number of processes.  Each one is  *)
(* inductive together with TypeOK, so each proof is a look at the six ways *)
(* a row changes.                                                          *)

LEMMA LeaseStep ==
    ASSUME TypeOK, LeaseConsistent, TableStep PROVE LeaseConsistent'
<1> USE ConstantTypes DEF TypeOK, Time, LeaseConsistent, Running
<1>1. CASE UNCHANGED <<jobs, ledger>>
  BY <1>1
<1>2. ASSUME NEW t \in Thread, NEW j \in Job, Inserts(t, j) PROVE LeaseConsistent'
  BY <1>2 DEF Inserts, NoRow
<1>3. ASSUME NEW t \in Thread, NEW j \in Job, Claims(t, j) PROVE LeaseConsistent'
  <2>1. t # None /\ clock + Lease # None
    OBVIOUS
  <2>2. /\ jobs'[j].status = "running" /\ jobs'[j].owner = t
        /\ jobs'[j].expires = clock + Lease
    BY <1>3 DEF Claims, Leased, Row
  <2>3. \A k \in Job \ {j} : jobs'[k] = jobs[k]
    BY <1>3 DEF Claims
  <2>4. QED
    BY <2>1, <2>2, <2>3
<1>4. ASSUME NEW t \in Thread, NEW j \in Job, Renews(t, j) PROVE LeaseConsistent'
  <2>1. t # None /\ clock + Lease # None
    OBVIOUS
  <2>2. CASE jobs[j].owner = t
    <3>1. /\ jobs'[j].status = jobs[j].status /\ jobs'[j].owner = t
          /\ jobs'[j].expires = clock + Lease
      BY <1>4, <2>2 DEF Renews, Row
    <3>2. \A k \in Job \ {j} : jobs'[k] = jobs[k]
      BY <1>4, <2>2 DEF Renews
    <3>3. QED
      BY <2>1, <2>2, <3>1, <3>2
  <2>3. CASE jobs[j].owner # t
    BY <1>4, <2>3 DEF Renews
  <2>4. QED
    BY <2>2, <2>3
<1>5. ASSUME NEW j \in Job, NEW to \in Status, NEW runAfter \in Time \cup {None},
             NEW event \in Event, Marks(j, to, runAfter, event)
      PROVE  LeaseConsistent'
  <2>1. /\ jobs'[j].status = to /\ jobs'[j].owner = None /\ jobs'[j].expires = None
        /\ to # "running"
    BY <1>5 DEF Marks, Unleased, Row
  <2>2. \A k \in Job \ {j} : jobs'[k] = jobs[k]
    BY <1>5 DEF Marks
  <2>3. QED
    BY <2>1, <2>2
<1>6. ASSUME NEW t \in Thread, Recovers(t) PROVE LeaseConsistent'
  <2>1. \A k \in Job : \/ jobs'[k] = jobs[k]
                       \/ /\ jobs'[k].status # "running"
                          /\ jobs'[k].owner = None /\ jobs'[k].expires = None
    BY <1>6 DEF Recovers, Unleased, Row
  <2>2. QED
    BY <2>1
<1>7. ASSUME NEW t \in Thread, Promotes(t) PROVE LeaseConsistent'
  <2>1. \A k \in Job : \/ jobs'[k] = jobs[k]
                       \/ /\ jobs[k].status = "retry_scheduled"
                          /\ jobs'[k].status = "pending"
                          /\ jobs'[k].owner = jobs[k].owner
                          /\ jobs'[k].expires = jobs[k].expires
    BY <1>7 DEF Promotes, Row
  <2>2. ASSUME NEW k \in Job
        PROVE  /\ jobs'[k].status = "running" <=> jobs'[k].owner # None
               /\ jobs'[k].owner # None <=> jobs'[k].expires # None
    <3>1. /\ jobs[k].status = "running" <=> jobs[k].owner # None
          /\ jobs[k].owner # None <=> jobs[k].expires # None
      OBVIOUS
    <3>2. QED
      BY <2>1, <3>1
  <2>3. QED
    BY <2>2
<1>8. QED
  BY <1>1, <1>2, <1>3, <1>4, <1>5, <1>6, <1>7 DEF TableStep

\* How a step may change what is running and what is active: only a claim
\* makes a job running, only an insertion, or a mark that the unique index
\* lets pass, makes one active.
StatusMove ==
    \/ \E j \in Job :
         /\ jobs[j].status = "pending" /\ ~ResourceHeld(j)
         /\ jobs'[j].status = "running"
         /\ \A k \in Job \ {j} : jobs'[k].status = jobs[k].status
    \/ \E j \in Job :
         /\ jobs'[j].status # "running"
         /\ jobs'[j].status \in ActiveStatuses => ~KeyTaken(j)
         /\ \A k \in Job \ {j} : jobs'[k].status = jobs[k].status
    \/ \A k \in Job :
         \/ jobs'[k].status = jobs[k].status
         \/ /\ jobs[k].status \in ActiveStatuses
            /\ jobs'[k].status \in ActiveStatuses \ {"running"}

LEMMA StatusMoves == ASSUME TypeOK, TableStep PROVE StatusMove
<1> USE DEF TypeOK
<1>1. CASE UNCHANGED <<jobs, ledger>>
  BY <1>1 DEF StatusMove
<1>2. ASSUME NEW t \in Thread, NEW j \in Job, Inserts(t, j)
      PROVE  /\ jobs'[j].status # "running"
             /\ jobs'[j].status \in ActiveStatuses => ~KeyTaken(j)
             /\ \A k \in Job \ {j} : jobs'[k].status = jobs[k].status
  BY <1>2 DEF Inserts, NoRow
<1>3. ASSUME NEW t \in Thread, NEW j \in Job, Claims(t, j)
      PROVE  /\ jobs[j].status = "pending" /\ ~ResourceHeld(j)
             /\ jobs'[j].status = "running"
             /\ \A k \in Job \ {j} : jobs'[k].status = jobs[k].status
  BY <1>3 DEF Claims, Claimable, Leased, Row
<1>4. ASSUME NEW t \in Thread, NEW j \in Job, Renews(t, j)
      PROVE  \A k \in Job : jobs'[k].status = jobs[k].status
  BY <1>4 DEF Renews, Row
<1>5. ASSUME NEW j \in Job, NEW to \in Status, NEW runAfter \in Time \cup {None},
             NEW event \in Event, Marks(j, to, runAfter, event)
      PROVE  /\ jobs'[j].status # "running"
             /\ jobs'[j].status \in ActiveStatuses => ~KeyTaken(j)
             /\ \A k \in Job \ {j} : jobs'[k].status = jobs[k].status
  BY <1>5 DEF Marks, Unleased, Row
<1>6. ASSUME NEW t \in Thread, Recovers(t) \/ Promotes(t)
      PROVE  \A k \in Job :
                \/ jobs'[k].status = jobs[k].status
                \/ /\ jobs[k].status \in ActiveStatuses
                   /\ jobs'[k].status \in ActiveStatuses \ {"running"}
  <2>1. CASE Recovers(t)
    <3>1. \A k \in Job : \/ jobs'[k] = jobs[k]
                         \/ /\ jobs[k].status = "running"
                            /\ jobs'[k].status \in {"pending", "retry_scheduled"}
      BY <2>1 DEF Recovers, Unleased, Row, Running
    <3>2. QED
      BY <3>1 DEF ActiveStatuses
  <2>2. CASE Promotes(t)
    <3>1. \A k \in Job : \/ jobs'[k] = jobs[k]
                         \/ /\ jobs[k].status = "retry_scheduled"
                            /\ jobs'[k].status = "pending"
      BY <2>2 DEF Promotes, Row
    <3>2. QED
      BY <3>1 DEF ActiveStatuses
  <2>3. QED
    BY <1>6, <2>1, <2>2
<1>7. QED
  BY <1>1, <1>2, <1>3, <1>4, <1>5, <1>6 DEF TableStep, StatusMove

LEMMA ResourceMove ==
    ASSUME ResourceExclusive, StatusMove PROVE ResourceExclusive'
BY DEF StatusMove, ResourceExclusive, ResourceHeld, Running

LEMMA KeyMove ==
    ASSUME ActiveKeyUnique, StatusMove PROVE ActiveKeyUnique'
BY DEF StatusMove, ActiveKeyUnique, KeyTaken, ActiveStatuses

LEMMA LedgerStep ==
    ASSUME TypeOK, LedgerCurrent, TableStep PROVE LedgerCurrent'
<1> USE DEF TypeOK, LedgerCurrent
<1>1. ASSUME NEW js, NEW event, Log(js, event),
             \A k \in Job \ js : jobs'[k] = jobs[k]
      PROVE  LedgerCurrent'
  BY <1>1 DEF Log, Snapshot
<1>2. CASE UNCHANGED <<jobs, ledger>>
  BY <1>2
<1>3. ASSUME NEW t \in Thread, NEW j \in Job, Inserts(t, j) PROVE LedgerCurrent'
  BY <1>1, <1>3 DEF Inserts
<1>4. ASSUME NEW t \in Thread, NEW j \in Job, Claims(t, j) PROVE LedgerCurrent'
  BY <1>1, <1>4 DEF Claims
<1>5. ASSUME NEW t \in Thread, NEW j \in Job, Renews(t, j) PROVE LedgerCurrent'
  <2>1. \A k \in Job : /\ jobs'[k].status = jobs[k].status
                       /\ jobs'[k].attempt = jobs[k].attempt
                       /\ jobs'[k].runAfter = jobs[k].runAfter
    BY <1>5 DEF Renews, Row
  <2>2. QED
    BY <1>5, <2>1 DEF Renews, Snapshot
<1>6. ASSUME NEW j \in Job, NEW to \in Status, NEW runAfter \in Time \cup {None},
             NEW event \in Event, Marks(j, to, runAfter, event)
      PROVE  LedgerCurrent'
  BY <1>1, <1>6 DEF Marks
<1>7. ASSUME NEW t \in Thread, Recovers(t) PROVE LedgerCurrent'
  <2>1. \A k \in Job \ Planned(t) : jobs'[k] = jobs[k]
    <3>1. \A k \in Job, to \in Status : <<k, to>> \in window[t].plan => k \in Planned(t)
      BY DEF Planned
    <3>2. QED
      BY <1>7, <3>1 DEF Recovers, Status
  <2>2. QED
    BY <1>1, <1>7, <2>1 DEF Recovers
<1>8. ASSUME NEW t \in Thread, Promotes(t) PROVE LedgerCurrent'
  BY <1>1, <1>8 DEF Promotes
<1>9. QED
  BY <1>2, <1>3, <1>4, <1>5, <1>6, <1>7, <1>8 DEF TableStep

\* A job runs exactly while a worker leases it until some instant, whatever
\* the processes interleave: recovery can always find it.
THEOREM LeasesConsistent == Spec => []LeaseConsistent
<1>1. Init => LeaseConsistent
  BY DEF Init, NoRow, LeaseConsistent, Running
<1>2. TypeOK /\ LeaseConsistent /\ [Next]_vars => LeaseConsistent'
  BY StepsOfTable, LeaseStep
<1>3. QED
  BY <1>1, <1>2, TypeCorrect, PTL DEF Spec

\* Two running jobs never hold the same resource_key.
THEOREM ResourcesExclusive == Spec => []ResourceExclusive
<1>1. Init => ResourceExclusive
  BY DEF Init, NoRow, ResourceExclusive, Running
<1>2. TypeOK /\ ResourceExclusive /\ [Next]_vars => ResourceExclusive'
  BY StepsOfTable, StatusMoves, ResourceMove
<1>3. QED
  BY <1>1, <1>2, TypeCorrect, PTL DEF Spec

\* Two active jobs never share an idempotency key.
THEOREM ActiveKeysUnique == Spec => []ActiveKeyUnique
<1>1. Init => ActiveKeyUnique
  BY DEF Init, NoRow, ActiveKeyUnique, ActiveStatuses
<1>2. TypeOK /\ ActiveKeyUnique /\ [Next]_vars => ActiveKeyUnique'
  BY StepsOfTable, StatusMoves, KeyMove
<1>3. QED
  BY <1>1, <1>2, TypeCorrect, PTL DEF Spec

\* The ledger's newest row of every job equals the job's current row.
THEOREM LedgerStaysCurrent == Spec => []LedgerCurrent
<1>1. Init => LedgerCurrent
  BY DEF Init, LedgerCurrent, Snapshot
<1>2. TypeOK /\ LedgerCurrent /\ [Next]_vars => LedgerCurrent'
  BY StepsOfTable, LedgerStep
<1>3. QED
  BY <1>1, <1>2, TypeCorrect, PTL DEF Spec

-----------------------------------------------------------------------------
(* The limits of types count rows, so their proof counts sets. *)

OfType(j) == {k \in Job : Running(k) /\ TypeOf[k] = TypeOf[j]}

\* Only a claim that finds its type not full makes a job running.
LimitMove ==
    \/ \E t \in Thread, j \in Job :
         /\ "claim" \in Uses[t] /\ ~TypeFull(t, j)
         /\ \A k \in Job \ {j} : jobs'[k].status = jobs[k].status
    \/ \A k \in Job : jobs'[k].status = "running" => jobs[k].status = "running"

LEMMA LimitMoves == ASSUME TypeOK, TableStep PROVE LimitMove
<1> USE DEF TypeOK, Row
<1>1. CASE UNCHANGED <<jobs, ledger>>
  BY <1>1 DEF LimitMove
<1>2. ASSUME NEW t \in Thread, NEW j \in Job, Inserts(t, j) PROVE LimitMove
  <2>1. jobs'[j].status = "pending" /\ \A k \in Job \ {j} : jobs'[k] = jobs[k]
    BY <1>2 DEF Inserts, NoRow
  <2>2. QED
    BY <2>1 DEF LimitMove
<1>3. ASSUME NEW t \in Thread, NEW j \in Job, Claims(t, j) PROVE LimitMove
  <2>1. "claim" \in Uses[t] /\ ~TypeFull(t, j) /\ \A k \in Job \ {j} : jobs'[k] = jobs[k]
    BY <1>3 DEF Claims, Claimable
  <2>2. QED
    BY <2>1 DEF LimitMove
<1>4. ASSUME NEW t \in Thread, NEW j \in Job, Renews(t, j) PROVE LimitMove
  BY <1>4 DEF Renews, LimitMove
<1>5. ASSUME NEW j \in Job, NEW to \in Status, NEW runAfter \in Time \cup {None},
             NEW event \in Event, Marks(j, to, runAfter, event)
      PROVE  LimitMove
  BY <1>5 DEF Marks, Unleased, LimitMove
<1>6. ASSUME NEW t \in Thread, Recovers(t) \/ Promotes(t) PROVE LimitMove
  <2>1. CASE Recovers(t)
    BY <2>1 DEF Recovers, Unleased, LimitMove
  <2>2. CASE Promotes(t)
    <3>1. \A k \in Job : jobs'[k] = jobs[k] \/ jobs'[k].status = "pending"
      BY <2>2 DEF Promotes
    <3>2. QED
      BY <3>1 DEF LimitMove
  <2>3. QED
    BY <1>6, <2>1, <2>2
<1>7. QED
  BY <1>1, <1>2, <1>3, <1>4, <1>5, <1>6 DEF TableStep

LEMMA LimitStep == ASSUME TypeLimitKept, LimitMove PROVE TypeLimitKept'
<1> DEFINE Limited(t, j) ==
      /\ TypeLimit[t][TypeOf[j]] # None
      /\ \A u \in Thread : "claim" \in Uses[u] => TypeLimit[u][TypeOf[j]] = TypeLimit[t][TypeOf[j]]
<1>1. SUFFICES ASSUME NEW t \in Thread, NEW j \in Job, Limited(t, j)
               PROVE  Cardinality(OfType(j)') <= TypeLimit[t][TypeOf[j]]
  BY DEF TypeLimitKept, OfType, Running
<1>2. /\ TypeLimit[t][TypeOf[j]] \in Nat
      /\ Cardinality(OfType(j)) <= TypeLimit[t][TypeOf[j]]
  BY <1>1, LimitTypes DEF TypeLimitKept, OfType
<1>3. IsFiniteSet(OfType(j)) /\ Cardinality(OfType(j)) \in Nat
  <2>1. OfType(j) \in SUBSET Job
    BY DEF OfType
  <2>2. IsFiniteSet(OfType(j))
    BY <2>1, LimitTypes, FS_Subset
  <2>3. QED
    BY <2>2, FS_CardinalityType
<1>4. CASE OfType(j)' \subseteq OfType(j)
  <2>1. IsFiniteSet(OfType(j)') /\ Cardinality(OfType(j)') <= Cardinality(OfType(j))
    BY <1>3, <1>4, FS_Subset
  <2>2. Cardinality(OfType(j)') \in Nat
    BY <2>1, FS_CardinalityType
  <2>3. QED
    BY <1>2, <1>3, <2>1, <2>2
<1>5. ASSUME NEW u \in Thread, NEW i \in Job, "claim" \in Uses[u], ~TypeFull(u, i),
             \A k \in Job \ {i} : jobs'[k].status = jobs[k].status,
             ~(OfType(j)' \subseteq OfType(j))
      PROVE  Cardinality(OfType(j)') <= TypeLimit[t][TypeOf[j]]
  <2>1. TypeOf[i] = TypeOf[j] /\ OfType(j)' = OfType(j) \cup {i} /\ i \notin OfType(j)
    BY <1>5 DEF OfType, Running
  <2>2. Cardinality(OfType(j)') = Cardinality(OfType(j)) + 1
    BY <1>3, <2>1, FS_AddElement
  <2>3. TypeLimit[u][TypeOf[j]] = TypeLimit[t][TypeOf[j]] /\ TypeLimit[t][TypeOf[j]] # None
    BY <1>1, <1>5
  <2>4. ~(Cardinality(OfType(j)) >= TypeLimit[t][TypeOf[j]])
    BY <1>5, <2>1, <2>3 DEF TypeFull, OfType
  <2>5. QED
    BY <1>2, <1>3, <2>2, <2>4
<1>6. QED
  BY <1>4, <1>5 DEF LimitMove, OfType, Running

\* However many workers claim at once, no type exceeds the limit they all pass.
THEOREM TypeLimitsKept == Spec => []TypeLimitKept
<1>1. Init => TypeLimitKept
  <2>1. SUFFICES ASSUME Init PROVE TypeLimitKept
    OBVIOUS
  <2>2. \A j \in Job : OfType(j) = {}
    BY <2>1 DEF Init, NoRow, OfType, Running
  <2>3. \A j \in Job : Cardinality(OfType(j)) = 0
    BY <2>2, FS_EmptySet
  <2>4. QED
    BY <2>3, LimitTypes DEF TypeLimitKept, OfType
<1>2. TypeOK /\ TypeLimitKept /\ [Next]_vars => TypeLimitKept'
  BY StepsOfTable, LimitMoves, LimitStep
<1>3. QED
  BY <1>1, <1>2, TypeCorrect, PTL DEF Spec
=============================================================================
