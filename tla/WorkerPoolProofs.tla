-------------------------- MODULE WorkerPoolProofs --------------------------
(***************************************************************************)
(* Proofs about WorkerPool, for any daemons, executors and jobs.           *)
(*                                                                         *)
(* A step of a daemon is a step of the job table, so what JobStoreProofs   *)
(* says of the table's steps is used as it stands.  What is added is what  *)
(* the calls in progress know of the rows they have read (PlansKnown) and  *)
(* what the executors know of theirs (HandsKnown).                         *)
(***************************************************************************)
EXTENDS WorkerPool, OneProcessProofs

LEMMA PoolStepsOfStore ==
    ASSUME TypeOK, [PoolNext]_allVars PROVE [Next]_vars
<1> USE PoolConstants
<1>1. ASSUME NEW m \in Pool, NEW j \in Job, Poll(m, j) PROVE Next
  BY <1>1 DEF Poll, Next, JobStep
<1>2. ASSUME NEW m \in Pool, EndLoop(m) \/ Drained(m) \/ RequestStop(m)
      PROVE  UNCHANGED vars
  BY <1>2 DEF EndLoop, Drained, RequestStop
<1>3. ASSUME NEW m \in Pool, Kill(m) PROVE [Next]_vars
  <2>1. CASE \E t \in Thread : ProcessOf[t] = ProcessOf[m] /\ window[t] # Idle
    <3>1. Crash(ProcessOf[m])
      BY <1>3, <2>1 DEF Kill, Crash
    <3>2. ProcessOf[m] \in Process
      BY ConstantTypes
    <3>3. QED
      BY <3>1, <3>2 DEF Next
  <2>2. CASE \A t \in Thread : ProcessOf[t] = ProcessOf[m] => window[t] = Idle
    <3>1. window' = window
      BY <1>3, <2>2 DEF Kill, TypeOK
    <3>2. QED
      BY <1>3, <3>1 DEF Kill, vars
  <2>3. QED
    BY <2>1, <2>2
<1>4. ASSUME NEW e \in Executor, NEW j \in Job, Work(e, j) PROVE [Next]_vars
  <2>1. CASE Report(e, j)
    BY <2>1 DEF Report, Next, JobStep, MarkSucceeded, MarkFailed
  <2>2. CASE Settle(e, j)
    BY <2>2 DEF Settle, Next, JobStep
  <2>3. CASE DropResult(e, j)
    BY <2>3 DEF DropResult
  <2>4. QED
    BY <1>4, <2>1, <2>2, <2>3 DEF Work
<1>5. ASSUME NEW s \in Scheduler, BeginTick(s) \/ ContinueTick(s) PROVE [Next]_vars
  BY <1>5 DEF BeginTick, ContinueTick, Next, SchedulerStep, RecoverExpiredLeases,
     PromoteDueRetries
<1>6. ASSUME NEW t \in Thread, NEW j \in Job, Submit(t, j) PROVE Next
  BY <1>6 DEF Submit, Next, JobStep
<1>7. CASE PassTime
  BY <1>7 DEF PassTime, Next
<1>8. CASE UNCHANGED allVars
  BY <1>8 DEF allVars, vars
<1>9. QED
  BY <1>1, <1>2, <1>3, <1>4, <1>5, <1>6, <1>7, <1>8 DEF PoolNext

-----------------------------------------------------------------------------
(* The inductive invariant *)

\* The shape of the daemons' own variables.
PoolShape ==
    /\ stage \in [Pool -> {"polling", "draining", "stopped", "killed"}]
    /\ hands \in [Executor -> [job: Job \cup {None}, attempt: Nat]]

\* Thread t has looked job j up and is about to insert it.
Inserting(t, j) == window[t].op = "submit" /\ <<j, "pending">> \in window[t].plan

\* A row about to be inserted is still missing and nobody else inserts it;
\* every other row in a plan exists, and is out of attempts if it is to be
\* dead-lettered.
PlansKnown ==
    /\ \A t \in Thread, j \in Job :
          Inserting(t, j) => /\ jobs[j].status = "absent"
                             /\ \A u \in Thread : Inserting(u, j) => u = t
    /\ \A t \in Thread, j \in Job, to \in Status :
          /\ window[t].op # "submit"
          /\ <<j, to>> \in window[t].plan
          => /\ jobs[j].status # "absent"
             /\ window[t].op = "decide" => to \in {"retry_scheduled", "dead_lettered"}
             /\ to = "dead_lettered" => jobs[j].attempt >= MaxAttempts[j]

\* An executor works on an attempt its job has begun.
HandsKnown ==
    \A e \in Executor, j \in Job :
        hands[e].job = j => /\ jobs[j].status # "absent"
                            /\ hands[e].attempt <= jobs[j].attempt

PoolInv ==
    /\ TypeOK
    /\ LeaseConsistent
    /\ ActiveKeyUnique
    /\ PoolShape
    /\ PlansKnown
    /\ HandsKnown
    /\ LeaseIsWorkedOn
    /\ AttemptHandledOnce
    /\ DeadLetterEarned

-----------------------------------------------------------------------------
(* Three kinds of step.  A daemon claims (Poll); a call begins, which only *)
(* fills a window; or something ends: a call that commits or is refused, a *)
(* handler, a loop, a daemon.                                              *)

CallBegins(t) ==
    /\ UNCHANGED <<jobs, stage, hands>>
    /\ \A u \in Thread \ {t} : window'[u] = window[u]
    /\ \A j \in Job :
          Inserting(t, j)' => /\ jobs[j].status = "absent"
                              /\ \A u \in Thread : ~Inserting(u, j)
    /\ \A j \in Job, to \in Status :
          /\ window'[t].op # "submit"
          /\ <<j, to>> \in window'[t].plan
          => /\ jobs[j].status # "absent"
             /\ window'[t].op = "decide" => to \in {"retry_scheduled", "dead_lettered"}
             /\ to = "dead_lettered" => jobs[j].attempt >= MaxAttempts[j]

\* What may happen to a row when something ends.
RowInserted(k) ==
    /\ jobs[k].status = "absent"
    /\ jobs'[k].status = "pending"
    /\ jobs'[k].owner = None
    /\ \A u \in Thread : ~Inserting(u, k)'

RowLetGo(k) ==
    /\ jobs[k].status # "absent"
    /\ jobs'[k].status # "absent"
    /\ jobs'[k].attempt = jobs[k].attempt
    /\ jobs'[k].owner = None
    /\ jobs'[k].status = "dead_lettered" => jobs[k].attempt >= MaxAttempts[k]

RowsEnd == \A k \in Job : jobs'[k] = jobs[k] \/ RowInserted(k) \/ RowLetGo(k)

WindowsEnd == \A t \in Thread : window'[t] = window[t] \/ window'[t] = Idle

\* A hand is emptied only when its job is leased no more, or its daemon dies.
HandsEnd ==
    /\ hands' \in [Executor -> [job: Job \cup {None}, attempt: Nat]]
    /\ \A e \in Executor :
          \/ hands'[e] = hands[e]
          \/ /\ hands'[e] = Free
             /\ \/ stage'[PoolOf[e]] = "killed"
                \/ jobs'[hands[e].job].owner = None

StagesEnd ==
    /\ stage' \in [Pool -> {"polling", "draining", "stopped", "killed"}]
    /\ \A m \in Pool : stage[m] = "killed" => stage'[m] = "killed"

Ends == RowsEnd /\ WindowsEnd /\ HandsEnd /\ StagesEnd

LEMMA BeginCases ==
    ASSUME TypeOK, PlansKnown,
           NEW t \in Thread, NEW op \in LockedOps \cup {"submit", "decide"},
           NEW plan, NEW at, Begin(t, op, plan, at),
           UNCHANGED <<stage, hands>>,
           op = "submit" => \E j \in Job : /\ plan = {<<j, "pending">>}
                                           /\ jobs[j].status = "absent"
                                           /\ \A u \in Thread : ~Inserting(u, j),
           op # "submit" =>
              \A j \in Job, to \in Status :
                 <<j, to>> \in plan =>
                    /\ jobs[j].status # "absent"
                    /\ op = "decide" => to \in {"retry_scheduled", "dead_lettered"}
                    /\ to = "dead_lettered" => jobs[j].attempt >= MaxAttempts[j]
    PROVE  CallBegins(t)
<1>1. /\ window'[t].op = op /\ window'[t].plan = plan
      /\ \A u \in Thread \ {t} : window'[u] = window[u]
  BY DEF Begin, TypeOK
<1>2. UNCHANGED <<jobs, stage, hands>>
  BY DEF Begin
<1>3. CASE op = "submit"
  BY <1>1, <1>2, <1>3 DEF CallBegins, Inserting
<1>4. CASE op # "submit"
  BY <1>1, <1>2, <1>4 DEF CallBegins, Inserting
<1>5. QED
  BY <1>3, <1>4

\* A mark that has been validated, by itself or after a decision.
LEMMA MarkBegins ==
    ASSUME TypeOK, PlansKnown, NEW t \in Thread, NEW j \in Job,
           NEW to \in {"succeeded", "failed", "retry_scheduled", "dead_lettered"},
           to = "dead_lettered" => window[t] # Idle,
           BeginMark(t, j, to), UNCHANGED <<stage, hands>>
    PROVE  CallBegins(t)
<1>1. jobs[j].status # "absent"
  BY DEF BeginMark, ValidTransitions
<1>2. to = "dead_lettered" => jobs[j].attempt >= MaxAttempts[j]
  BY DEF BeginMark, Enters, PlansKnown, Status
<1>3. \A k \in Job, s \in Status :
         <<k, s>> \in {<<j, to>>} => k = j /\ s = to
  OBVIOUS
<1>4. PICK at : Begin(t, to, {<<j, to>>}, at)
  BY DEF BeginMark
<1>5. to \in LockedOps /\ to # "submit" /\ to # "decide"
  BY DEF LockedOps
<1>6. QED
  BY <1>1, <1>2, <1>3, <1>4, <1>5, BeginCases

LEMMA DecisionBegins ==
    ASSUME TypeOK, PlansKnown, NEW t \in Thread, NEW j \in Job,
           DecideRetry(t, j), UNCHANGED <<stage, hands>>
    PROVE  CallBegins(t)
<1>1. CASE /\ jobs[j].attempt < MaxAttempts[j]
           /\ Begin(t, "decide", {<<j, "retry_scheduled">>},
                    clock + Backoff[jobs[j].attempt])
  <2>1. \A k \in Job, s \in Status :
           <<k, s>> \in {<<j, "retry_scheduled">>} => k = j /\ s = "retry_scheduled"
    OBVIOUS
  <2>2. QED
    BY <1>1, <2>1, BeginCases DEF DecideRetry
<1>2. CASE /\ jobs[j].attempt >= MaxAttempts[j]
           /\ Begin(t, "decide", {<<j, "dead_lettered">>}, 0)
  <2>1. \A k \in Job, s \in Status :
           <<k, s>> \in {<<j, "dead_lettered">>} => k = j /\ s = "dead_lettered"
    OBVIOUS
  <2>2. QED
    BY <1>2, <2>1, BeginCases DEF DecideRetry
<1>3. QED
  BY <1>1, <1>2 DEF DecideRetry

LEMMA SubmissionBegins ==
    ASSUME TypeOK, PlansKnown, NEW t \in Thread, NEW j \in Job,
           SubmitLookup(t, j), UNCHANGED <<stage, hands>>
    PROVE  CallBegins(t)
<1>1. \A u \in Thread : ~Inserting(u, j)
  BY DEF SubmitLookup, Inserting
<1>2. QED
  BY <1>1, BeginCases DEF SubmitLookup

LEMMA TickBegins ==
    ASSUME TypeOK, PlansKnown, NEW t \in Thread,
           BeginRecover(t) \/ BeginPromote(t), UNCHANGED <<stage, hands>>
    PROVE  CallBegins(t)
<1>1. CASE BeginRecover(t)
  <2> DEFINE plan == {<<j, RecoveryTarget(j)>> : j \in {k \in Job : LeaseExpired(k)}}
  <2>1. \A k \in Job, s \in Status :
           <<k, s>> \in plan => jobs[k].status # "absent" /\ s # "dead_lettered"
    BY DEF LeaseExpired, Running, RecoveryTarget
  <2>2. Begin(t, "recover", plan, 0)
    BY <1>1 DEF BeginRecover
  <2>3. "recover" \in LockedOps
    BY DEF LockedOps
  <2> HIDE DEF plan
  <2>4. QED
    BY <2>1, <2>2, <2>3, BeginCases
<1>2. CASE BeginPromote(t)
  <2> DEFINE plan == {j \in Job : RetryDue(j)} \X {"pending"}
  <2>1. \A k \in Job, s \in Status :
           <<k, s>> \in plan => jobs[k].status # "absent" /\ s # "dead_lettered"
    BY DEF RetryDue
  <2>2. Begin(t, "promote", plan, 0)
    BY <1>2 DEF BeginPromote
  <2>3. "promote" \in LockedOps
    BY DEF LockedOps
  <2> HIDE DEF plan
  <2>4. QED
    BY <2>1, <2>2, <2>3, BeginCases
<1>3. QED
  BY <1>1, <1>2

-----------------------------------------------------------------------------
(* The calls that end *)

LEMMA NothingEnds ==
    ASSUME UNCHANGED jobs,
           \A t \in Thread : window'[t] = window[t] \/ window'[t] = Idle
    PROVE  RowsEnd /\ WindowsEnd
BY DEF RowsEnd, WindowsEnd

LEMMA RefusalEnds ==
    ASSUME TypeOK, NEW t \in Thread, Refuse(t) PROVE RowsEnd /\ WindowsEnd
BY NothingEnds DEF Refuse, TypeOK

LEMMA InsertionEnds ==
    ASSUME TypeOK, PlansKnown, NEW t \in Thread, NEW j \in Job, CreateJob(t, j)
    PROVE  RowsEnd /\ WindowsEnd
<1>1. CASE Refuse(t)
  BY <1>1, RefusalEnds
<1>2. CASE ~Refuse(t)
  <2>1. /\ jobs[j].status = "absent"
        /\ \A u \in Thread : Inserting(u, j) => u = t
    BY DEF CreateJob, PlansKnown, Inserting
  <2>2. /\ window'[t] = Idle
        /\ \A u \in Thread \ {t} : window'[u] = window[u]
    BY <1>2 DEF CreateJob, TypeOK
  <2>3. \A u \in Thread : ~Inserting(u, j)'
    BY <2>1, <2>2 DEF Inserting, Idle
  <2>4. /\ jobs'[j].status = "pending" /\ jobs'[j].owner = None
        /\ \A k \in Job \ {j} : jobs'[k] = jobs[k]
    BY <1>2 DEF CreateJob, TypeOK, NoRow
  <2>5. QED
    BY <2>1, <2>2, <2>3, <2>4 DEF RowsEnd, RowInserted, WindowsEnd
<1>3. QED
  BY <1>1, <1>2

LEMMA MarkEnds ==
    ASSUME TypeOK, PlansKnown, NEW t \in Thread, NEW j \in Job,
           NEW to \in {"succeeded", "failed", "retry_scheduled", "dead_lettered"},
           NEW runAfter, NEW event, CommitMark(t, j, to, runAfter, event)
    PROVE  RowsEnd /\ WindowsEnd
<1>1. CASE Refuse(t)
  BY <1>1, RefusalEnds
<1>2. CASE ~Refuse(t)
  <2>1. /\ jobs[j].status # "absent"
        /\ to = "dead_lettered" => jobs[j].attempt >= MaxAttempts[j]
    BY DEF CommitMark, PlansKnown, Status
  <2>2. /\ window'[t] = Idle
        /\ \A u \in Thread \ {t} : window'[u] = window[u]
    BY <1>2 DEF CommitMark, TypeOK
  <2>3. /\ jobs' = [jobs EXCEPT ![j] = [Unleased(@, to) EXCEPT !.runAfter = runAfter]]
    BY <1>2 DEF CommitMark
  <2>4. /\ jobs'[j].status = to /\ jobs'[j].owner = None
        /\ jobs'[j].attempt = jobs[j].attempt
        /\ \A k \in Job \ {j} : jobs'[k] = jobs[k]
    BY <2>3 DEF TypeOK, Row, Unleased
  <2>5. QED
    BY <2>1, <2>2, <2>4 DEF RowsEnd, RowLetGo, WindowsEnd
<1>3. QED
  BY <1>1, <1>2

LEMMA TickEnds ==
    ASSUME TypeOK, LeaseConsistent, PlansKnown, NEW t \in Thread,
           CommitRecover(t) \/ CommitPromote(t)
    PROVE  RowsEnd /\ WindowsEnd
<1>1. WindowsEnd
  BY DEF CommitRecover, CommitPromote, WindowsEnd, TypeOK
<1>2. CASE CommitRecover(t)
  <2>1. \A k \in Job : \/ jobs'[k] = jobs[k]
                       \/ /\ jobs[k].status = "running"
                          /\ jobs'[k].status \in {"pending", "retry_scheduled"}
                          /\ jobs'[k].owner = None
                          /\ jobs'[k].attempt = jobs[k].attempt
    BY <1>2 DEF CommitRecover, Unleased, TypeOK, Row, Running
  <2>2. QED
    BY <1>1, <2>1 DEF RowsEnd, RowLetGo
<1>3. CASE CommitPromote(t)
  <2>1. \A k \in Job : \/ jobs'[k] = jobs[k]
                       \/ /\ jobs[k].status = "retry_scheduled"
                          /\ jobs'[k].status = "pending"
                          /\ jobs'[k].owner = jobs[k].owner
                          /\ jobs'[k].attempt = jobs[k].attempt
    BY <1>3 DEF CommitPromote, TypeOK, Row
  <2>2. \A k \in Job : jobs[k].status = "retry_scheduled" => jobs[k].owner = None
    BY DEF LeaseConsistent, Running
  <2>3. QED
    BY <1>1, <2>1, <2>2 DEF RowsEnd, RowLetGo
<1>4. QED
  BY <1>2, <1>3

\* An executor's report that ends leaves the job it was about unleased: the
\* unique index cannot refuse the mark of a running job, and a job that is
\* not running has no owner.
LEMMA ReportLetsGo ==
    ASSUME TypeOK, LeaseConsistent, ActiveKeyUnique, PlansKnown,
           NEW t \in Thread, NEW j \in Job, window[t] # Idle, window'[t] = Idle,
           \/ \E to \in {"succeeded", "failed", "retry_scheduled", "dead_lettered"} :
                 \E runAfter, event : CommitMark(t, j, to, runAfter, event)
           \/ RejectRetry(t, j)
    PROVE  jobs'[j].owner = None
<1>1. ASSUME NEW to \in {"succeeded", "failed", "retry_scheduled", "dead_lettered"},
             NEW runAfter, NEW event, CommitMark(t, j, to, runAfter, event)
      PROVE  jobs'[j].owner = None
  <2>1. CASE to \in ActiveStatuses /\ KeyTaken(j) /\ Refuse(t)
    <3>1. jobs[j].status \notin ActiveStatuses
      BY <2>1 DEF KeyTaken, ActiveKeyUnique
    <3>2. jobs[j].owner = None
      BY <3>1 DEF LeaseConsistent, Running, ActiveStatuses
    <3>3. QED
      BY <2>1, <3>2 DEF Refuse
  <2>2. CASE jobs' = [jobs EXCEPT ![j] = [Unleased(@, to) EXCEPT !.runAfter = runAfter]]
    BY <2>2 DEF TypeOK, Row, Unleased
  <2>3. QED
    BY <1>1, <2>1, <2>2 DEF CommitMark
<1>2. CASE RejectRetry(t, j)
  <2>1. PICK to \in Status : /\ <<j, to>> \in window[t].plan
                             /\ <<jobs[j].status, to>> \notin ValidTransitions
    BY <1>2 DEF RejectRetry
  <2>2. to \in {"retry_scheduled", "dead_lettered"}
    BY <1>2, <2>1 DEF RejectRetry, PlansKnown
  <2>3. jobs[j].status # "running"
    BY <2>1, <2>2 DEF ValidTransitions
  <2>4. QED
    BY <1>2, <2>3 DEF RejectRetry, Refuse, LeaseConsistent, Running
<1>3. QED
  BY <1>1, <1>2

-----------------------------------------------------------------------------
(* Every step is of one of the three kinds. *)

LEMMA HandsKept ==
    ASSUME PoolShape, UNCHANGED hands PROVE HandsEnd
BY DEF PoolShape, HandsEnd

LEMMA StagesKept ==
    ASSUME PoolShape, UNCHANGED stage PROVE StagesEnd
BY DEF PoolShape, StagesEnd

LEMMA HandEmptied ==
    ASSUME PoolShape, NEW e \in Executor, NEW j \in Job, hands[e].job = j,
           hands' = [hands EXCEPT ![e] = Free], jobs'[j].owner = None
    PROVE  HandsEnd
<1>1. Free \in [job: Job \cup {None}, attempt: Nat]
  BY DEF Free
<1>2. QED
  BY <1>1 DEF PoolShape, HandsEnd

LEMMA DaemonSteps ==
    ASSUME PoolInv, NEW m \in Pool,
           EndLoop(m) \/ Drained(m) \/ RequestStop(m) \/ Kill(m)
    PROVE  Ends
<1> USE DEF PoolInv
<1>1. CASE EndLoop(m) \/ Drained(m)
  <2>1. stage[m] # "killed" /\ \E s \in {"draining", "stopped"} :
           stage' = [stage EXCEPT ![m] = s]
    BY <1>1 DEF EndLoop, Drained
  <2>2. StagesEnd
    BY <2>1 DEF PoolShape, StagesEnd
  <2>3. UNCHANGED <<jobs, window, hands>>
    BY <1>1 DEF EndLoop, Drained, vars
  <2>4. QED
    BY <2>2, <2>3, HandsKept, NothingEnds DEF Ends
<1>2. CASE RequestStop(m)
  <2>1. UNCHANGED <<jobs, window, hands, stage>>
    BY <1>2 DEF RequestStop, vars
  <2>2. QED
    BY <2>1, HandsKept, StagesKept, NothingEnds DEF Ends
<1>3. CASE Kill(m)
  <2>1. stage' = [stage EXCEPT ![m] = "killed"]
    BY <1>3 DEF Kill
  <2>2. StagesEnd /\ stage'[m] = "killed"
    BY <2>1 DEF PoolShape, StagesEnd
  <2>3. Free \in [job: Job \cup {None}, attempt: Nat]
    BY DEF Free
  <2>4. hands' = [e \in Executor |-> IF PoolOf[e] = m THEN Free ELSE hands[e]]
    BY <1>3 DEF Kill
  <2>5. HandsEnd
    BY <2>2, <2>3, <2>4 DEF PoolShape, HandsEnd
  <2>6. \A t \in Thread : window'[t] = window[t] \/ window'[t] = Idle
    BY <1>3 DEF Kill
  <2>7. QED
    BY <1>3, <2>2, <2>5, <2>6, NothingEnds DEF Ends, Kill
<1>4. QED
  BY <1>1, <1>2, <1>3

LEMMA ExecutorSteps ==
    ASSUME PoolInv, NEW e \in Executor, NEW j \in Job, Work(e, j)
    PROVE  CallBegins(e) \/ Ends
<1> USE PoolConstants DEF PoolInv
<1>1. CASE Report(e, j)
  BY <1>1, MarkBegins, DecisionBegins DEF Report, poolVars
<1>2. CASE Settle(e, j) /\ window'[e] = Idle
  <2>1. ASSUME NEW to \in {"succeeded", "failed", "retry_scheduled", "dead_lettered"},
               BeginMark(e, j, to)
        PROVE  FALSE
    BY <1>2, <2>1 DEF BeginMark, Begin, Idle, TypeOK
  <2>2. \/ \E to \in {"succeeded", "failed", "retry_scheduled", "dead_lettered"} :
              \E runAfter, event : CommitMark(e, j, to, runAfter, event)
        \/ RejectRetry(e, j)
    BY <1>2, <2>1 DEF Settle, MarkSucceeded, MarkFailed, MarkRetryScheduled,
       MarkDeadLettered
  <2>3. jobs'[j].owner = None
    BY <1>2, <2>2, ReportLetsGo DEF Settle
  <2>4. HandsEnd
    BY <1>2, <2>3, HandEmptied DEF Settle
  <2>5. RowsEnd /\ WindowsEnd
    BY <2>2, MarkEnds, RefusalEnds DEF RejectRetry
  <2>6. QED
    BY <1>2, <2>4, <2>5, StagesKept DEF Ends, Settle
<1>3. CASE Settle(e, j) /\ window'[e] # Idle
  <2>1. UNCHANGED <<stage, hands>>
    BY <1>3 DEF Settle
  <2>2. ASSUME NEW to, NEW runAfter, NEW event, CommitMark(e, j, to, runAfter, event)
        PROVE  FALSE
    BY <1>3, <2>2 DEF CommitMark, Refuse, TypeOK
  <2>3. ~RejectRetry(e, j)
    BY <1>3 DEF RejectRetry, Refuse, TypeOK
  <2>4. \E to \in {"succeeded", "failed", "retry_scheduled", "dead_lettered"} :
           BeginMark(e, j, to)
    BY <1>3, <2>2, <2>3 DEF Settle, MarkSucceeded, MarkFailed, MarkRetryScheduled,
       MarkDeadLettered
  <2>5. QED
    BY <1>3, <2>1, <2>4, MarkBegins DEF Settle
<1>4. CASE DropResult(e, j)
  <2>1. jobs[j].owner = None
    BY <1>4 DEF DropResult, LeaseConsistent
  <2>2. UNCHANGED <<jobs, window, stage>>
    BY <1>4 DEF DropResult, vars
  <2>3. HandsEnd
    BY <1>4, <2>1, <2>2, HandEmptied DEF DropResult
  <2>4. QED
    BY <2>2, <2>3, StagesKept, NothingEnds DEF Ends
<1>5. QED
  BY <1>1, <1>2, <1>3, <1>4 DEF Work

LEMMA SchedulerSteps ==
    ASSUME PoolInv, NEW s \in Scheduler, BeginTick(s) \/ ContinueTick(s)
    PROVE  CallBegins(s) \/ Ends
<1> USE PoolConstants DEF PoolInv
<1>1. UNCHANGED <<stage, hands>>
  BY DEF BeginTick, ContinueTick, Turn
<1>2. \/ BeginRecover(s) \/ BeginPromote(s)
      \/ CommitRecover(s) \/ CommitPromote(s)
      \/ UNCHANGED vars
  BY DEF BeginTick, ContinueTick
<1>3. CASE BeginRecover(s) \/ BeginPromote(s)
  BY <1>1, <1>3, TickBegins
<1>4. CASE CommitRecover(s) \/ CommitPromote(s)
  BY <1>1, <1>4, TickEnds, HandsKept, StagesKept DEF Ends
<1>5. CASE UNCHANGED vars
  BY <1>1, <1>5, NothingEnds, HandsKept, StagesKept DEF Ends, vars
<1>6. QED
  BY <1>2, <1>3, <1>4, <1>5

LEMMA PoolSteps ==
    ASSUME PoolInv, [PoolNext]_allVars
    PROVE  \/ \E m \in Pool, j \in Job : Poll(m, j)
           \/ \E t \in Thread : CallBegins(t)
           \/ Ends
<1> USE PoolConstants DEF PoolInv
<1>1. ASSUME NEW t \in Thread, NEW j \in Job, Submit(t, j)
      PROVE  CallBegins(t) \/ Ends
  BY <1>1, SubmissionBegins, InsertionEnds, HandsKept, StagesKept
     DEF Submit, poolVars, Ends
<1>2. CASE PassTime \/ UNCHANGED allVars
  <2>1. UNCHANGED <<jobs, window, hands, stage>>
    BY <1>2 DEF PassTime, Tick, poolVars, allVars
  <2>2. QED
    BY <2>1, NothingEnds, HandsKept, StagesKept DEF Ends
<1>3. QED
  BY <1>1, <1>2, DaemonSteps, ExecutorSteps, SchedulerSteps DEF PoolNext

-----------------------------------------------------------------------------
(* What the invariant keeps through each kind of step *)

LEMMA StoreKept ==
    ASSUME PoolInv, [PoolNext]_allVars
    PROVE  TypeOK' /\ LeaseConsistent' /\ ActiveKeyUnique'
<1>1. TypeOK /\ TableStep
  BY PoolStepsOfStore, StepsOfTable DEF PoolInv
<1>2. TypeOK'
  BY <1>1, PoolStepsOfStore, TableTypes, WindowTypes DEF TypeOK
<1>3. QED
  BY <1>1, <1>2, LeaseStep, StatusMoves, KeyMove DEF PoolInv

LEMMA BeginKeeps ==
    ASSUME PoolInv, NEW t \in Thread, CallBegins(t)
    PROVE  /\ PoolShape' /\ PlansKnown' /\ HandsKnown'
           /\ LeaseIsWorkedOn' /\ AttemptHandledOnce' /\ DeadLetterEarned'
<1>1. PlansKnown'
  <2>1. ASSUME NEW u \in Thread, NEW j \in Job, Inserting(u, j)'
        PROVE  /\ jobs'[j].status = "absent"
               /\ \A v \in Thread : Inserting(v, j)' => v = u
    <3>1. \A v \in Thread \ {t} : Inserting(v, j)' <=> Inserting(v, j)
      BY DEF CallBegins, Inserting
    <3>2. CASE u = t
      BY <2>1, <3>1, <3>2 DEF CallBegins
    <3>3. CASE u # t
      <4>1. Inserting(u, j) /\ ~Inserting(t, j)'
        BY <2>1, <3>1, <3>3 DEF CallBegins
      <4>2. QED
        BY <3>1, <4>1 DEF CallBegins, PoolInv, PlansKnown
    <3>4. QED
      BY <3>2, <3>3
  <2>2. ASSUME NEW u \in Thread, NEW j \in Job, NEW to \in Status,
               window'[u].op # "submit", <<j, to>> \in window'[u].plan
        PROVE  /\ jobs'[j].status # "absent"
               /\ window'[u].op = "decide" => to \in {"retry_scheduled", "dead_lettered"}
               /\ to = "dead_lettered" => jobs'[j].attempt >= MaxAttempts[j]
    BY <2>2 DEF CallBegins, PoolInv, PlansKnown
  <2>3. QED
    BY <2>1, <2>2 DEF PlansKnown
<1>2. PoolShape' /\ HandsKnown' /\ AttemptHandledOnce' /\ DeadLetterEarned'
  BY DEF CallBegins, PoolInv, PoolShape, HandsKnown, AttemptHandledOnce, DeadLetterEarned
<1>3. LeaseIsWorkedOn'
  BY DEF CallBegins, PoolInv, LeaseIsWorkedOn
<1>4. QED
  BY <1>1, <1>2, <1>3

\* Rows neither disappear nor lose attempts.
LEMMA RowsStay ==
    ASSUME PoolInv, RowsEnd, NEW k \in Job
    PROVE  /\ jobs[k].status # "absent" =>
                jobs'[k].status # "absent" /\ jobs'[k].attempt = jobs[k].attempt
           /\ jobs'[k].owner # None => jobs'[k] = jobs[k]
           /\ jobs'[k].status = "dead_lettered" => jobs[k].status # "absent"
BY DEF RowsEnd, RowInserted, RowLetGo, PoolInv, LeaseConsistent, Running

LEMMA EndKeeps ==
    ASSUME PoolInv, Ends, TypeOK'
    PROVE  /\ PoolShape' /\ PlansKnown' /\ HandsKnown'
           /\ LeaseIsWorkedOn' /\ AttemptHandledOnce' /\ DeadLetterEarned'
<1> USE DEF Ends
<1>1. PoolShape'
  BY DEF HandsEnd, StagesEnd, PoolShape
<1>2. PlansKnown'
  <2>1. ASSUME NEW t \in Thread, NEW j \in Job, Inserting(t, j)'
        PROVE  /\ jobs'[j].status = "absent"
               /\ \A u \in Thread : Inserting(u, j)' => u = t
    <3>1. \A u \in Thread : Inserting(u, j)' => Inserting(u, j)
      BY DEF WindowsEnd, Inserting, Idle
    <3>2. jobs[j].status = "absent" /\ \A u \in Thread : Inserting(u, j) => u = t
      BY <2>1, <3>1 DEF PoolInv, PlansKnown
    <3>3. jobs'[j] = jobs[j]
      BY <2>1, <3>2 DEF RowsEnd, RowInserted, RowLetGo
    <3>4. QED
      BY <3>1, <3>2, <3>3
  <2>2. ASSUME NEW t \in Thread, NEW j \in Job, NEW to \in Status,
               window'[t].op # "submit", <<j, to>> \in window'[t].plan
        PROVE  /\ jobs'[j].status # "absent"
               /\ window'[t].op = "decide" => to \in {"retry_scheduled", "dead_lettered"}
               /\ to = "dead_lettered" => jobs'[j].attempt >= MaxAttempts[j]
    <3>1. window'[t] = window[t]
      BY <2>2 DEF WindowsEnd, Idle
    <3>2. QED
      BY <2>2, <3>1, RowsStay DEF PoolInv, PlansKnown
  <2>3. QED
    BY <2>1, <2>2 DEF PlansKnown
<1>3. HandsKnown'
  <2>1. ASSUME NEW e \in Executor, NEW j \in Job, hands'[e].job = j
        PROVE  hands'[e] = hands[e]
    BY <2>1, PoolConstants DEF HandsEnd, Free
  <2>2. QED
    BY <2>1, RowsStay DEF HandsKnown, PoolInv
<1>4. LeaseIsWorkedOn'
  <2>1. ASSUME NEW j \in Job, NEW m \in Pool,
               jobs'[j].owner = m, stage'[m] # "killed"
        PROVE  \E e \in Team(m) : hands'[e] = [job |-> j, attempt |-> jobs'[j].attempt]
    <3>1. jobs'[j] = jobs[j]
      BY <2>1, RowsStay, PoolConstants, ConstantTypes
    <3>2. stage[m] # "killed"
      BY <2>1 DEF StagesEnd
    <3>3. PICK e \in Team(m) : hands[e] = [job |-> j, attempt |-> jobs[j].attempt]
      BY <2>1, <3>1, <3>2 DEF PoolInv, LeaseIsWorkedOn
    <3>4. e \in Executor /\ PoolOf[e] = m /\ hands[e].job = j
      BY <3>3 DEF Team
    <3>5. jobs'[hands[e].job].owner # None
      BY <2>1, <3>4, PoolConstants, ConstantTypes
    <3>6. hands'[e] = hands[e]
      BY <2>1, <3>4, <3>5 DEF HandsEnd
    <3>7. QED
      BY <3>1, <3>3, <3>6
  <2>2. QED
    BY <2>1 DEF LeaseIsWorkedOn, Team
<1>5. AttemptHandledOnce'
  BY DEF HandsEnd, PoolInv, AttemptHandledOnce
<1>6. DeadLetterEarned'
  <2>1. ASSUME NEW j \in Job, jobs'[j].status = "dead_lettered"
        PROVE  jobs'[j].attempt >= MaxAttempts[j]
    BY <2>1 DEF RowsEnd, RowInserted, RowLetGo, PoolInv, DeadLetterEarned
  <2>2. QED
    BY <2>1 DEF DeadLetterEarned
<1>7. QED
  BY <1>1, <1>2, <1>3, <1>4, <1>5, <1>6

\* A claim counts the attempt before it hands the job over, so the attempt
\* is one that no executor has.
LEMMA PollKeeps ==
    ASSUME PoolInv, NEW m \in Pool, NEW j \in Job, Poll(m, j)
    PROVE  /\ PoolShape' /\ PlansKnown' /\ HandsKnown'
           /\ LeaseIsWorkedOn' /\ AttemptHandledOnce' /\ DeadLetterEarned'
<1> USE PoolConstants, ConstantTypes DEF PoolInv, PoolShape
<1>1. /\ jobs[j].status = "pending"
      /\ jobs[j].attempt \in Nat
      /\ jobs'[j].status = "running"
      /\ jobs'[j].attempt = jobs[j].attempt + 1
      /\ jobs'[j].owner = m
      /\ \A k \in Job \ {j} : jobs'[k] = jobs[k]
  BY DEF Poll, ClaimNext, Claimable, Leased, TypeOK, Row
<1>2. \A k \in Job :
         /\ jobs[k].status # "absent" => jobs'[k].status # "absent"
         /\ jobs[k].status = "absent" => jobs'[k] = jobs[k]
         /\ jobs[k].attempt \in Nat /\ jobs'[k].attempt \in Nat
         /\ jobs'[k].attempt >= jobs[k].attempt
  <2>1. ASSUME NEW k \in Job
        PROVE  /\ jobs[k].status # "absent" => jobs'[k].status # "absent"
               /\ jobs[k].status = "absent" => jobs'[k] = jobs[k]
               /\ jobs[k].attempt \in Nat /\ jobs'[k].attempt \in Nat
               /\ jobs'[k].attempt >= jobs[k].attempt
    <3>1. CASE k = j
      BY <1>1, <3>1
    <3>2. CASE k # j
      <4>1. jobs[k].attempt \in Nat
        BY DEF TypeOK, Row
      <4>2. QED
        BY <1>1, <3>2, <4>1
    <3>3. QED
      BY <3>1, <3>2
  <2>2. QED
    BY <2>1
<1>3. UNCHANGED <<window, stage>>
  BY DEF Poll, ClaimNext
<1>4. PICK e \in Team(m) \ Busy(m) :
         hands' = [hands EXCEPT ![e] = [job |-> j, attempt |-> jobs'[j].attempt]]
  BY DEF Poll
<1>5. /\ e \in Executor /\ PoolOf[e] = m /\ hands[e] = Free
      /\ hands'[e] = [job |-> j, attempt |-> jobs[j].attempt + 1]
      /\ \A f \in Executor \ {e} : hands'[f] = hands[f]
  BY <1>1, <1>4 DEF Team, Busy
<1>6. PoolShape'
  <2>1. [job |-> j, attempt |-> jobs'[j].attempt] \in [job: Job \cup {None}, attempt: Nat]
    BY <1>1
  <2>2. QED
    BY <1>3, <1>4, <2>1
<1>7. PlansKnown'
  <2>1. ASSUME NEW t \in Thread, NEW k \in Job, Inserting(t, k)'
        PROVE  /\ jobs'[k].status = "absent"
               /\ \A u \in Thread : Inserting(u, k)' => u = t
    <3>1. /\ jobs[k].status = "absent"
          /\ \A u \in Thread : Inserting(u, k) => u = t
      BY <1>3, <2>1 DEF PlansKnown, Inserting
    <3>2. QED
      BY <1>2, <1>3, <3>1 DEF Inserting
  <2>2. ASSUME NEW t \in Thread, NEW k \in Job, NEW to \in Status,
               window'[t].op # "submit", <<k, to>> \in window'[t].plan
        PROVE  /\ jobs'[k].status # "absent"
               /\ window'[t].op = "decide" => to \in {"retry_scheduled", "dead_lettered"}
               /\ to = "dead_lettered" => jobs'[k].attempt >= MaxAttempts[k]
    <3>1. /\ jobs[k].status # "absent"
          /\ window[t].op = "decide" => to \in {"retry_scheduled", "dead_lettered"}
          /\ to = "dead_lettered" => jobs[k].attempt >= MaxAttempts[k]
      BY <1>3, <2>2 DEF PlansKnown
    <3>2. MaxAttempts[k] \in Nat
      OBVIOUS
    <3>3. jobs[k].attempt >= MaxAttempts[k] => jobs'[k].attempt >= MaxAttempts[k]
      BY <1>2, <3>2
    <3>4. QED
      BY <1>2, <1>3, <3>1, <3>3
  <2>3. QED
    BY <2>1, <2>2 DEF PlansKnown
<1>8. HandsKnown'
  <2>1. ASSUME NEW f \in Executor, NEW k \in Job, hands'[f].job = k
        PROVE  jobs'[k].status # "absent" /\ hands'[f].attempt <= jobs'[k].attempt
    <3>1. CASE f = e
      BY <1>1, <1>5, <2>1, <3>1
    <3>2. CASE f # e
      <4>1. /\ hands'[f] = hands[f] /\ hands[f].attempt \in Nat
            /\ jobs[k].status # "absent" /\ hands[f].attempt <= jobs[k].attempt
        BY <1>5, <2>1, <3>2 DEF HandsKnown
      <4>2. QED
        BY <1>2, <4>1
    <3>3. QED
      BY <3>1, <3>2
  <2>2. QED
    BY <2>1 DEF HandsKnown
<1>9. LeaseIsWorkedOn'
  <2>1. ASSUME NEW k \in Job, NEW n \in Pool, jobs'[k].owner = n, stage'[n] # "killed"
        PROVE  \E f \in Team(n) : hands'[f] = [job |-> k, attempt |-> jobs'[k].attempt]
    <3>1. CASE k = j
      BY <1>1, <1>4, <1>5, <2>1, <3>1
    <3>2. CASE k # j
      <4>1. PICK f \in Team(n) : hands[f] = [job |-> k, attempt |-> jobs[k].attempt]
        BY <1>1, <1>3, <2>1, <3>2 DEF LeaseIsWorkedOn
      <4>2. f \in Executor /\ f # e
        BY <1>5, <4>1 DEF Team, Free
      <4>3. QED
        BY <1>1, <1>5, <3>2, <4>1, <4>2
    <3>3. QED
      BY <3>1, <3>2
  <2>2. QED
    BY <2>1 DEF LeaseIsWorkedOn, Team
<1>10. AttemptHandledOnce'
  <2>1. ASSUME NEW f \in Executor \ {e} PROVE hands[f] # hands'[e]
    <3>1. CASE hands[f].job = j
      <4>1. hands[f].attempt <= jobs[j].attempt /\ hands[f].attempt \in Nat
        BY <3>1 DEF HandsKnown
      <4>2. hands'[e].attempt = jobs[j].attempt + 1
        BY <1>5
      <4>3. QED
        BY <1>1, <4>1, <4>2
    <3>2. CASE hands[f].job # j
      BY <1>5, <3>2
    <3>3. QED
      BY <3>1, <3>2
  <2>2. QED
    BY <1>5, <2>1 DEF AttemptHandledOnce
<1>11. DeadLetterEarned'
  BY <1>1 DEF DeadLetterEarned
<1>12. QED
  BY <1>6, <1>7, <1>8, <1>9, <1>10, <1>11

-----------------------------------------------------------------------------
LEMMA PoolInvariant == PoolSpec => []PoolInv
<1>1. PoolInit => PoolInv
  <2> SUFFICES ASSUME PoolInit PROVE PoolInv
    OBVIOUS
  <2>1. Snapshot("none", NoRow) \in Revision
    BY RowTypes DEF Event
  <2>2. TypeOK
    BY <2>1, RowTypes DEF PoolInit, Init, TypeOK, Idle, Window, Time
  <2>3. \A j \in Job : jobs[j].status = "absent" /\ jobs[j].owner = None
                       /\ jobs[j].expires = None
    BY DEF PoolInit, Init, NoRow
  <2>4. LeaseConsistent /\ ActiveKeyUnique /\ DeadLetterEarned
    BY <2>3 DEF LeaseConsistent, ActiveKeyUnique, DeadLetterEarned, Running,
       ActiveStatuses
  <2>5. \A t \in Thread : window[t].plan = {}
    BY DEF PoolInit, Init, Idle
  <2>6. PlansKnown
    BY <2>5 DEF PlansKnown, Inserting
  <2>7. Free \in [job: Job \cup {None}, attempt: Nat]
    BY DEF Free
  <2>8. PoolShape /\ \A e \in Executor : hands[e] = Free
    BY <2>7 DEF PoolShape, PoolInit
  <2>9. HandsKnown /\ AttemptHandledOnce
    BY <2>8, PoolConstants DEF HandsKnown, AttemptHandledOnce, Free
  <2>10. LeaseIsWorkedOn
    BY <2>3, PoolConstants, ConstantTypes DEF LeaseIsWorkedOn
  <2>11. QED
    BY <2>2, <2>4, <2>6, <2>8, <2>9, <2>10 DEF PoolInv
<1>2. PoolInv /\ [PoolNext]_allVars => PoolInv'
  BY StoreKept, PoolSteps, PollKeeps, BeginKeeps, EndKeeps DEF PoolInv
<1>3. QED
  BY <1>1, <1>2, PTL DEF PoolSpec

\* No attempt is in the hands of two executors, whichever daemons they belong
\* to and however late results, recoveries and repeated claims interleave
\* (WorkerPool._execute_job, claim_next_job).
THEOREM AttemptsHandledOnce == PoolSpec => []AttemptHandledOnce
<1>1. PoolInv => AttemptHandledOnce
  BY DEF PoolInv
<1>2. QED
  BY <1>1, PoolInvariant, PTL

\* A job is dead-lettered only when its attempts are used up, although the
\* decision and the mark read the row at different times
\* (retry_or_dead_letter, mark_dead_lettered).
THEOREM DeadLettersEarned == PoolSpec => []DeadLetterEarned
<1>1. PoolInv => DeadLetterEarned
  BY DEF PoolInv
<1>2. QED
  BY <1>1, PoolInvariant, PTL

\* Whatever a living daemon leases is in the hands of one of its executors:
\* the pool never forgets a job it holds.
THEOREM LeasesWorkedOn == PoolSpec => []LeaseIsWorkedOn
<1>1. PoolInv => LeaseIsWorkedOn
  BY DEF PoolInv
<1>2. QED
  BY <1>1, PoolInvariant, PTL

-----------------------------------------------------------------------------
(* A daemon and the table it works on *)

\* Whatever daemons do, is what JobStore says that threads do with the table.
THEOREM DaemonsUseTable == PoolSpec => Spec
<1>1. PoolInit => Init
  BY DEF PoolInit
<1>2. TypeOK /\ [PoolNext]_allVars => [Next]_vars
  BY PoolStepsOfStore
<1>3. PoolInv => TypeOK
  BY DEF PoolInv
<1>4. QED
  BY <1>1, <1>2, <1>3, PoolInvariant, PTL DEF PoolSpec, Spec

\* One daemon, however it is killed, and any number of processes that submit to it:
\* its executors, its scheduler and its pool implement the abstract queue.
THEOREM PoolImplementsQueue == ASSUME OneWorkingProcess PROVE PoolSpec => ImplementsLeaseQueue
BY DaemonsUseTable, TableImplementsQueue, PTL

\* What a daemon and its clients keep of the transitions, the leases, the
\* dependencies and the events.
THEOREM PoolKeepsPromises ==
    ASSUME OneWorkingProcess
    PROVE  PoolSpec => /\ LegalTransitions
                       /\ LiveLeaseKept
                       /\ []StartedAfterDependencies
                       /\ []EventTellsStatus
BY DaemonsUseTable, TransitionsLegal, LiveLeasesKept, DependenciesKept, EventsTellStatus, PTL
=============================================================================
