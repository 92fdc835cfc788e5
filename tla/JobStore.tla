------------------------------ MODULE JobStore ------------------------------
(***************************************************************************)
(* The durable job table of djobs (storage/sqlite.py) behind QueueService  *)
(* (queue/service.py), shared by several operating-system processes.       *)
(*                                                                         *)
(* One connection belongs to one process and is protected by that          *)
(* process's lock, so calls of one process never overlap.  Between         *)
(* processes only SQLite's write lock orders things: the claims and the    *)
(* insertion run in BEGIN IMMEDIATE and are one step, whereas the mark_*   *)
(* calls, release, heartbeat, recovery and promotion first read in         *)
(* autocommit mode and write later.  Those calls are two steps here, with  *)
(* what was read kept in window[t].                                        *)
(*                                                                         *)
(* An operator whose name begins with Wrong is not part of the model: it   *)
(* is the definition that follows it with a plausible bug, kept to show    *)
(* that the property named in its comment notices.                         *)
(***************************************************************************)
EXTENDS Integers, FiniteSets, JobStates

CONSTANTS
    Job,         \* job identifiers that can be submitted
    Thread,      \* callers; a caller is also the worker_id it leases under
    Process,     \* operating-system processes, one connection each
    ProcessOf,   \* the process each thread runs in
    Uses,        \* the operations each thread calls
    None,        \* SQL NULL
    KeyOf,       \* idempotency_key of a job, or None
    ResourceOf,  \* resource_key of a job, or None
    DepsOf,      \* depends_on of a job
    TypeOf,      \* type of a job
    TypeFilter,  \* type_filter each thread claims with
    TypeLimit,   \* type_concurrency_limits each thread claims with, or None
    MaxAttempts, \* max_attempts of a job
    StartDelay,  \* run_after of a new job minus its creation; 0 is no run_after
    Lease,       \* lease duration
    Backoff,     \* delay before the retry that follows an attempt (RetryPolicy)
    MaxClock,    \* bound: the last instant of a behaviour
    MaxClaims    \* bound: the largest attempt a claim may reach

VARIABLES
    jobs,    \* the jobs table: one row per job identifier
    ledger,  \* the newest context_revisions row of each job
    window,  \* per thread: the call in progress and what it has read
    clock    \* the wall clock shared by every process

vars == <<jobs, ledger, window, clock>>

-----------------------------------------------------------------------------
(* The state of a row and of a call *)

Operation == {"submit", "claim", "succeeded", "failed", "archived",
              "decide", "release", "heartbeat", "recover", "promote"}

Time == Nat

Row == [status: Status, attempt: 0..MaxClaims, runAfter: Time \cup {None},
        owner: Thread \cup {None}, expires: Time \cup {None}, created: Time]

NoRow == [status |-> "absent", attempt |-> 0, runAfter |-> None,
          owner |-> None, expires |-> None, created |-> 0]

\* Events written to job_events.  "none": nothing was recorded yet.
Event == {"none", "job_created", "job_claimed", "job_succeeded", "job_failed",
          "job_archived", "retry_scheduled", "job_dead_lettered",
          "job_released", "retry_promoted", "lease_expired",
          "handoff_recorded"}

Revision == [event: Event, status: Status, attempt: 0..MaxClaims,
             runAfter: Time \cup {None}]

\* What the trigger on job_events copies from the job's current row.
Snapshot(event, row) ==
    [event |-> event, status |-> row.status, attempt |-> row.attempt,
     runAfter |-> row.runAfter]

\* A call between its read and its write.  plan holds the jobs it read with
\* the status it will give them; at is created_at of a job about to be
\* inserted or run_after of a retry, and 0 for the other calls.
Idle == [op |-> "idle", plan |-> {}, at |-> 0]

\* These calls hold their process's lock from the read to the commit;
\* "submit" and "decide" are pauses between two repository calls.
LockedOps == {"succeeded", "failed", "archived", "retry_scheduled",
              "dead_lettered", "release", "heartbeat", "recover", "promote"}

Window == [op: LockedOps \cup {"idle", "submit", "decide"},
           plan: SUBSET (Job \X Status), at: Time]

ASSUME ConstantTypes ==
    /\ ProcessOf \in [Thread -> Process]
    /\ Uses \in [Thread -> SUBSET Operation]
    /\ None \notin Thread \cup Nat
    /\ DepsOf \in [Job -> SUBSET Job]
    /\ MaxAttempts \in [Job -> Nat]
    /\ StartDelay \in [Job -> Nat]
    /\ Lease \in Nat \ {0}
    /\ Backoff \in [0..MaxClaims -> Nat]
    /\ MaxClock \in Nat
    /\ MaxClaims \in Nat

ASSUME LimitTypes ==
    /\ IsFiniteSet(Job)
    /\ \A t \in Thread, j \in Job : TypeLimit[t][TypeOf[j]] \in Nat \cup {None}

-----------------------------------------------------------------------------
(* What the calls read *)

\* No lock: LegalTransitions, EventTellsStatus.
WrongLockFree(t) == TRUE

\* The process's lock is free: none of its threads is inside a call.
LockFree(t) ==
    \A u \in Thread : ProcessOf[u] = ProcessOf[t] => window[u].op \notin LockedOps

\* Thread t, busy with nothing, enters a repository call it uses.
Enters(t, operation) ==
    /\ window[t] = Idle
    /\ operation \in Uses[t]
    /\ LockFree(t)

Running(j) == jobs[j].status = "running"

\* Another row that is active under j's idempotency key.
KeyTaken(j) ==
    /\ KeyOf[j] # None
    /\ \E k \in Job \ {j} : /\ KeyOf[k] = KeyOf[j]
                            /\ jobs[k].status \in ActiveStatuses

\* An expired holder does not count: ResourceExclusive, ImplementsLeaseQueue.
WrongResourceHeld(j) ==
    /\ ResourceOf[j] # None
    /\ \E k \in Job : /\ Running(k) /\ ResourceOf[k] = ResourceOf[j]
                      /\ jobs[k].expires > clock

ResourceHeld(j) ==
    /\ ResourceOf[j] # None
    /\ \E k \in Job : Running(k) /\ ResourceOf[k] = ResourceOf[j]

\* A dependency only has to be over: StartedAfterDependencies.
WrongDependenciesSatisfied(j) ==
    \A d \in DepsOf[j] : jobs[d].status \notin ActiveStatuses

DependenciesSatisfied(j) == \A d \in DepsOf[j] : jobs[d].status = "succeeded"

TypeFull(t, j) ==
    LET limit == TypeLimit[t][TypeOf[j]] IN
    /\ limit # None
    /\ Cardinality({k \in Job : Running(k) /\ TypeOf[k] = TypeOf[j]}) >= limit

Due(j) == jobs[j].runAfter # None => jobs[j].runAfter <= clock

Claimable(t, j) ==
    /\ jobs[j].status = "pending"
    /\ Due(j)
    /\ TypeOf[j] \in TypeFilter[t]
    /\ ~TypeFull(t, j)
    /\ ~ResourceHeld(j)
    /\ DependenciesSatisfied(j)

-----------------------------------------------------------------------------
(* What the calls write *)

Begin(t, operation, plan, at) ==
    /\ window' = [window EXCEPT ![t] = [op |-> operation, plan |-> plan, at |-> at]]
    /\ UNCHANGED <<jobs, ledger, clock>>

\* The call returns or raises without having changed a row.
Refuse(t) ==
    /\ window' = [window EXCEPT ![t] = Idle]
    /\ UNCHANGED <<jobs, ledger, clock>>

\* The event is appended before the update: LedgerCurrent.
WrongLog(js, event) ==
    ledger' = [j \in Job |-> IF j \in js THEN Snapshot(event, jobs[j])
                                         ELSE ledger[j]]

\* Every event row makes the trigger record the job as this transaction
\* leaves it.
Log(js, event) ==
    ledger' = [j \in Job |-> IF j \in js THEN Snapshot(event, jobs'[j])
                                         ELSE ledger[j]]

\* _clear_lease is forgotten: LeaseConsistent.
WrongUnleased(row, to) == [row EXCEPT !.status = to]

\* Status and lease columns as _update_status and _clear_lease leave them.
Unleased(row, to) ==
    [row EXCEPT !.status = to, !.owner = None, !.expires = None]

\* The attempt is not counted: AttemptHandledOnce.
WrongLeased(row, t) ==
    [row EXCEPT !.status = "running", !.owner = t, !.expires = clock + Lease]

Leased(row, t) ==
    [row EXCEPT !.status = "running", !.attempt = @ + 1,
                !.owner = t, !.expires = clock + Lease]

-----------------------------------------------------------------------------
(* Submission: QueueService.submit looks the key up, then inserts *)

SubmitLookup(t, j) ==
    /\ Enters(t, "submit")
    /\ jobs[j].status = "absent"
    /\ \A u \in Thread : <<j, "pending">> \notin window[u].plan
    /\ ~KeyTaken(j)
    /\ Begin(t, "submit", {<<j, "pending">>}, clock)

\* The unique index refuses the row when another process inserted one under
\* the same key after the lookup.
CreateJob(t, j) ==
    /\ window[t].op = "submit"
    /\ <<j, "pending">> \in window[t].plan
    /\ LockFree(t)
    /\ \/ KeyTaken(j) /\ Refuse(t)
       \/ /\ ~KeyTaken(j)
          /\ jobs' = [jobs EXCEPT ![j] =
                 [NoRow EXCEPT
                    !.status = "pending",
                    !.created = window[t].at,
                    !.runAfter = IF StartDelay[j] = 0 THEN None
                                 ELSE window[t].at + StartDelay[j]]]
          /\ Log({j}, "job_created")
          /\ window' = [window EXCEPT ![t] = Idle]
          /\ UNCHANGED clock

-----------------------------------------------------------------------------
(* Claiming: one BEGIN IMMEDIATE transaction *)

ClaimNext(t, j) ==
    /\ Enters(t, "claim")
    /\ Claimable(t, j)
    /\ \A k \in Job : Claimable(t, k) => jobs[j].created <= jobs[k].created
    /\ jobs[j].attempt < MaxClaims
    /\ jobs' = [jobs EXCEPT ![j] = [Leased(@, t) EXCEPT !.runAfter = None]]
    /\ Log({j}, "job_claimed")
    /\ UNCHANGED <<window, clock>>

-----------------------------------------------------------------------------
(* Marks: read and validate, then update by id alone *)

BeginMark(t, j, to) ==
    /\ <<jobs[j].status, to>> \in ValidTransitions
    /\ \/ /\ Enters(t, to)
          /\ Begin(t, to, {<<j, to>>}, 0)
       \/ /\ window[t].op = "decide"
          /\ <<j, to>> \in window[t].plan
          /\ LockFree(t)
          /\ Begin(t, to, {<<j, to>>}, window[t].at)

\* The update fails when it would make a second row active under one key.
CommitMark(t, j, to, runAfter, event) ==
    /\ window[t].op = to
    /\ <<j, to>> \in window[t].plan
    /\ \/ to \in ActiveStatuses /\ KeyTaken(j) /\ Refuse(t)
       \/ /\ ~(to \in ActiveStatuses /\ KeyTaken(j))
          /\ jobs' = [jobs EXCEPT ![j] =
                         [Unleased(@, to) EXCEPT !.runAfter = runAfter]]
          /\ Log({j}, event)
          /\ window' = [window EXCEPT ![t] = Idle]
          /\ UNCHANGED clock

MarkSucceeded(t, j) ==
    \/ BeginMark(t, j, "succeeded")
    \/ CommitMark(t, j, "succeeded", jobs[j].runAfter, "job_succeeded")

MarkFailed(t, j) ==
    \/ BeginMark(t, j, "failed")
    \/ CommitMark(t, j, "failed", jobs[j].runAfter, "job_failed")

MarkArchived(t, j) ==
    \/ BeginMark(t, j, "archived")
    \/ CommitMark(t, j, "archived", jobs[j].runAfter, "job_archived")

MarkRetryScheduled(t, j) ==
    \/ BeginMark(t, j, "retry_scheduled")
    \/ CommitMark(t, j, "retry_scheduled", window[t].at, "retry_scheduled")

MarkDeadLettered(t, j) ==
    \/ BeginMark(t, j, "dead_lettered")
    \/ CommitMark(t, j, "dead_lettered", jobs[j].runAfter, "job_dead_lettered")

\* The last attempt is given up: DeadLetterEarned.
WrongDecideRetry(t, j) ==
    /\ Enters(t, "decide")
    /\ jobs[j].status # "absent"
    /\ \/ /\ jobs[j].attempt + 1 < MaxAttempts[j]
          /\ jobs[j].attempt > 0
          /\ Begin(t, "decide", {<<j, "retry_scheduled">>},
                   clock + Backoff[jobs[j].attempt])
       \/ /\ jobs[j].attempt + 1 >= MaxAttempts[j]
          /\ Begin(t, "decide", {<<j, "dead_lettered">>}, 0)

\* retry_or_dead_letter reads the row and decides; the mark it then calls
\* reads the row again.
DecideRetry(t, j) ==
    /\ Enters(t, "decide")
    /\ jobs[j].status # "absent"
    /\ \/ /\ jobs[j].attempt < MaxAttempts[j]
          /\ jobs[j].attempt > 0       \* RetryPolicy raises for attempt 0
          /\ Begin(t, "decide", {<<j, "retry_scheduled">>},
                   clock + Backoff[jobs[j].attempt])
       \/ /\ jobs[j].attempt >= MaxAttempts[j]
          /\ Begin(t, "decide", {<<j, "dead_lettered">>}, 0)

\* The second read finds a status the mark is not allowed to leave.
RejectRetry(t, j) ==
    /\ window[t].op = "decide"
    /\ LockFree(t)
    /\ \E to \in Status : /\ <<j, to>> \in window[t].plan
                          /\ <<jobs[j].status, to>> \notin ValidTransitions
    /\ Refuse(t)

-----------------------------------------------------------------------------
(* Leases *)

HoldsLease(t, j) == Running(j) /\ jobs[j].owner = t

BeginRelease(t, j) ==
    /\ Enters(t, "release")
    /\ HoldsLease(t, j)
    /\ Begin(t, "release", {<<j, "pending">>}, 0)

CommitRelease(t, j) ==
    /\ window[t].op = "release"
    /\ <<j, "pending">> \in window[t].plan
    /\ \/ KeyTaken(j) /\ Refuse(t)
       \/ /\ ~KeyTaken(j)
          /\ jobs' = [jobs EXCEPT ![j] = Unleased(@, "pending")]
          /\ Log({j}, "job_released")
          /\ window' = [window EXCEPT ![t] = Idle]
          /\ UNCHANGED clock

ReleaseJob(t, j) == BeginRelease(t, j) \/ CommitRelease(t, j)

BeginHeartbeat(t, j) ==
    /\ Enters(t, "heartbeat")
    /\ HoldsLease(t, j)
    /\ Begin(t, "heartbeat", {<<j, "running">>}, 0)

\* UPDATE ... WHERE id = ? AND leased_by = ?, and no event.
CommitHeartbeat(t, j) ==
    /\ window[t].op = "heartbeat"
    /\ <<j, "running">> \in window[t].plan
    /\ jobs' = IF jobs[j].owner = t
               THEN [jobs EXCEPT ![j].expires = clock + Lease]
               ELSE jobs
    /\ window' = [window EXCEPT ![t] = Idle]
    /\ UNCHANGED <<ledger, clock>>

Heartbeat(t, j) == BeginHeartbeat(t, j) \/ CommitHeartbeat(t, j)

\* A lease is taken for expired one instant early: LiveLeaseKept.
WrongLeaseExpired(j) ==
    /\ Running(j)
    /\ jobs[j].expires # None
    /\ jobs[j].expires <= clock + 1

LeaseExpired(j) ==
    /\ Running(j)
    /\ jobs[j].expires # None
    /\ jobs[j].expires <= clock

RecoveryTarget(j) ==
    IF jobs[j].attempt < MaxAttempts[j] THEN "pending" ELSE "retry_scheduled"

\* Jobs without attempts left are skipped: ExpiredLeaseRecovered.
WrongBeginRecover(t) ==
    LET expired == {j \in Job : LeaseExpired(j) /\ jobs[j].attempt < MaxAttempts[j]}
    IN  /\ Enters(t, "recover")
        /\ expired # {}
        /\ Begin(t, "recover", expired \X {"pending"}, 0)

BeginRecover(t) ==
    /\ Enters(t, "recover")
    /\ \E j \in Job : LeaseExpired(j)
    /\ Begin(t, "recover",
             {<<j, RecoveryTarget(j)>> : j \in {k \in Job : LeaseExpired(k)}}, 0)

Planned(t) == {p[1] : p \in window[t].plan}

\* UPDATE ... WHERE id = ? AND status = 'running', for every job of the plan;
\* the event is appended whether or not the update matched.
CommitRecover(t) ==
    /\ window[t].op = "recover"
    /\ jobs' = [j \in Job |->
                  IF Running(j) /\ <<j, "pending">> \in window[t].plan
                  THEN Unleased(jobs[j], "pending")
                  ELSE IF Running(j) /\ <<j, "retry_scheduled">> \in window[t].plan
                  THEN Unleased(jobs[j], "retry_scheduled")
                  ELSE jobs[j]]
    /\ Log(Planned(t), "lease_expired")
    /\ window' = [window EXCEPT ![t] = Idle]
    /\ UNCHANGED clock

RecoverExpiredLeases(t) == BeginRecover(t) \/ CommitRecover(t)

RetryDue(j) ==
    /\ jobs[j].status = "retry_scheduled"
    /\ jobs[j].runAfter # None
    /\ jobs[j].runAfter <= clock

BeginPromote(t) ==
    /\ Enters(t, "promote")
    /\ \E j \in Job : RetryDue(j)
    /\ Begin(t, "promote", {j \in Job : RetryDue(j)} \X {"pending"}, 0)

\* UPDATE ... WHERE id = ? AND status = 'retry_scheduled', then the event.
CommitPromote(t) ==
    /\ window[t].op = "promote"
    /\ jobs' = [j \in Job |->
                  IF j \in Planned(t) /\ jobs[j].status = "retry_scheduled"
                  THEN [jobs[j] EXCEPT !.status = "pending", !.runAfter = None]
                  ELSE jobs[j]]
    /\ Log(Planned(t), "retry_promoted")
    /\ window' = [window EXCEPT ![t] = Idle]
    /\ UNCHANGED clock

PromoteDueRetries(t) == BeginPromote(t) \/ CommitPromote(t)

-----------------------------------------------------------------------------
(* The environment *)

Tick == /\ clock < MaxClock
        /\ clock' = clock + 1
        /\ UNCHANGED <<jobs, ledger, window>>

\* A process dies: what its threads had read is gone, what was committed and
\* the leases it holds stay.
Crash(p) ==
    /\ \E t \in Thread : ProcessOf[t] = p /\ window[t] # Idle
    /\ window' = [t \in Thread |-> IF ProcessOf[t] = p THEN Idle ELSE window[t]]
    /\ UNCHANGED <<jobs, ledger, clock>>

-----------------------------------------------------------------------------
Init ==
    /\ jobs = [j \in Job |-> NoRow]
    /\ ledger = [j \in Job |-> Snapshot("none", NoRow)]
    /\ window = [t \in Thread |-> Idle]
    /\ clock = 0

JobStep(t, j) ==
    \/ SubmitLookup(t, j)
    \/ CreateJob(t, j)
    \/ ClaimNext(t, j)
    \/ MarkSucceeded(t, j)
    \/ MarkFailed(t, j)
    \/ MarkArchived(t, j)
    \/ DecideRetry(t, j)
    \/ RejectRetry(t, j)
    \/ MarkRetryScheduled(t, j)
    \/ MarkDeadLettered(t, j)
    \/ ReleaseJob(t, j)
    \/ Heartbeat(t, j)

SchedulerStep(t) == RecoverExpiredLeases(t) \/ PromoteDueRetries(t)

Next ==
    \/ \E t \in Thread, j \in Job : JobStep(t, j)
    \/ \E t \in Thread : SchedulerStep(t)
    \/ \E p \in Process : Crash(p)
    \/ Tick

Spec == Init /\ [][Next]_vars

(***************************************************************************)
(* Fairness.  Time passes; a call that has begun goes on unless its        *)
(* process dies; the scheduler's loop retries recovery and promotion for   *)
(* ever, and its calls wait for the process lock, which the other threads  *)
(* free between their calls (strong fairness: the lock may be taken and    *)
(* freed any number of times, and crashes do not always hit the same call).*)
(***************************************************************************)
Fairness ==
    /\ WF_vars(Tick)
    /\ \A t \in Thread :
         /\ WF_vars(window[t] # Idle /\ \E j \in Job : JobStep(t, j))
         /\ SF_vars(BeginRecover(t))
         /\ SF_vars(CommitRecover(t))
         /\ SF_vars(BeginPromote(t))
         /\ SF_vars(CommitPromote(t))

FairSpec == Spec /\ Fairness
-----------------------------------------------------------------------------
(* What holds between any number of processes *)

TypeOK ==
    /\ jobs \in [Job -> Row]
    /\ ledger \in [Job -> Revision]
    /\ window \in [Thread -> Window]
    /\ clock \in Time

\* A job is running exactly when a worker leases it and the lease has an end:
\* no interleaving of claims, late marks, late heartbeats and recovery leaves
\* a running job nobody can recover, or a lease on a job that is over.
LeaseConsistent ==
    \A j \in Job : /\ Running(j) <=> jobs[j].owner # None
                   /\ jobs[j].owner # None <=> jobs[j].expires # None

\* No two running jobs hold the same resource_key (claim_next_job; enqueue_task
\* promises it), although late marks may overwrite any status.
ResourceExclusive ==
    \A j, k \in Job : /\ Running(j) /\ Running(k) /\ j # k
                      /\ ResourceOf[j] # None
                      => ResourceOf[j] # ResourceOf[k]

\* At most one job is active under an idempotency key, although submit looks
\* the key up and inserts in two calls and late marks may reactivate a job.
ActiveKeyUnique ==
    \A j, k \in Job : /\ KeyOf[j] # None /\ KeyOf[j] = KeyOf[k] /\ j # k
                      /\ jobs[j].status \in ActiveStatuses
                      => jobs[k].status \notin ActiveStatuses

\* The newest ledger row of a job is a snapshot of its current row: no call
\* changes a status, an attempt or a run_after without an event that records
\* the result, so a reader of the ledger ends with the table's state.
LedgerCurrent ==
    \A j \in Job : ledger[j] = Snapshot(ledger[j].event, jobs[j])

\* When every claimer passes the same limit for a type, no more jobs of that
\* type run than the limit allows, whichever processes they run in
\* (type_concurrency_limits of claim_next_job and WorkerPool).
TypeLimitKept ==
    \A t \in Thread, j \in Job :
        LET limit == TypeLimit[t][TypeOf[j]] IN
        /\ limit # None
        /\ \A u \in Thread : "claim" \in Uses[u] => TypeLimit[u][TypeOf[j]] = limit
        => Cardinality({k \in Job : Running(k) /\ TypeOf[k] = TypeOf[j]}) <= limit

-----------------------------------------------------------------------------
(* What the code promises, and keeps when one process uses the table *)

LegalMoves ==
    \A j \in Job :
        jobs'[j].status # jobs[j].status =>
            <<jobs[j].status, jobs'[j].status>>
                \in ValidTransitions \cup {<<"absent", "pending">>}

\* A job's status changes only along the transitions validate_transition
\* allows: a terminal job is never reopened nor its verdict replaced.
LegalTransitions == [][LegalMoves]_vars

LiveLeasesSpared ==
    \A j \in Job :
        Running(j) /\ jobs[j].expires > clock /\ jobs'[j].status # "running"
            => ledger'[j].event # "lease_expired"

\* Recovery takes a job only from a worker whose lease has run out, never
\* from one that renewed it or claimed the job since (heartbeat_task).
LiveLeaseKept == [][LiveLeasesSpared]_vars

\* The dependencies of a running job succeeded and were not reopened since;
\* at most they were archived.
StartedAfterDependencies ==
    \A j \in Job : Running(j) =>
        \A d \in DepsOf[j] : jobs[d].status \in {"succeeded", "archived"}

\* The newest event of a job tells what happened to it: it never says that a
\* lease expired or a retry was promoted when the job was left alone.
EventTellsStatus ==
    \A j \in Job :
        \/ ledger[j].event \in {"none", "handoff_recorded"}
        \/ <<ledger[j].event, jobs[j].status>> \in
              {<<"job_created", "pending">>, <<"job_claimed", "running">>,
               <<"job_succeeded", "succeeded">>, <<"job_failed", "failed">>,
               <<"job_archived", "archived">>, <<"job_released", "pending">>,
               <<"retry_scheduled", "retry_scheduled">>,
               <<"job_dead_lettered", "dead_lettered">>,
               <<"retry_promoted", "pending">>, <<"lease_expired", "pending">>,
               <<"lease_expired", "retry_scheduled">>}

-----------------------------------------------------------------------------
(* What must eventually happen under FairSpec *)

\* A lease that ran out does not stay: recovery takes the job back, whatever
\* else the processes do, unless it was renewed or the job marked meanwhile.
ExpiredLeaseRecovered == \A j \in Job : LeaseExpired(j) ~> ~LeaseExpired(j)

\* heartbeat_task: "the lease expires and the task is automatically returned
\* to the queue": it is claimable again, renewed, or was settled meanwhile.
ExpiredLeaseReturned ==
    \A j \in Job : LeaseExpired(j) ~>
        /\ ~LeaseExpired(j)
        /\ jobs[j].status # "retry_scheduled"

-----------------------------------------------------------------------------
(* The abstract queue this table implements *)

PhaseOf(status) ==
    CASE status = "absent" -> "new"
      [] status = "pending" -> "open"
      [] status = "running" -> "held"
      [] status = "retry_scheduled" -> "parked"
      [] status \in {"succeeded", "failed", "dead_lettered"} -> "closed"
      [] status = "archived" -> "archived"

Queue == INSTANCE LeaseQueue WITH
    Worker <- Thread,
    phase <- [j \in Job |-> PhaseOf(jobs[j].status)],
    holder <- [j \in Job |-> jobs[j].owner]

\* The table of one process implements the abstract lease queue.
ImplementsLeaseQueue == Queue!LQSpec
=============================================================================
