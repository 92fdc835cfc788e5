----------------------------- MODULE WorkerPool -----------------------------
(***************************************************************************)
(* The daemon (daemon.py): a worker pool (worker/pool.py) and a scheduler  *)
(* loop (scheduler/scheduler.py) in one process, over the job table.       *)
(*                                                                         *)
(* The pool's main thread claims under the daemon's worker_id and hands    *)
(* each job to an executor thread, which runs the handler and records its  *)
(* result by job id alone.  The scheduler thread ticks until the daemon is *)
(* told to stop.  Stopping drains: the main thread waits for the handlers. *)
(* Errors of the database itself (a busy timeout, a full disk) are left    *)
(* out: every exception here is one the code raises.                       *)
(* A daemon that dies is started again under another worker_id, so a       *)
(* member of Pool is one incarnation.                                      *)
(***************************************************************************)
EXTENDS JobStore

CONSTANTS
    Pool,          \* main threads; the main thread's name is the worker_id
    Executor,      \* threads of the executors
    Scheduler,     \* scheduler threads
    PoolOf,        \* the daemon an executor or a scheduler belongs to
    MaxConcurrent  \* max_concurrent of every pool

VARIABLES
    stage,   \* per daemon: polling, draining, stopped or killed
    stop,    \* per daemon: the stop event
    hands,   \* per executor: the job it works on, and the attempt it was given
    tick     \* per scheduler: what is left of the current tick

poolVars == <<stage, stop, hands, tick>>
allVars == <<jobs, ledger, window, clock, stage, stop, hands, tick>>

ASSUME PoolConstants ==
    /\ Pool \cup Executor \cup Scheduler \subseteq Thread
    /\ PoolOf \in [Executor \cup Scheduler -> Pool]
    /\ \A t \in Executor \cup Scheduler : ProcessOf[t] = ProcessOf[PoolOf[t]]
    /\ MaxConcurrent \in Nat \ {0}
    /\ None \notin Job

Free == [job |-> None, attempt |-> 0]

PoolTypeOK ==
    /\ TypeOK
    /\ stage \in [Pool -> {"polling", "draining", "stopped", "killed"}]
    /\ stop \in [Pool -> BOOLEAN]
    /\ hands \in [Executor -> [job: Job \cup {None}, attempt: 0..MaxClaims]]
    /\ tick \in [Scheduler -> {"waiting", "promoting", "recover", "recovering"}]

-----------------------------------------------------------------------------
(* The main thread: WorkerPool.run_loop *)

Team(m) == {e \in Executor : PoolOf[e] = m}

Busy(m) == {e \in Team(m) : hands[e] # Free}

\* Claim, then executor.submit: a thread of the executor is free because the
\* pool never has more than max_concurrent jobs in flight.
Poll(m, j) ==
    /\ stage[m] = "polling"
    /\ ~stop[m]
    /\ Cardinality(Busy(m)) < MaxConcurrent
    /\ ClaimNext(m, j)
    /\ \E e \in Team(m) \ Busy(m) :
          hands' = [hands EXCEPT ![e] = [job |-> j, attempt |-> jobs'[j].attempt]]
    /\ UNCHANGED <<stage, stop, tick>>

\* The condition of the loop is negated: StopDrains.
WrongEndLoop(m) ==
    /\ stage[m] = "polling"
    /\ ~stop[m]
    /\ stage' = [stage EXCEPT ![m] = "draining"]
    /\ UNCHANGED <<vars, stop, hands, tick>>

EndLoop(m) ==
    /\ stage[m] = "polling"
    /\ stop[m]
    /\ stage' = [stage EXCEPT ![m] = "draining"]
    /\ UNCHANGED <<vars, stop, hands, tick>>

\* shutdown(wait=True) returns; the daemon then stops its scheduler.
Drained(m) ==
    /\ stage[m] = "draining"
    /\ Busy(m) = {}
    /\ stage' = [stage EXCEPT ![m] = "stopped"]
    /\ stop' = [stop EXCEPT ![m] = TRUE]
    /\ UNCHANGED <<vars, hands, tick>>

RequestStop(m) ==
    /\ stage[m] # "killed"
    /\ ~stop[m]
    /\ stop' = [stop EXCEPT ![m] = TRUE]
    /\ UNCHANGED <<vars, stage, hands, tick>>

-----------------------------------------------------------------------------
(* An executor thread: WorkerPool._execute_job *)

\* The handler has ended and the executor begins to report: it returned, it
\* raised RetryableJobError, or it raised something else.
Report(e, j) ==
    /\ hands[e].job = j
    /\ window[e] = Idle
    /\ \/ BeginMark(e, j, "succeeded")
       \/ BeginMark(e, j, "failed")
       \/ DecideRetry(e, j)
    /\ UNCHANGED poolVars

\* The report goes on; the executor is free again when the call has returned
\* or raised.
Settle(e, j) ==
    /\ hands[e].job = j
    /\ window[e] # Idle
    /\ \/ MarkSucceeded(e, j)
       \/ MarkFailed(e, j)
       \/ MarkRetryScheduled(e, j)
       \/ MarkDeadLettered(e, j)
       \/ RejectRetry(e, j)
    /\ hands' = IF window'[e] = Idle THEN [hands EXCEPT ![e] = Free] ELSE hands
    /\ UNCHANGED <<stage, stop, tick>>

\* Whatever complete raises is swallowed: LeaseIsWorkedOn.
WrongDropResult(e, j) ==
    /\ hands[e].job = j
    /\ window[e] = Idle
    /\ LockFree(e)
    /\ hands' = [hands EXCEPT ![e] = Free]
    /\ UNCHANGED <<vars, stage, stop, tick>>

\* complete and fail refuse a job that is no longer running: the handler's
\* result is dropped.
DropResult(e, j) ==
    /\ hands[e].job = j
    /\ window[e] = Idle
    /\ LockFree(e)
    /\ ~Running(j)
    /\ hands' = [hands EXCEPT ![e] = Free]
    /\ UNCHANGED <<vars, stage, stop, tick>>

Work(e, j) == Report(e, j) \/ Settle(e, j) \/ DropResult(e, j)

-----------------------------------------------------------------------------
(* The scheduler thread: SchedulerLoop.run_loop and tick *)

Turn(s, from, to) ==
    /\ tick[s] = from
    /\ tick' = [tick EXCEPT ![s] = to]
    /\ UNCHANGED <<stage, stop, hands>>

BeginTick(s) ==
    /\ stage[PoolOf[s]] # "killed"
    /\ ~stop[PoolOf[s]]
    /\ \/ BeginPromote(s) /\ Turn(s, "waiting", "promoting")
       \/ /\ ~\E j \in Job : RetryDue(j)
          /\ LockFree(s)
          /\ Turn(s, "waiting", "recover")
          /\ UNCHANGED vars

ContinueTick(s) ==
    \/ CommitPromote(s) /\ Turn(s, "promoting", "recover")
    \/ BeginRecover(s) /\ Turn(s, "recover", "recovering")
    \/ /\ ~\E j \in Job : LeaseExpired(j)
       /\ LockFree(s)
       /\ Turn(s, "recover", "waiting")
       /\ UNCHANGED vars
    \/ CommitRecover(s) /\ Turn(s, "recovering", "waiting")

-----------------------------------------------------------------------------
(* The environment *)

\* Another process submits.
Submit(t, j) ==
    /\ t \notin Pool \cup Executor \cup Scheduler
    /\ SubmitLookup(t, j) \/ CreateJob(t, j)
    /\ UNCHANGED poolVars

Kill(m) ==
    /\ stage[m] \in {"polling", "draining"}
    /\ stage' = [stage EXCEPT ![m] = "killed"]
    /\ window' = [t \in Thread |->
                    IF ProcessOf[t] = ProcessOf[m] THEN Idle ELSE window[t]]
    /\ hands' = [e \in Executor |-> IF PoolOf[e] = m THEN Free ELSE hands[e]]
    /\ tick' = [s \in Scheduler |-> IF PoolOf[s] = m THEN "waiting" ELSE tick[s]]
    /\ UNCHANGED <<jobs, ledger, clock, stop>>

PassTime == Tick /\ UNCHANGED poolVars

PoolInit ==
    /\ Init
    /\ stage = [m \in Pool |-> "polling"]
    /\ stop = [m \in Pool |-> FALSE]
    /\ hands = [e \in Executor |-> Free]
    /\ tick = [s \in Scheduler |-> "waiting"]

PoolNext ==
    \/ \E m \in Pool, j \in Job : Poll(m, j)
    \/ \E m \in Pool : EndLoop(m)
    \/ \E m \in Pool : Drained(m)
    \/ \E m \in Pool : RequestStop(m)
    \/ \E m \in Pool : Kill(m)
    \/ \E e \in Executor, j \in Job : Work(e, j)
    \/ \E s \in Scheduler : BeginTick(s)
    \/ \E s \in Scheduler : ContinueTick(s)
    \/ \E t \in Thread, j \in Job : Submit(t, j)
    \/ PassTime

PoolSpec == PoolInit /\ [][PoolNext]_allVars

(***************************************************************************)
(* Fairness.  Every handler ends (the daemon waits for ever for one that   *)
(* does not) and the operating system runs every thread.  Weak fairness is *)
(* enough although the threads share their process's lock: once the stop   *)
(* event is set they call the table a finite number of times.              *)
(***************************************************************************)
PoolFairness ==
    /\ \A e \in Executor : WF_allVars(\E j \in Job : Work(e, j))
    /\ \A m \in Pool : WF_allVars(stop[m] /\ (EndLoop(m) \/ Drained(m)))
    /\ \A s \in Scheduler : WF_allVars(ContinueTick(s))

FairPoolSpec == PoolSpec /\ PoolFairness

-----------------------------------------------------------------------------
(* Properties *)

\* Every job a living daemon holds the lease of is in the hands of one of its
\* executors: no interleaving of late results, recovery and repeated claims
\* leaves a job running that nobody works on.
LeaseIsWorkedOn ==
    \A j \in Job, m \in Pool :
        /\ jobs[j].owner = m
        /\ stage[m] # "killed"
        => \E e \in Team(m) : hands[e] = [job |-> j, attempt |-> jobs[j].attempt]

\* Two executors never work on the same attempt of a job, whichever daemons
\* they belong to.
AttemptHandledOnce ==
    \A e, f \in Executor :
        hands[e] = hands[f] /\ hands[e] # Free => e = f

\* A job is dead-lettered only when its attempts are used up, although the
\* decision is taken on an earlier read than the one the mark validates.
DeadLetterEarned ==
    \A j \in Job :
        jobs[j].status = "dead_lettered" => jobs[j].attempt >= MaxAttempts[j]

\* Daemon.stop: the daemon told to stop has drained or died in the end, if
\* every handler ends.
StopDrains == \A m \in Pool : stop[m] ~> stage[m] \in {"stopped", "killed"}
=============================================================================
