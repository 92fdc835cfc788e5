------------------------------ MODULE Handoff ------------------------------
(***************************************************************************)
(* The checkpoint and handoff tools of djobs (handoff.py) over the shared  *)
(* job table.  A tool call is a sequence of calls of QueueService and of   *)
(* the workspace repository, each of them safe by itself; between two of   *)
(* them other agents use the table.                                        *)
(*                                                                         *)
(* flow[a] is where the tool call of agent a stands.  lease[a][j] is what  *)
(* the agent was told: until when task j is its own, 0 if it is not.       *)
(* A tool call turns every exception into an answer that is not ok: it     *)
(* ends, and what its earlier calls did stays.                             *)
(* Operators named Wrong* are mutations of the definition that follows.    *)
(***************************************************************************)
EXTENDS JobStore

VARIABLES flow, lease

hvars == <<vars, flow, lease>>

\* An agent's session is a caller of the table; it uses these two tools only.
Agent == Thread

\* The calls checkpoint and handoff make.
AgentCalls == {"recover", "submit", "heartbeat", "succeeded", "release"}

\* checkpoint names a task by workspace, path and summary: its key.
Key == {KeyOf[j] : j \in Job} \ {None}

ASSUME HandoffConstants == \A a \in Agent : AgentCalls \subseteq Uses[a]

\* checkpoint: recover, recovering, repair, submit, insert, find, claim, renew,
\* renewing.  handoff: complete, completing, release, releasing, note.
Step == {"free", "recover", "recovering", "repair", "submit", "insert", "find",
         "claim", "renew", "renewing",
         "complete", "completing", "release", "releasing", "note"}

Flow == [at: Step, key: Key \cup {None}, job: Job \cup {None}]

Free == [at |-> "free", key |-> None, job |-> None]

At(a, step) == flow[a].at = step

Goes(a, step) == flow' = [flow EXCEPT ![a].at = step]

GoesWith(a, step, j) == flow' = [flow EXCEPT ![a].at = step, ![a].job = j]

\* The tool call answers that it did not get what it was called for.
Answers(a) ==
    /\ flow' = [flow EXCEPT ![a] = Free]
    /\ UNCHANGED lease

AnswersOwned(a, j) ==
    /\ flow' = [flow EXCEPT ![a] = Free]
    /\ lease' = [lease EXCEPT ![a][j] = clock + Lease]

-----------------------------------------------------------------------------
(* checkpoint *)

Checkpoint(a, k) ==
    /\ At(a, "free")
    /\ flow' = [flow EXCEPT ![a] = [at |-> "recover", key |-> k, job |-> None]]
    /\ UNCHANGED <<vars, lease>>

\* _recover: leases first, then the retries without a date.
Recover(a) ==
    /\ UNCHANGED lease
    /\ \/ /\ At(a, "recover")
          /\ \/ BeginRecover(a) /\ Goes(a, "recovering")
             \/ /\ LockFree(a)
                /\ ~\E j \in Job : LeaseExpired(j)
                /\ Goes(a, "repair")
                /\ UNCHANGED vars
       \/ /\ At(a, "recovering")
          /\ CommitRecover(a)
          /\ Goes(a, "repair")

\* A job without attempts left stays parked: ExpiredLeaseReturned.
WrongNullRetry(j) ==
    /\ jobs[j].status = "retry_scheduled"
    /\ jobs[j].runAfter = None
    /\ jobs[j].attempt < MaxAttempts[j]

NullRetry(j) ==
    /\ jobs[j].status = "retry_scheduled"
    /\ jobs[j].runAfter = None
    /\ jobs[j].owner = None

RecoverNullRetries(a) ==
    /\ At(a, "repair")
    /\ LockFree(a)
    /\ jobs' = [j \in Job |-> IF NullRetry(j) THEN [jobs[j] EXCEPT !.status = "pending"]
                                              ELSE jobs[j]]
    /\ Goes(a, "submit")
    /\ UNCHANGED <<ledger, window, clock, lease>>

Active(j, k) == KeyOf[j] = k /\ jobs[j].status \in ActiveStatuses

\* find_active_by_idempotency_key, first in submit and once more when the
\* insertion was refused.
FindTask(a) ==
    /\ LockFree(a)
    /\ \/ \E j \in Job : /\ At(a, "submit") \/ At(a, "find")
                         /\ Active(j, flow[a].key)
                         /\ GoesWith(a, "claim", j)
                         /\ UNCHANGED lease
       \/ /\ At(a, "find")
          /\ ~\E j \in Job : Active(j, flow[a].key)
          /\ Answers(a)
    /\ UNCHANGED vars

\* Bound: without an unused job the tool call ends.
Submit(a) ==
    \/ /\ At(a, "submit")
       /\ \E j \in Job : /\ KeyOf[j] = flow[a].key
                         /\ SubmitLookup(a, j)
                         /\ GoesWith(a, "insert", j)
       /\ UNCHANGED lease
    \/ /\ At(a, "insert")
       /\ CreateJob(a, flow[a].job)
       /\ Goes(a, IF jobs' = jobs THEN "find" ELSE "claim")
       /\ UNCHANGED lease
    \/ /\ At(a, "submit")
       /\ \A j \in Job : KeyOf[j] = flow[a].key => jobs[j].status # "absent"
       /\ ~\E j \in Job : Active(j, flow[a].key)
       /\ Answers(a)
       /\ UNCHANGED vars

\* Neither status nor resource is looked at: LeaseAsTold.
WrongClaimExact(a) ==
    LET j == flow[a].job IN
    /\ At(a, "claim")
    /\ LockFree(a)
    /\ IF jobs[j].attempt >= MaxClaims
       THEN Answers(a) /\ UNCHANGED vars
       ELSE /\ jobs' = [jobs EXCEPT ![j] = Leased(@, a)]
            /\ Log({j}, "job_claimed")
            /\ AnswersOwned(a, j)
            /\ UNCHANGED <<window, clock>>

\* claim_exact, one BEGIN IMMEDIATE transaction.  Unlike the claim of a worker
\* it asks neither for run_after nor for dependencies or limits.
ClaimExact(a) ==
    LET j == flow[a].job IN
    /\ At(a, "claim")
    /\ LockFree(a)
    /\ \/ /\ HoldsLease(a, j)
          /\ Goes(a, "renew")
          /\ UNCHANGED <<vars, lease>>
       \/ /\ ~HoldsLease(a, j)
          /\ jobs[j].status # "pending" \/ ResourceHeld(j) \/ jobs[j].attempt >= MaxClaims
          /\ Answers(a)
          /\ UNCHANGED vars
       \/ /\ jobs[j].status = "pending"
          /\ ~ResourceHeld(j)
          /\ jobs[j].attempt < MaxClaims
          /\ jobs' = [jobs EXCEPT ![j] = Leased(@, a)]
          /\ Log({j}, "job_claimed")
          /\ AnswersOwned(a, j)
          /\ UNCHANGED <<window, clock>>

\* The task was the agent's own: "resumed" after a heartbeat.
Renew(a) ==
    LET j == flow[a].job IN
    \/ /\ At(a, "renew")
       /\ \/ BeginHeartbeat(a, j) /\ Goes(a, "renewing") /\ UNCHANGED lease
          \/ LockFree(a) /\ ~HoldsLease(a, j) /\ Answers(a) /\ UNCHANGED vars
    \/ /\ At(a, "renewing")
       /\ CommitHeartbeat(a, j)
       /\ AnswersOwned(a, j)

-----------------------------------------------------------------------------
(* handoff *)

\* The job is read once; what is done with it is decided on that read.  The
\* agent stops working on the task when it makes the call.
Handoff(a, j, completed) ==
    /\ At(a, "free")
    /\ LockFree(a)
    /\ jobs[j].status # "absent"
    /\ Running(j) => jobs[j].owner = a
    /\ GoesWith(a, IF completed THEN "complete"
                   ELSE IF Running(j) THEN "release" ELSE "note", j)
    /\ lease' = [lease EXCEPT ![a][j] = 0]
    /\ UNCHANGED vars

Complete(a) ==
    LET j == flow[a].job IN
    /\ \/ /\ At(a, "complete")
          /\ \/ BeginMark(a, j, "succeeded") /\ Goes(a, "completing")
             \/ /\ LockFree(a)
                /\ <<jobs[j].status, "succeeded">> \notin ValidTransitions
                /\ flow' = [flow EXCEPT ![a] = Free]
                /\ UNCHANGED vars
       \/ /\ At(a, "completing")
          /\ CommitMark(a, j, "succeeded", jobs[j].runAfter, "job_succeeded")
          /\ flow' = [flow EXCEPT ![a] = Free]
    /\ UNCHANGED lease

Release(a) ==
    LET j == flow[a].job IN
    /\ \/ /\ At(a, "release")
          /\ \/ BeginRelease(a, j) /\ Goes(a, "releasing")
             \/ /\ LockFree(a)
                /\ ~HoldsLease(a, j)
                /\ flow' = [flow EXCEPT ![a] = Free]
                /\ UNCHANGED vars
       \/ /\ At(a, "releasing")
          /\ CommitRelease(a, j)
          /\ flow' = [flow EXCEPT ![a] = Free]
    /\ UNCHANGED lease

\* A task that nobody is working on only gets an event with the note.
Note(a) ==
    /\ At(a, "note")
    /\ LockFree(a)
    /\ jobs' = jobs
    /\ Log({flow[a].job}, "handoff_recorded")
    /\ Answers(a)
    /\ UNCHANGED <<window, clock>>

-----------------------------------------------------------------------------
\* A process dies with the tool calls of its agents; an agent that comes back
\* under its old session has the same name.
Stop(p) ==
    /\ \E a \in Agent : ProcessOf[a] = p /\ flow[a] # Free
    /\ window' = [t \in Thread |-> IF ProcessOf[t] = p THEN Idle ELSE window[t]]
    /\ flow' = [a \in Agent |-> IF ProcessOf[a] = p THEN Free ELSE flow[a]]
    /\ lease' = [a \in Agent |-> IF ProcessOf[a] = p THEN [j \in Job |-> 0] ELSE lease[a]]
    /\ UNCHANGED <<jobs, ledger, clock>>

\* Time passes; a lease that has run out is as good as none.
Elapse ==
    /\ Tick
    /\ lease' = [a \in Agent |-> [j \in Job |->
                    IF lease[a][j] <= clock' THEN 0 ELSE lease[a][j]]]
    /\ UNCHANGED flow

HandoffInit ==
    /\ Init
    /\ flow = [a \in Agent |-> Free]
    /\ lease = [a \in Agent |-> [j \in Job |-> 0]]

AgentStep(a) ==
    \/ \E k \in Key : Checkpoint(a, k)
    \/ Recover(a)
    \/ RecoverNullRetries(a)
    \/ FindTask(a)
    \/ Submit(a)
    \/ ClaimExact(a)
    \/ Renew(a)
    \/ \E j \in Job, completed \in BOOLEAN : Handoff(a, j, completed)
    \/ Complete(a)
    \/ Release(a)
    \/ Note(a)

HandoffNext ==
    \/ \E a \in Agent : AgentStep(a)
    \/ \E p \in Process : Stop(p)
    \/ Elapse

HandoffSpec == HandoffInit /\ [][HandoffNext]_hvars

(***************************************************************************)
(* Fairness.  Processes stop dying at some time; from then on, of the tool *)
(* calls in progress, one goes on; and agents do not use handoff only:     *)
(* some agent calls checkpoint again and again.                            *)
(***************************************************************************)
HandoffFairness ==
    /\ <>[][\A p \in Process : ~Stop(p)]_hvars
    /\ WF_hvars(\E a \in Agent : ~At(a, "free") /\ AgentStep(a))
    /\ SF_hvars(\E a \in Agent, k \in Key : Checkpoint(a, k))

FairHandoffSpec == HandoffSpec /\ HandoffFairness

-----------------------------------------------------------------------------
(* Properties *)

HandoffTypeOK ==
    /\ TypeOK
    /\ flow \in [Agent -> Flow]
    /\ lease \in [Agent -> [Job -> Time]]

\* What checkpoint told an agent stays true until the lease it named ends: the
\* table has the task leased to it, or the task was completed.  No recovery,
\* handoff or checkpoint of another agent takes it away.
LeaseAsTold ==
    \A a \in Agent, j \in Job :
        lease[a][j] > clock =>
            \/ HoldsLease(a, j) /\ jobs[j].expires >= lease[a][j]
            \/ jobs[j].status \in {"succeeded", "archived"}

=============================================================================
