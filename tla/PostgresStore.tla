---------------------------- MODULE PostgresStore ----------------------------
(***************************************************************************)
(* The job table on PostgreSQL (storage/postgres.py): the same calls as    *)
(* JobStore, on other guarantees.  A connection is not in autocommit mode, *)
(* its transaction is READ COMMITTED: every statement sees what is         *)
(* committed when it starts.  Reads take no lock.  Claiming, promoting and *)
(* recovering lock the rows they select and skip those others have locked. *)
(* There is no process lock: the threads that share a connection share its *)
(* transaction, and a commit of one of them ends it for all.  A statement  *)
(* that fails aborts the transaction, which no code rolls back.            *)
(*                                                                         *)
(* A step is a statement, with the commit that follows it at once.         *)
(***************************************************************************)
EXTENDS Integers, FiniteSets, JobStates

CONSTANTS
    PgJob,       \* jobs
    PgThread,    \* threads; each leases under its own worker_id
    Conn,        \* connections, one to a process
    ConnOf,      \* the connection a thread uses
    PgUses,      \* the calls a thread makes
    PgKey,       \* idempotency_key of a job, or None
    PgResource,  \* resource_key of a job, or None
    PgAttempts,  \* max_attempts
    PgClaims,    \* bound: how often a job is claimed
    PgLease,     \* lease duration
    PgLastTime,  \* bound of the clock
    None

VARIABLES
    pgJobs,    \* the committed rows
    rowLock,   \* the connection whose transaction has locked a row, or None
    aborted,   \* connections whose transaction has failed
    pgWindow,  \* per thread: the call in progress and what it has read
    pgClock

pgVars == <<pgJobs, rowLock, aborted, pgWindow, pgClock>>

PgCalls == {"submit", "claim", "succeeded", "failed", "retry_scheduled", "release",
            "heartbeat", "promote", "recover"}

PgIdle == [op |-> "idle", jobs |-> {}, held |-> {}]

PgAbsent == [status |-> "absent", attempt |-> 0, by |-> None, until |-> None, due |-> None]

ASSUME PgConstants ==
    /\ ConnOf \in [PgThread -> Conn]
    /\ PgUses \in [PgThread -> SUBSET PgCalls]
    /\ PgAttempts \in [PgJob -> Nat]
    /\ PgLease \in Nat \ {0}
    /\ {PgLastTime, PgClaims} \subseteq Nat
    /\ None \notin PgThread \cup Conn \cup Nat

PgTypeOK ==
    /\ \A j \in PgJob :
        /\ pgJobs[j].status \in Status
        /\ pgJobs[j].attempt \in 0..PgClaims
        /\ (pgJobs[j].status = "running") = (pgJobs[j].by # None)
        /\ (pgJobs[j].by # None) = (pgJobs[j].until # None)
    /\ rowLock \in [PgJob -> Conn \cup {None}]
    /\ aborted \subseteq Conn
    /\ \A t \in PgThread : pgWindow[t].jobs \subseteq PgJob

-----------------------------------------------------------------------------
(* Statements and transactions *)

PgActive(j) == pgJobs[j].status \in ActiveStatuses

PgKeyTaken(j) ==
    PgKey[j] # None /\ \E k \in PgJob \ {j} : PgKey[k] = PgKey[j] /\ PgActive(k)

\* A thread may start a call, or its next statement, unless its transaction has failed.
PgStarts(t, call) ==
    /\ pgWindow[t] = PgIdle
    /\ call \in PgUses[t]
    /\ ConnOf[t] \notin aborted

Inside(t, call) == pgWindow[t].op = call /\ ConnOf[t] \notin aborted

Lockable(t, j) == rowLock[j] \in {None, ConnOf[t]}

\* Commit ends the transaction of the connection, whoever began it.
Released(c) == [j \in PgJob |-> IF rowLock[j] = c THEN None ELSE rowLock[j]]

\* The statement of t that writes `rows`, and the commit; or, if the unique
\* index refuses it, the end of every call of the connection until a restart.
WriteAndCommit(t, rows) ==
    LET refused == \E j \in PgJob :
                      /\ rows[j].status \in ActiveStatuses
                      /\ pgJobs[j].status \notin ActiveStatuses
                      /\ PgKeyTaken(j)
    IN  /\ pgWindow' = [pgWindow EXCEPT ![t] = PgIdle]
        /\ IF refused
             THEN /\ aborted' = aborted \cup {ConnOf[t]}
                  /\ UNCHANGED <<pgJobs, rowLock>>
             ELSE /\ pgJobs' = rows
                  /\ rowLock' = Released(ConnOf[t])
                  /\ UNCHANGED aborted
        /\ UNCHANGED pgClock

\* A call that raises before it writes leaves the transaction open.
PgRaise(t) ==
    /\ pgWindow[t] # PgIdle
    /\ ConnOf[t] \in aborted
    /\ pgWindow' = [pgWindow EXCEPT ![t] = PgIdle]
    /\ UNCHANGED <<pgJobs, rowLock, aborted, pgClock>>

Settled(j, status) ==
    [pgJobs[j] EXCEPT !.status = status, !.by = None, !.until = None]

Set(S, Row(_)) == [j \in PgJob |-> IF j \in S THEN Row(j) ELSE pgJobs[j]]

-----------------------------------------------------------------------------
(* Submitting *)

\* QueueService.submit: the lookup, then create_job.
PgSubmit(t, j) ==
    /\ PgStarts(t, "submit")
    /\ pgJobs[j] = PgAbsent
    /\ \A u \in PgThread : ~(pgWindow[u].op = "submit" /\ j \in pgWindow[u].jobs)
    /\ ~PgKeyTaken(j)
    /\ pgWindow' = [pgWindow EXCEPT ![t] = [PgIdle EXCEPT !.op = "submit", !.jobs = {j}]]
    /\ UNCHANGED <<pgJobs, rowLock, aborted, pgClock>>

PgCreate(t) ==
    /\ Inside(t, "submit")
    /\ WriteAndCommit(t, Set(pgWindow[t].jobs,
                             LAMBDA j : [PgAbsent EXCEPT !.status = "pending"]))

-----------------------------------------------------------------------------
(* Claiming: three statements *)

HeldNow == {PgResource[j] : j \in {k \in PgJob : pgJobs[k].status = "running"}} \ {None}

ReadHeld(t) ==
    /\ PgStarts(t, "claim")
    /\ pgWindow' = [pgWindow EXCEPT ![t] = [PgIdle EXCEPT !.op = "held", !.held = HeldNow]]
    /\ UNCHANGED <<pgJobs, rowLock, aborted, pgClock>>

\* FOR UPDATE SKIP LOCKED: every pending row that is due is locked, not only
\* the one that will be claimed.  With none that fits the claim ends.
LockPending(t) ==
    LET rows == {j \in PgJob : pgJobs[j].status = "pending" /\ Lockable(t, j)}
        fits == {j \in rows : PgResource[j] \notin pgWindow[t].held /\ pgJobs[j].attempt < PgClaims}
    IN  /\ Inside(t, "held")
        /\ IF fits = {}
             THEN WriteAndCommit(t, pgJobs)
             ELSE /\ rowLock' = [j \in PgJob |-> IF j \in rows THEN ConnOf[t] ELSE rowLock[j]]
                  /\ pgWindow' = [pgWindow EXCEPT ![t].op = "claim", ![t].jobs = fits]
                  /\ UNCHANGED <<pgJobs, aborted, pgClock>>

\* The update names the status it expects and its row count is not looked at.
UpdateClaimed(t, j) ==
    /\ Inside(t, "claim")
    /\ j \in pgWindow[t].jobs
    /\ Lockable(t, j)
    /\ WriteAndCommit(t, IF pgJobs[j].status # "pending" THEN pgJobs
                         ELSE [pgJobs EXCEPT ![j] = [pgJobs[j] EXCEPT
                                  !.status = "running", !.attempt = @ + 1, !.by = t,
                                  !.until = pgClock + PgLease, !.due = None]])

-----------------------------------------------------------------------------
(* Marks, release, heartbeat: a read, then an update by id *)

PgRead(t, call, j) ==
    /\ PgStarts(t, call)
    /\ CASE call \in {"succeeded", "failed", "retry_scheduled"} ->
                <<pgJobs[j].status, call>> \in ValidTransitions
         [] OTHER -> pgJobs[j].status = "running" /\ pgJobs[j].by = t
    /\ pgWindow' = [pgWindow EXCEPT ![t] = [PgIdle EXCEPT !.op = call, !.jobs = {j}]]
    /\ UNCHANGED <<pgJobs, rowLock, aborted, pgClock>>

PgMark(t, call) ==
    /\ Inside(t, call)
    /\ \A j \in pgWindow[t].jobs : Lockable(t, j)
    /\ WriteAndCommit(t, Set(pgWindow[t].jobs, LAMBDA j :
            IF call = "retry_scheduled" THEN [Settled(j, call) EXCEPT !.due = pgClock]
            ELSE Settled(j, call)))

PgRelease(t) ==
    /\ Inside(t, "release")
    /\ \A j \in pgWindow[t].jobs : Lockable(t, j)
    /\ WriteAndCommit(t, Set(pgWindow[t].jobs, LAMBDA j : Settled(j, "pending")))

PgHeartbeat(t) ==
    /\ Inside(t, "heartbeat")
    /\ \A j \in pgWindow[t].jobs : Lockable(t, j)
    /\ WriteAndCommit(t, Set(pgWindow[t].jobs, LAMBDA j :
            IF pgJobs[j].by = t THEN [pgJobs[j] EXCEPT !.until = pgClock + PgLease]
            ELSE pgJobs[j]))

-----------------------------------------------------------------------------
(* Promotion and recovery: lock, then update what is still as selected *)

PgDue(j) == pgJobs[j].status = "retry_scheduled" /\ pgJobs[j].due # None /\ pgJobs[j].due <= pgClock

PgExpired(j) == pgJobs[j].status = "running" /\ pgJobs[j].until <= pgClock

WrongSelectForUpdate(t, call, rows) ==   \* BUG (LiveLeaseSpared): a plain SELECT
    /\ PgStarts(t, call)
    /\ rows # {}
    /\ pgWindow' = [pgWindow EXCEPT ![t] = [PgIdle EXCEPT !.op = call, !.jobs = rows]]
    /\ UNCHANGED <<pgJobs, rowLock, aborted, pgClock>>

SelectForUpdate(t, call, rows) ==
    LET free == {j \in rows : Lockable(t, j)}
    IN  /\ PgStarts(t, call)
        /\ free # {}
        /\ rowLock' = [j \in PgJob |-> IF j \in free THEN ConnOf[t] ELSE rowLock[j]]
        /\ pgWindow' = [pgWindow EXCEPT ![t] = [PgIdle EXCEPT !.op = call, !.jobs = free]]
        /\ UNCHANGED <<pgJobs, aborted, pgClock>>

PgPromote(t) ==
    /\ Inside(t, "promote")
    /\ \A j \in pgWindow[t].jobs : Lockable(t, j)
    /\ WriteAndCommit(t, Set(pgWindow[t].jobs, LAMBDA j :
            IF pgJobs[j].status = "retry_scheduled"
            THEN [pgJobs[j] EXCEPT !.status = "pending", !.due = None] ELSE pgJobs[j]))

PgRecover(t) ==
    /\ Inside(t, "recover")
    /\ \A j \in pgWindow[t].jobs : Lockable(t, j)
    /\ WriteAndCommit(t, Set(pgWindow[t].jobs, LAMBDA j :
            IF pgJobs[j].status = "running"
            THEN Settled(j, IF pgJobs[j].attempt < PgAttempts[j] THEN "pending"
                            ELSE "retry_scheduled")
            ELSE pgJobs[j]))

-----------------------------------------------------------------------------
\* A process ends and another takes its place: its transaction is rolled back.
Reconnect(c) ==
    /\ \E t \in PgThread : ConnOf[t] = c /\ (pgWindow[t] # PgIdle \/ c \in aborted)
    /\ rowLock' = Released(c)
    /\ aborted' = aborted \ {c}
    /\ pgWindow' = [t \in PgThread |-> IF ConnOf[t] = c THEN PgIdle ELSE pgWindow[t]]
    /\ UNCHANGED <<pgJobs, pgClock>>

PgTick ==
    /\ pgClock < PgLastTime
    /\ pgClock' = pgClock + 1
    /\ UNCHANGED <<pgJobs, rowLock, aborted, pgWindow>>

PgInit ==
    /\ pgJobs = [j \in PgJob |-> PgAbsent]
    /\ rowLock = [j \in PgJob |-> None]
    /\ aborted = {}
    /\ pgWindow = [t \in PgThread |-> PgIdle]
    /\ pgClock = 0

PgStep(t) ==
    \/ \E j \in PgJob : PgSubmit(t, j)
    \/ PgCreate(t)
    \/ ReadHeld(t)
    \/ LockPending(t)
    \/ \E j \in PgJob : UpdateClaimed(t, j)
    \/ \E call \in {"succeeded", "failed", "retry_scheduled", "release", "heartbeat"}, j \in PgJob :
          PgRead(t, call, j)
    \/ \E call \in {"succeeded", "failed", "retry_scheduled"} : PgMark(t, call)
    \/ PgRelease(t)
    \/ PgHeartbeat(t)
    \/ SelectForUpdate(t, "promote", {j \in PgJob : PgDue(j)})
    \/ SelectForUpdate(t, "recover", {j \in PgJob : PgExpired(j)})
    \/ PgPromote(t)
    \/ PgRecover(t)
    \/ PgRaise(t)

PgNext ==
    \/ \E t \in PgThread : PgStep(t)
    \/ \E c \in Conn : Reconnect(c)
    \/ PgTick

PgSpec == PgInit /\ [][PgNext]_pgVars

-----------------------------------------------------------------------------
(* Properties *)

ClaimedAsTold ==
    \A t \in PgThread, j \in PgJob : UpdateClaimed(t, j) => pgJobs'[j].by = t

RecoverySpares ==
    \A t \in PgThread, j \in PgJob :
          /\ pgWindow[t].op = "recover" /\ pgWindow'[t] = PgIdle
          /\ pgJobs[j].status = "running" /\ pgJobs'[j].status # "running"
          => pgJobs[j].until <= pgClock

\* Of the workers that look at once each gets a row of its own and has leased
\* what its claim returns (CHANGELOG.md:645); and a heartbeat that has been
\* answered is not followed by the loss of the lease it renewed: recovery takes
\* only leases that have expired when it commits.
LiveLeaseSpared == [][ClaimedAsTold /\ RecoverySpares]_pgVars

=============================================================================
