---------------------------- MODULE DeltaContext ----------------------------
(***************************************************************************)
(* The revision ledger of djobs (context_revisions, filled by triggers on  *)
(* job_events and jobs) and a reader that follows it with resume_delta     *)
(* (delta_mcp.py): it keeps a cursor, the last state hash and a copy of    *)
(* the tasks made from the "changes" of the pages it received.             *)
(*                                                                         *)
(* Writers are the job table's operations reduced to what the ledger sees: *)
(* an event with the task's new state, in the transaction that changes it. *)
(* A call reads jobs and ledger in one read transaction, so it is one      *)
(* step; the writers go on while its page is on the way to the reader.     *)
(* Operators named Wrong* are mutations of the definition that follows.    *)
(***************************************************************************)
EXTENDS Integers, Sequences, FiniteSetsExt, JobStates

CONSTANTS
    Task,         \* every task of the database
    Mine,         \* the tasks under the reader's correlation_id
    DepsOf,       \* depends_on of a task
    Target,       \* bound: the states the writers bring tasks to
    Size,         \* tokens of a task in a page
    ChangeExtra,  \* tokens a change adds to its task
    BaseSize,     \* tokens of a page without items
    TokenBudget,  \* token_budget of every call
    MaxItems,     \* max_items of every call
    ScanLimit,    \* _MAX_DELTA_EVENTS
    MaxRevision,  \* bound: the length of the ledger
    NoPage        \* no answer is on its way

VARIABLES
    jobs,      \* the state of each task
    ledger,    \* context_revisions; the position is the revision
    cursor,    \* the reader's revision
    copy,      \* the reader's tasks
    stateHash, \* the reader's known_state_hash
    page       \* the answer to the call in progress

vars == <<jobs, ledger, cursor, copy, stateHash, page>>

\* "parked" is retry_scheduled with run_after NULL, which only
\* recover_null_retries leaves; "deleted" is the status of a tombstone.
State == Status \cup {"parked", "deleted"}

Base(s) == IF s = "parked" THEN "retry_scheduled" ELSE s

Present(t) == jobs[t] \notin {"absent", "deleted"}

\* A task as incomplete as resume_delta counts it.
Incomplete(s) == Base(s) \in ActiveStatuses

\* _canonical_state_hash, taken as injective: the incomplete tasks themselves.
Hash(states) == {<<t, states[t]>> : t \in {u \in Mine : Incomplete(states[u])}}

ASSUME DeltaConstants ==
    /\ Mine \subseteq Task
    /\ DepsOf \in [Task -> SUBSET Task]
    /\ Target \subseteq State \ {"absent", "deleted"}
    /\ ScanLimit \in Nat \ {0}
    /\ MaxRevision \in Nat

-----------------------------------------------------------------------------
(* Writers *)

Record(t, s) ==
    /\ Len(ledger) < MaxRevision
    /\ jobs' = [jobs EXCEPT ![t] = s]
    /\ ledger' = Append(ledger, [task |-> t, state |-> s])
    /\ UNCHANGED <<cursor, copy, stateHash, page>>

Create(t) == jobs[t] = "absent" /\ Record(t, "pending")

\* An operation of the job table, or an event that leaves the task as it is
\* (handoff_recorded, a recovery or promotion that came too late).
Change(t, s) ==
    /\ Present(t)
    /\ \/ s = jobs[t]
       \/ s \in Target /\ <<Base(jobs[t]), Base(s)>> \in ValidTransitions
    /\ Record(t, s)

\* delete_task; the trigger leaves a tombstone and the task's revisions.
Delete(t) == Present(t) /\ Record(t, "deleted")

\* recover_null_retries: an update without an event.
RecoverNullRetries ==
    /\ \E t \in Task : jobs[t] = "parked"
    /\ jobs' = [t \in Task |-> IF jobs[t] = "parked" THEN "pending" ELSE jobs[t]]
    /\ UNCHANGED <<ledger, cursor, copy, stateHash, page>>

-----------------------------------------------------------------------------
(* Reading the ledger *)

Visible(n) == {i \in 1..n : i \in 1..Len(ledger) /\ ledger[i].task \in Mine}

\* The next revision instead of the last one: TypeOK.
WrongHeadRevision == 1 + Max({0} \cup Visible(Len(ledger)))

HeadRevision == Max({0} \cup Visible(Len(ledger)))

\* The revisions of task t up to revision n, and its state there.
Revisions(t, n) == {i \in Visible(n) : ledger[i].task = t}

StateAt(t, n) ==
    IF Revisions(t, n) = {} THEN "absent" ELSE ledger[Max(Revisions(t, n))].state

\* The rows of the query: ORDER BY revision LIMIT ScanLimit.
Events(from) ==
    LET unseen == {i \in Visible(Len(ledger)) : i > from}
    IN  {i \in unseen : Cardinality({k \in unseen : k <= i}) <= ScanLimit}

\* The page stops one event short of its cursor: FollowsLedger,
\* UnchangedIsCurrent.
WrongChangedIn(from, to) == {ledger[i].task : i \in {k \in Events(from) : k < to}}

ChangedIn(from, to) == {ledger[i].task : i \in {k \in Events(from) : k <= to}}

ChangeSize(t, s) == ChangeExtra + IF s = "deleted" THEN 0 ELSE Size[t]

ChangesSize(from, to) ==
    MapThenSumSet(LAMBDA t : ChangeSize(t, StateAt(t, to)), ChangedIn(from, to))

\* Off by one: EventuallyCurrent.
WrongFits(from, to) ==
    /\ Cardinality(ChangedIn(from, to)) <= MaxItems
    /\ BaseSize + ChangesSize(from, to) < TokenBudget

\* A page of the events after "from" up to "to" is within the limits.
Fits(from, to) ==
    /\ Cardinality(ChangedIn(from, to)) <= MaxItems
    /\ BaseSize + ChangesSize(from, to) <= TokenBudget

\* Events are accepted in order until the first one that does not fit.
LastAccepted(from) ==
    Max({from} \cup
        {i \in Events(from) : \A k \in Events(from) : k <= i => Fits(from, k)})

-----------------------------------------------------------------------------
(* resume_delta *)

Ready(t) ==
    /\ Incomplete(jobs[t])
    /\ \A d \in DepsOf[t] : d \in Mine => ~Incomplete(jobs[d])

Born(t) == Min(Revisions(t, Len(ledger)))

\* Ready tasks that are not among the changes, in order of creation, as long
\* as they fit: what the page lists as "next".
NextTasks(from, to) ==
    LET candidates == {t \in Mine : Ready(t)} \ ChangedIn(from, to)
        UpTo(t) == {u \in candidates : Born(u) <= Born(t)}
    IN  {t \in candidates :
           /\ Cardinality(ChangedIn(from, to) \cup UpTo(t)) <= MaxItems
           /\ BaseSize + ChangesSize(from, to)
                + MapThenSumSet(LAMBDA u : Size[u], UpTo(t)) <= TokenBudget}

Page ==
    LET reset == cursor > HeadRevision
        from == IF reset THEN 0 ELSE cursor
        to == IF Events(from) = {} THEN HeadRevision ELSE LastAccepted(from)
        changed == ChangedIn(from, to)
        unchanged == to >= HeadRevision /\ changed = {} /\ stateHash = Hash(jobs)
    IN  [revision |-> to, head |-> HeadRevision, reset |-> reset,
         changes |-> [t \in changed |-> StateAt(t, to)],
         next |-> IF unchanged THEN {} ELSE NextTasks(from, to),
         hash |-> Hash(jobs), unchanged |-> unchanged]

Call ==
    /\ page = NoPage
    /\ page' = Page
    /\ UNCHANGED <<jobs, ledger, cursor, copy, stateHash>>

\* The copy survives a reset: FollowsLedger.
WrongReceive ==
    /\ page # NoPage
    /\ cursor' = page.revision
    /\ stateHash' = page.hash
    /\ copy' = [t \in Mine |-> IF t \in DOMAIN page.changes THEN page.changes[t]
                               ELSE copy[t]]
    /\ page' = NoPage
    /\ UNCHANGED <<jobs, ledger>>

\* The reader stores revision and state_hash, as the tool's description asks,
\* and applies the changes to its copy, which a reset empties first.
Receive ==
    /\ page # NoPage
    /\ cursor' = page.revision
    /\ stateHash' = page.hash
    /\ copy' = [t \in Mine |->
                  IF t \in DOMAIN page.changes THEN page.changes[t]
                  ELSE IF page.reset THEN "absent" ELSE copy[t]]
    /\ page' = NoPage
    /\ UNCHANGED <<jobs, ledger>>

\* The answer is lost or the reader stops before it stores it.
Lose ==
    /\ page # NoPage
    /\ page' = NoPage
    /\ UNCHANGED <<jobs, ledger, cursor, copy, stateHash>>

-----------------------------------------------------------------------------
\* The cursor of a reader that comes from another, longer database.
ForeignCursor == MaxRevision + 1

\* The reader starts afresh, or with what it knew of another database.
Init ==
    /\ jobs = [t \in Task |-> "absent"]
    /\ ledger = <<>>
    /\ \/ /\ cursor = 0
          /\ copy = [t \in Mine |-> "absent"]
          /\ stateHash = NoPage
       \/ /\ cursor = ForeignCursor
          /\ copy = [t \in Mine |-> "running"]
          /\ stateHash = Hash(copy)
    /\ page = NoPage

LoggedWrite ==
    \/ \E t \in Task : Create(t) \/ Delete(t)
    \/ \E t \in Task, s \in State : Change(t, s)

\* Of the writers only QueueService, which logs every change.
LoggedNext == LoggedWrite \/ Call \/ Receive \/ Lose

LoggedSpec == Init /\ [][LoggedNext]_vars

\* With checkpoint and its silent repair.
Next == LoggedNext \/ RecoverNullRetries

Spec == Init /\ [][Next]_vars

\* A reader that keeps calling, some of whose answers arrive.  The first
\* conjunct is weak fairness of Call, which is enabled when there is no page.
FairLoggedSpec == LoggedSpec /\ []<>(page # NoPage) /\ SF_vars(Receive)

-----------------------------------------------------------------------------
(* Properties *)

PageType ==
    [revision: 0..Len(ledger), head: 0..Len(ledger), reset: BOOLEAN,
     changes: UNION {[ts -> State] : ts \in SUBSET Mine}, next: SUBSET Mine,
     hash: SUBSET (Mine \X State), unchanged: BOOLEAN]

TypeOK ==
    /\ jobs \in [Task -> State]
    /\ ledger \in Seq([task: Task, state: State])
    /\ cursor \in 0..Len(ledger) \cup {ForeignCursor}
    /\ copy \in [Mine -> State]
    /\ stateHash \in {NoPage} \cup SUBSET (Mine \X State)
    /\ page \in {NoPage} \cup PageType

\* The reader's copy is exactly what the ledger says at its cursor: paging,
\* lost answers, resets and writers in between skip and repeat nothing and
\* never show a state of a later revision among the changes.
FollowsLedger ==
    cursor # ForeignCursor => \A t \in Mine : copy[t] = StateAt(t, cursor)

\* The reader is told to start over only for a cursor of another database:
\* deletions and the revisions of other workspaces do not move the head back.
NeverReset == page # NoPage /\ page.reset => cursor = ForeignCursor

\* A page that says "unchanged" reaches a reader whose copy has the table's
\* incomplete tasks as of the call.
UnchangedIsCurrent ==
    page # NoPage /\ page.unchanged => Hash(copy) = page.hash

\* Once nobody writes any more, a reader that goes on calling has the table.
EventuallyCurrent == <>[](\A t \in Mine : copy[t] = jobs[t])

=============================================================================
