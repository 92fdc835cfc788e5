----------------------------- MODULE TaskTools ------------------------------
(***************************************************************************)
(* The tools around the queue: the MCP tools (mcp_server.py,               *)
(* low_token_mcp.py) and the commands (cli.py) that enqueue, complete,     *)
(* skip, accept, archive, delete and explain tasks.  Most of them are not  *)
(* one call of the queue but a list read first and a call for each entry,  *)
(* or several reads put together into one answer.  A call of the queue     *)
(* that marks or releases a task is two steps, as in storage/sqlite.py: it *)
(* reads and validates, and writes by id later; in between the lock keeps  *)
(* out its own process, and no other.  JobStore has what else happens in   *)
(* these calls.                                                            *)
(***************************************************************************)
EXTENDS Integers, Sequences, SequencesExt, FiniteSets, JobStates

CONSTANTS
    ToolTask,    \* tasks
    Needs,       \* depends_on
    TaskKey,     \* idempotency_key, or NoKey
    TaskLock,    \* resource_key, or NoKey
    Later,       \* tasks submitted with a run_after in the future
    Refused,     \* tasks whose payload exceeds the limit
    Client,      \* processes: an MCP server with its workers, a command
    ToolUses,    \* the tools a client uses
    TaskBatches, \* the sequences of tasks a client enqueues or completes at once
    Cost,        \* tokens of a task in a capsule
    MinimalCost, \* tokens of a task without its payload
    CapsuleBudget, CapsuleItems,
    NoKey, NoPlan

VARIABLES
    tasks,       \* per task: its status, and whether its run_after has come
    order,       \* the rows by rowid
    visit,       \* per client: the tool in progress, or its answer
    plan,        \* per client: the write by id that a mark or release has validated
    never,       \* the tasks an explanation said will never succeed
    astray       \* the tasks a write has hit that was no longer valid (history)

toolVars == <<tasks, order, visit, plan, never, astray>>

Quiet == [tool |-> "none", left |-> <<>>, offset |-> 0, seen |-> {}, fresh |-> FALSE]

ASSUME ToolConstants ==
    /\ Needs \in [ToolTask -> SUBSET ToolTask]
    /\ TaskBatches \subseteq Seq(ToolTask)
    /\ {CapsuleBudget, CapsuleItems, MinimalCost} \subseteq Nat

-----------------------------------------------------------------------------
(* The table *)

Listed == Range(order)

\* The rows that are in s, in their order.
Only(rows, s) ==
    LET at == {i \in DOMAIN rows : rows[i] \in s}
    IN  [k \in 1..Cardinality(at) |-> rows[CHOOSE i \in at : Cardinality({m \in at : m <= i}) = k]]

Place(t) == CHOOSE i \in DOMAIN order : order[i] = t

Active(t) == tasks[t].status \in ActiveStatuses

Holders == {TaskLock[t] : t \in {u \in ToolTask : tasks[u].status = "running"}} \ {NoKey}

\* What claim_next_job hands out.
ClaimableNow(t) ==
    /\ tasks[t].status = "pending"
    /\ tasks[t].due
    /\ \A d \in Needs[t] : tasks[d].status = "succeeded"
    /\ TaskLock[t] \notin Holders

May(t, s) == <<tasks[t].status, s>> \in ValidTransitions

\* A change of the table makes every list that was read before it stale.
StaleVisits(w) == [c \in Client |-> [w[c] EXCEPT !.fresh = FALSE]]

Put(t, s) == tasks' = [tasks EXCEPT ![t].status = s]

\* No thread of the process is inside a call of the queue.
LockFree(c) == plan[c] = NoPlan

Idle(c) == visit[c].tool = "none" /\ LockFree(c)

\* A mark or a release reads the row and validates the transition.
Validates(c, t, s, entry) ==
    /\ LockFree(c) /\ May(t, s)
    /\ plan' = [plan EXCEPT ![c] = [task |-> t, status |-> s, entry |-> entry]]

-----------------------------------------------------------------------------
(* The workers, and time *)

\* A worker thread claims a task: one transaction.
Claims(c, t) ==
    /\ "work" \in ToolUses[c] /\ LockFree(c)
    /\ ClaimableNow(t)
    /\ Put(t, "running")
    /\ visit' = StaleVisits(visit)
    /\ UNCHANGED <<order, plan, never, astray>>

\* It settles the one it has, or gives it back.
Settles(c, t, s) ==
    /\ "work" \in ToolUses[c]
    /\ tasks[t].status = "running"
    /\ s \in {"succeeded", "failed", "retry_scheduled", "dead_lettered", "pending"}
    /\ Validates(c, t, s, FALSE)
    /\ UNCHANGED <<tasks, order, visit, never, astray>>

\* Recovery and promotion write only rows that are still what they were.
Recovers(c, t, s) ==
    /\ "work" \in ToolUses[c] /\ LockFree(c)
    /\ <<tasks[t].status, s>> \in {<<"running", "pending">>, <<"running", "retry_scheduled">>,
                                  <<"retry_scheduled", "pending">>}
    /\ Put(t, s)
    /\ visit' = StaleVisits(visit)
    /\ UNCHANGED <<order, plan, never, astray>>

ComesDue(t) ==
    /\ tasks[t].status = "pending" /\ ~tasks[t].due
    /\ tasks' = [tasks EXCEPT ![t].due = TRUE]
    /\ visit' = StaleVisits(visit)
    /\ UNCHANGED <<order, plan, never, astray>>

-----------------------------------------------------------------------------
(* Batches *)

Doing(c, tool) == visit[c].tool = tool /\ visit[c].left # <<>>

\* The entries after the first, or the end of the call.
After(c) == IF Len(visit[c].left) = 1 THEN Quiet ELSE [visit[c] EXCEPT !.left = Tail(@)]

\* An entry is done.  The answer, after the last one, tells of those that are.
Told(c, t) ==
    [visit[c] EXCEPT !.left = Tail(@), !.seen = @ \cup {t}, !.tool = IF Len(visit[c].left) = 1 THEN "told" ELSE @]

\* An entry is not: a batch counts it as a failure and goes on, if any is left, a
\* sweep raises and ends without an answer about the rows changed before it.
Skipped(c) ==
    IF visit[c].tool # "complete" THEN Quiet
    ELSE [visit[c] EXCEPT !.left = Tail(@), !.tool = IF Len(visit[c].left) = 1 THEN "told" ELSE @]

\* enqueue_task, enqueue_batch and complete_batch.  That enqueueing does not begin
\* during a pause is left out: nothing here depends on it.  A task has an identity of
\* its own from the call that creates it, so an entry to enqueue is no other entry.
BeginBatch(c, tool, batch) ==
    /\ Idle(c) /\ tool \in ToolUses[c]
    /\ tool = "enqueue" => IsInjective(batch)
    /\ tool = "enqueue" => \A t \in Range(batch) :
           /\ tasks[t].status = "absent"
           /\ \A d \in Needs[t] : tasks[d].status # "absent"
           /\ \A e \in Client : t \notin Range(visit[e].left)
    /\ visit' = [visit EXCEPT ![c] = [Quiet EXCEPT !.tool = tool, !.left = batch]]
    /\ UNCHANGED <<tasks, order, plan, never, astray>>

\* submit, the next entry.  An entry that is refused ends the call: those before it stay.
EnqueueNext(c) ==
    /\ Doing(c, "enqueue") /\ LockFree(c)
    /\ LET t == Head(visit[c].left)
           existing == \E u \in ToolTask : Active(u) /\ TaskKey[u] = TaskKey[t] /\ TaskKey[t] # NoKey
       IN  IF t \in Refused
           THEN visit' = [visit EXCEPT ![c] = Quiet] /\ UNCHANGED <<tasks, order>>
           ELSE IF existing
           THEN visit' = [visit EXCEPT ![c] = After(c)] /\ UNCHANGED <<tasks, order>>
           ELSE /\ Put(t, "pending")
                /\ order' = Append(order, t)
                /\ visit' = StaleVisits([visit EXCEPT ![c] = After(c)])
    /\ UNCHANGED <<plan, never, astray>>

\* complete, archive: the next entry is read.  One that cannot make the change, or
\* is not there, is refused.
EntryNext(c, tool, s) ==
    /\ Doing(c, tool) /\ LockFree(c)
    /\ LET t == Head(visit[c].left)
       IN  IF May(t, s)
           THEN Validates(c, t, s, TRUE) /\ UNCHANGED visit
           ELSE visit' = [visit EXCEPT ![c] = Skipped(c)] /\ UNCHANGED plan
    /\ UNCHANGED <<tasks, order, never, astray>>

\* The write is by id, whatever the row is now.  If it was deleted nothing is written,
\* and the call finds so.
Writes(c) ==
    /\ plan[c] # NoPlan
    /\ plan' = [plan EXCEPT ![c] = NoPlan]
    /\ LET t == plan[c].task
           s == plan[c].status
           there == tasks[t].status # "deleted"
       IN  /\ IF there THEN Put(t, s) ELSE UNCHANGED tasks
           /\ astray' = IF ~there \/ May(t, s) \/ tasks[t].status = s THEN astray ELSE astray \cup {t}
           /\ visit' = StaleVisits(IF plan[c].entry
                                  THEN [visit EXCEPT ![c] = IF there THEN Told(c, t) ELSE Skipped(c)]
                                  ELSE visit)
    /\ UNCHANGED <<order, never>>

\* accept-before and archive-workflow: the rows are read first, and those that
\* are closed by then are passed over.
BeginSweep(c, tool, rows) ==
    /\ Idle(c) /\ tool \in ToolUses[c]
    /\ LET done == {t \in ToolTask : tasks[t].status \in {"succeeded", "archived"}}
           open == Only(rows, ToolTask \ done)
       IN  /\ open # <<>>
           /\ visit' = [visit EXCEPT ![c] =
                [Quiet EXCEPT !.tool = tool, !.left = open, !.seen = Range(rows) \cap done]]
    /\ UNCHANGED <<tasks, order, plan, never, astray>>

BeginAccept(c, t) == t \in Listed /\ BeginSweep(c, "accept", SubSeq(order, 1, Place(t) - 1))
BeginArchive(c) == BeginSweep(c, "archive", order)

-----------------------------------------------------------------------------
(* Single tasks *)

\* complete_task and skip, fail_task, archive-task: refused unless the transition is valid.
CloseTask(c, t, s) ==
    /\ visit[c].tool = "none" /\ "close" \in ToolUses[c]
    /\ s \in {"succeeded", "failed", "archived"}
    /\ Validates(c, t, s, FALSE)
    /\ UNCHANGED <<tasks, order, visit, never, astray>>

\* delete-task: the row and its events, in one transaction, whatever its status.
DeleteTask(c, t) ==
    /\ Idle(c) /\ "delete" \in ToolUses[c]
    /\ t \in Listed
    /\ Put(t, "deleted")
    /\ order' = Only(order, ToolTask \ {t})
    /\ visit' = StaleVisits(visit)
    /\ UNCHANGED <<plan, never, astray>>

-----------------------------------------------------------------------------
(* explain: why a task is still there *)

InView(t) == tasks[t].status \notin {"absent", "deleted", "succeeded", "archived"}

\* A dependency that has failed, was archived, or is missing cannot succeed any more.
Hopeless(d) == tasks[d].status \in {"absent", "deleted", "failed", "dead_lettered", "archived"}

WrongCategory(t) ==   \* BUG (ReadyIsClaimable): the resource is not looked at
    IF tasks[t].status # "pending" THEN tasks[t].status
    ELSE IF \E d \in Needs[t] : tasks[d].status # "succeeded" THEN "blocked"
    ELSE IF ~tasks[t].due THEN "scheduled" ELSE "ready"

Category(t) ==
    IF tasks[t].status # "pending" THEN tasks[t].status
    ELSE IF \E d \in Needs[t] : tasks[d].status # "succeeded" THEN "blocked"
    ELSE IF ~tasks[t].due THEN "scheduled"
    ELSE IF TaskLock[t] \in Holders THEN "resource_wait" ELSE "ready"

\* Of the rows, those that are pending; the statuses of their dependencies are
\* read in a later query, when the rows may have changed.
ReadVisible(c) ==
    /\ Idle(c) /\ "explain" \in ToolUses[c]
    /\ visit' = [visit EXCEPT ![c] =
           [Quiet EXCEPT !.tool = "explain", !.seen = {t \in ToolTask : tasks[t].status = "pending"}]]
    /\ UNCHANGED <<tasks, order, plan, never, astray>>

Explain(c) ==
    /\ visit[c].tool = "explain"
    /\ never' = never \cup {d \in UNION {Needs[t] : t \in visit[c].seen} : Hopeless(d)}
    /\ visit' = [visit EXCEPT ![c] = Quiet]
    /\ UNCHANGED <<tasks, order, plan, astray>>

-----------------------------------------------------------------------------
(* resume_capsule: pages of the tasks that can be worked on *)

Unfinished == Only(order, {t \in ToolTask : Active(t)})

\* A task waits only for tasks that are still incomplete.
Waits(t) == Needs[t] \cap Range(Unfinished) # {}
Candidates == Only(Unfinished, {t \in ToolTask : ~Waits(t)})

CostOf(s) == FoldSeq(LAMBDA t, n : n + Cost[t], 0, s)

\* The longest prefix that fits; a first task that does not is cut to its identity.
Capsule(rest) ==
    LET fits == {0} \cup {n \in 1..Len(rest) : n <= CapsuleItems /\ CostOf(SubSeq(rest, 1, n)) <= CapsuleBudget}
        n == CHOOSE m \in fits : \A k \in fits : k <= m
    IN  IF n = 0 /\ rest # <<>> /\ MinimalCost <= CapsuleBudget THEN <<rest[1]>> ELSE SubSeq(rest, 1, n)

NextOffset(offset, page) == offset + Len(page)

\* A reader asks for one page after the other, until there is none or one is exhausted.
ReadCapsule(c) ==
    /\ "capsule" \in ToolUses[c] /\ LockFree(c)
    /\ visit[c].tool = "none" \/ visit[c].tool = "capsule"
    /\ LET w == IF visit[c].tool = "none" THEN [Quiet EXCEPT !.tool = "capsule", !.fresh = TRUE] ELSE visit[c]
           page == Capsule(SubSeq(Candidates, w.offset + 1, Len(Candidates)))
           more == NextOffset(w.offset, page)
       IN  /\ Candidates # <<>>
           /\ visit' = [visit EXCEPT ![c] =
                [w EXCEPT !.seen = @ \cup Range(page), !.offset = more,
                          !.tool = IF page = <<>> THEN "exhausted"
                                   ELSE IF more < Len(Candidates) THEN "capsule" ELSE "read"]]
    /\ UNCHANGED <<tasks, order, plan, never, astray>>

\* The reader turns to something else.
CloseCapsule(c) ==
    /\ visit[c].tool \in {"capsule", "read", "exhausted", "told"}
    /\ visit' = [visit EXCEPT ![c] = Quiet]
    /\ UNCHANGED <<tasks, order, plan, never, astray>>

-----------------------------------------------------------------------------
ToolInit ==
    /\ tasks = [t \in ToolTask |-> [status |-> "absent", due |-> t \notin Later]]
    /\ order = <<>>
    /\ visit = [c \in Client |-> Quiet]
    /\ plan = [c \in Client |-> NoPlan]
    /\ never = {}
    /\ astray = {}

ToolStep(c) ==
    \/ \E tool \in {"enqueue", "complete"}, batch \in TaskBatches : BeginBatch(c, tool, batch)
    \/ EnqueueNext(c)
    \/ EntryNext(c, "complete", "succeeded")
    \/ \E t \in ToolTask : BeginAccept(c, t)
    \/ BeginArchive(c)
    \/ EntryNext(c, "accept", "succeeded")
    \/ EntryNext(c, "archive", "archived")
    \/ Writes(c)
    \/ \E t \in ToolTask : Claims(c, t)
    \/ \E t \in ToolTask, s \in Status : Settles(c, t, s) \/ Recovers(c, t, s)
    \/ \E t \in ToolTask, s \in {"succeeded", "failed", "archived"} : CloseTask(c, t, s)
    \/ \E t \in ToolTask : DeleteTask(c, t)
    \/ ReadVisible(c)
    \/ Explain(c)
    \/ ReadCapsule(c)
    \/ CloseCapsule(c)

ToolNext ==
    \/ \E c \in Client : ToolStep(c)
    \/ \E t \in ToolTask : ComesDue(t)

ToolSpec == ToolInit /\ [][ToolNext]_toolVars

-----------------------------------------------------------------------------
(* Properties *)

\* explain "mirrors the queue's real claim gating" (cli.py:83): what it calls
\* ready are the tasks a claim would hand out at that moment, and no others.
ReadyIsClaimable ==
    \A t \in ToolTask : InView(t) => (Category(t) = "ready") = ClaimableNow(t)

\* A task of which explain has said that it "will never succeed" (cli.py:162)
\* does not, whoever goes on working on it, unless a write went astray: one that a
\* process had validated before another closed the task.
NeverMeansNever == \A d \in never \ astray : tasks[d].status \notin {"running", "succeeded"}

\* The answer of accept-before, of archive-workflow and of complete_batch tells of
\* tasks that are done for good, though it worked on a list read before and its
\* entries were written one by one: no one has them any more, save by a write gone astray.
DoneAsTold ==
    \A c \in Client : visit[c].tool = "told" =>
        \A t \in visit[c].seen \ astray : tasks[t].status \in {"succeeded", "archived", "deleted"}

\* A reader that follows next_offset to the last page has seen every task that
\* can be worked on, if the table did not change under it.
PagesCoverReady ==
    \A c \in Client : visit[c].tool = "read" /\ visit[c].fresh => Range(Candidates) \subseteq visit[c].seen

\* What the tools tell of the queue is what the queue does.
QueueAsTold == ReadyIsClaimable /\ NeverMeansNever /\ DoneAsTold /\ PagesCoverReady

\* A process alone sends no write astray: its lock covers the read and the write.
AloneNothingAstray == (\A c, e \in Client : c = e) => astray = {}
=============================================================================
