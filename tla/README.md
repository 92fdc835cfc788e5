# A TLA+ model of djobs

djobs is a local memory and durable task queue for coding agents: one SQLite
file (or a Postgres database) shared by MCP servers, command-line calls, editor
hooks and a daemon.  This directory models its components as TLA+ modules,
checks them with TLC on small instances and proves with TLAPS, for instances of
every size, almost every safety property that the runs check.  Paths below are relative to `src/djobs/` of the
repository's `src/` tree unless they begin with `docs/` or `CHANGELOG.md`.

## 1. The system

| part | state it keeps | operations | what is hard |
|---|---|---|---|
| job table (`storage/sqlite.py`, `storage/schema.py`, `core/states.py`) | `jobs`, `job_events`, and `context_revisions`, filled by a trigger | insert, claim, mark, release, heartbeat, recover, promote | several processes share the file; only insertion and claims run in `BEGIN IMMEDIATE`, the other calls read first and write by id later |
| queue service (`queue/service.py`, `core/retry.py`) | none of its own | submit (lookup, insert), retry-or-dead-letter (read, mark) | two repository calls in a row |
| daemon (`daemon.py`, `worker/`, `scheduler/`) | threads, the drain and stop flags | poll, run, report; recover and promote; drain, stop | handlers slower than their lease, kills, shutdown |
| Postgres repository (`storage/postgres.py`) | the same tables | the same operations | READ COMMITTED, `SKIP LOCKED`, connections shared by threads |
| SQLite connection (`storage/sqlite.py`) | implicit transaction, savepoints | begin, write, commit, roll back | a refused update leaves a transaction open, and later calls run in it |
| handoff and checkpoint (`handoff.py`, `storage/workspace.py`) | rows of `jobs` | recover, repair, submit, claim a named task, renew, release, complete | up to seven separate calls, other agents in between |
| task tools (`mcp_server.py`, `low_token_mcp.py`, `cli.py`) | none | enqueue, batches, complete, explain, accept, archive, delete, capsules | lists read first and used entry by entry, by marks that write by id what they validated earlier |
| delta context (`delta_mcp.py`, `storage/reporting.py`) | ledger; the reader's cursor, hash and copy | a page after a cursor under budgets | nothing lost or repeated for ever, deletions, lost answers |
| agent registry | `agents` | register, heartbeat, reap, list | reaping races with heartbeats |
| passive memory (`observations.py`, `storage/memory.py`) | observations, markers, snapshots, capsules, index head | record, summarise, mark, forget, compact, clear, reindex | rows composed from an earlier read; retention; forgetting everything derived |
| typed memory (`artifacts.py`, `storage/artifacts.py`, `memory_review.py`, ...) | artifacts, sources, relations | propose, conclude, review, contradict, supersede, delete | approvals of what was shown a while ago; provenance closure; validity periods |
| lifecycle hooks (`lifecycle.py`, `mcp_adoption.py`, `coding_mcp.py`, `observer.py`) | pause marker | recover context, record, summarise | several hooks of one session at once, killed at any time; callers that look at no marker |
| session import (`session_memory.py`) | quarantined imports | preview, import, review, forget, export | the transcript is still written to |
| retrieval (`retrieval.py`, `storage/retrieval.py`, `embedding.py`) | vectors and their head | retrieve, reindex | reads without a transaction while others replace the index |
| memory commands (`memory.py`) | none | one door for every request | copy or database, confirmations, cutting an answer |
| external memory (`external_memory.py`) | an index outside of djobs | index, delete, retrieve with a time limit | the call goes on when its caller does not |
| host contract (`host_contract.py`, `contract_*.py`) | none | observations under a budget, receipts | rows beyond the query's limit; counts taken before items are dropped |
| read-only copies (`storage/read_only.py`) | a copy of file and log | capture, verify, open | files copied while a writer goes on |
| host setup (`setup_cli.py`, `host_hooks.py`, `entrypoint.py`) | configuration files of the hosts | install, repair, remove | merging into a file others edit, stale locks |
| dashboard, reports, export, diagnostics | none | read and format | text only: not modelled |

How they interact.  Every part reaches the database through a repository object
of its process.  A process has one connection and one re-entrant lock around it,
so its calls do not overlap; calls of different processes are ordered by SQLite's
write lock only.  The MCP tools, the pool and the scheduler call `QueueService`;
`checkpoint` and `handoff` call `QueueService` and the workspace repository one
call after the other.  Every event row makes a trigger copy the job's row to
`context_revisions`, which `resume_delta` reads.  Hooks and memory tools call the
memory repositories; typed memory is built on the observations and shares their
deletions; retrieval, the contract and the commands read both, most of them from
a private copy.

What makes each part correct is stated as its properties (section 3).  What can
go wrong here and is hard to test, with the line where it bites, is `hazards` in
`PROJECT.json`.

## 2. Modules

| module | models | composed from |
|---|---|---|
| `JobStates` | statuses and transitions of `core/states.py` | |
| `JobStore` | the job table behind `QueueService`, for several processes | `JobStates` |
| `LeaseQueue` | the abstract queue: open, held by one worker, parked, closed | |
| `Handoff` | `checkpoint` and `handoff` | `JobStore` |
| `WorkerPool` | the daemon: pool, executors, scheduler, drain | `JobStore` |
| `PostgresStore` | the job table on Postgres | `JobStates` |
| `TaskTools` | the tools that make several calls | `JobStates` |
| `DeltaContext` | the ledger, `resume_delta` and a reader | |
| `AgentRegistry` | the agents' rows | |
| `SqliteConnection` | transactions on a shared connection | |
| `MemoryTables` | the memory tables as a value, with deletion and pruning | |
| `PassiveMemory` | observations, capsules, snapshots, forgetting | `MemoryTables` |
| `TypedMemory` | artifacts, reviews, disputes, versions, recall | `PassiveMemory` |
| `Lifecycle` | hooks and memory tools as sequences of calls | `PassiveMemory` |
| `SessionMemory` | session imports | |
| `Retrieval` | lexical and semantic retrieval, the vector index | |
| `MemoryCommands` | `memory_action`: routing and answers | |
| `ExternalMemory` | the injected index and its timeouts | |
| `EvidenceContract` | the observation query and its receipts | |
| `ReadOnlySnapshot` | copies of the database file and its log | |
| `HostSetup` | configuration files of the hosts | |
| `MC*` | small instances | |
| `JobStoreProofs`, `OneProcessProofs`, `HandoffProofs`, `WorkerPoolProofs`, `DeltaContextProofs` | theorems | the module of the name; `OneProcessProofs` builds on `JobStoreProofs`, `HandoffProofs` and `WorkerPoolProofs` on `OneProcessProofs` |
| `StorageProofs` | theorems about connections, copies, Postgres and the agent registry | `SqliteConnection`, `ReadOnlySnapshot`, `PostgresStore`, `AgentRegistry` |
| `BoundaryProofs` | theorems about what surrounds queue and memory | `TaskTools`, `ExternalMemory`, `SessionMemory`, `Retrieval`, `MemoryCommands`, `HostSetup`, `EvidenceContract` |
| `MemoryProofs` | theorems about the memory | `TypedMemory`, `Lifecycle` |

The rule of all of them: **what the code does under one lock or in one
transaction is one step; what it read before, it may find changed.**  The part of
a call that reads is an action of its own whenever the code does not hold what it
read, and puts what it read into a variable (`window`, `visit`, `desk`, `within`,
`pgWindow`, ...); the part that writes has the guards of the SQL statement and
nothing else.  A crash forgets these variables and leaves the rows.

### JobStore, LeaseQueue, Handoff

`jobs[j]` is the row of job `j`, `ledger[j]` its newest `context_revisions` row,
`window[t]` the call of thread `t` that has read and not yet written, `clock` the
wall clock.  `CreateJob` and `ClaimNext` are one step (`BEGIN IMMEDIATE`).  The
other calls are `Begin*`, which reads and validates, and `Commit*`, which writes
`WHERE id = ?`; `LockFree` says whether another thread of the process is inside a
call.  `submit` and `retry_or_dead_letter` are two repository calls and hold no
lock in between.  `Uses[t]` says which calls a thread makes.  Payloads, errors and
correlation ids are left out: no guard reads them.

`LeaseQueue` is what the table promises its users; `Queue` in `JobStore` is its
instance under the refinement mapping (pending jobs are open, running ones held by
their owner, `retry_scheduled` ones parked, settled ones closed).

`flow[a]` in `Handoff` is where the tool call of agent `a` stands and `lease[a][j]`
what the agent was told.  Its steps are the calls of `checkpoint` and `handoff` in the
code's order, each made of the `JobStore` actions it calls.  An exception ends the
tool call; `Stop(p)` is the end of a host's process at any step.

### WorkerPool, PostgresStore, TaskTools

`stage`, `stop`, `hands` and `tick` are the pool's main loop, the stop event, what each
executor has in hands, and the scheduler's loop; reports of results are `JobStore`'s
marks by id.  A dead daemon starts again under another worker id.

`PostgresStore` has a step per SQL statement, with the commit that follows it:
`pgJobs` holds what is committed, `rowLock` the connection that has locked a row,
`aborted` the connections with a failed transaction, `pgWindow` what a thread's
call has read.

`TaskTools` models what lies between the calls of a tool: a batch over a list,
`explain`'s two queries, a capsule's pages, the operator's sweeps.  Its clients are
processes.  A call that marks or releases a task is two steps (`Validates`,
`Writes`): it reads the row and validates the transition, and writes `WHERE id = ?`
later, when another process may have changed the row (`storage/sqlite.py:376-390`,
`release_job`).  In between, `plan[c]` is what will be written, and the lock of the
process (`LockFree`) keeps its own other calls out.  Claims, recovery and promotion
write only rows that still are what they were, in one step.  `astray` is a history
variable: the tasks on which a write came that was no longer a legal transition.

### DeltaContext, AgentRegistry, SqliteConnection

The ledger is a sequence whose positions are the revisions.  `Page` is the
whole handler of `resume_delta`: reset, scan limit, the events accepted until one
does not fit, the head when nothing is left, the hash, "unchanged" and "next".
`Receive` and `Lose` are the reader.  Of the writers, `recover_null_retries` writes
no event; `LoggedNext` leaves it out.  The state hash is injective, a task's size in tokens a constant.

`AgentRegistry` keeps ages instead of times, so it needs no bound on the clock.

`SqliteConnection` has `txn[p]`, the transaction on a process's connection, and
`doing[p]`, its call, which writes two rows, as a job and its event.  Calls are
bare, `execute_write`, a `transaction()` block or a claim.  A bare call that raises
leaves its transaction behind, and later calls run inside it.

### MemoryTables, PassiveMemory, TypedMemory, Lifecycle

`MemoryTables` is purely functional: `db` is a record of the rows, their places in the
order of `created_at` (`born`, 0 before an identifier is given), their status, the artifacts and the relations, and a transaction is an operator from
one value to the next (retention, `DeleteRows`, `DeleteArtifacts` with the
closure over provenance and the survivors of a dispute, pruning, merging).  An
identifier stands for the row inserted under it, so what a row says is a constant.

`PassiveMemory` adds the processes (`window`), the working tree and its
snapshot, the search index, `copies[k]` (what a capsule repeats) and `forgotten`.
`TypedMemory` adds claims, reviews and the validity of versions; `Lifecycle` adds
`handler[c]`, the calls a hook has still to make in the code's order,
`given`, the last context a host was given, and the pause marker.  The sidecar
(`observer.py`) and the library and the CLI (`project_memory.py:59`,
`context_cli.py:96`) capture and recover like hooks and look at no marker: they are
the handlers of `Unhooked`.  `lastTold` is the tree that the latest stored change
tells of.

### The other modules

`SessionMemory`: `files`, `imports`, and `desk[p]`, what a person was shown.
`Retrieval`: `status` of the rows, `vectors` with their head, `asks`.
`MemoryCommands`: `request`, `door` (a copy, an empty database in memory, the
database itself, none, refused, done), `changed`, what the handler did change of
what it may, and `answer`; five actions (`Plain`) send theirs whole.  `ExternalMemory`: `rows`, `outside`, `threads` that have not ended,
`held` (the one adapter lock) and `caller`.  `EvidenceContract`: `head`, the rows `found`, the `reply` being built and
sealed, and the last `verdict`.  `ReadOnlySnapshot`: `file` and `log` with
the commit each page and frame is of, the `capture` under way, the last `view`.  `HostSetup`: `configs`,
`own` (what a user wrote), `lock`, and `job[i]`, the call of an installer.  The user
and the host edit a file at any step, also between an installer's read and its
write; `loose` are the files for which that has happened, or that install-mcp
replaced without having been able to take what was in them.

### The MC modules

`MCJobStore`, `MCHandoff`, `MCWorkerPool`, `MCDeltaContext`,
`MCProvenance`, `MCDisputes` and `MCLifecycle` name the small constants of one module each.
`MCComponents` checks ten modules that share no state in one run: the variable
`part` is chosen at the start and never changes, the chosen module takes its own
steps, every other one stays as it began.  Its states are the disjoint union of
those of the ten instances, so what TLC says of a property in this run is
what it would say of the module alone.  A hook file, an owned one, a server file of
a host and one of install-mcp are four parts of `HostSetup`.  `MCAgents` does the same
(`side`) with `AgentRegistry` and `TaskTools`.

Two instances leave steps out to stay small, each by a named conjunct: `OfThisFile`
(which installers work on which file; the host's own list of servers is changed only
while a server file is missing; only install-mcp's file can hold a list instead of an
object, the other kinds refuse that as they refuse what is no JSON) and `OfTheseTools`
(one of the tasks is never worked on, and workers dead-letter nothing).  The theorems
have no such limits.

## 3. Runs

Twelve runs; eleven find no error, one shows a disagreement with the documentation.
Distinct states and times are those of two TLC workers.

| run | instance | properties |
|---|---|---|
| `shared_table` | 2 processes, every call, 2 jobs of one resource | LeaseConsistent, ResourceExclusive, LedgerCurrent: what survives every stale write |
| `one_process` | 2 threads of one process, every call, 3 jobs: two of one key, two of one resource, one dependent | LegalTransitions, LiveLeaseKept, EventTellsStatus, StartedAfterDependencies: what the process lock buys |
| `scheduler_progress` | a worker and a scheduler, crashes, fairness | ExpiredLeaseRecovered; ImplementsLeaseQueue, the refinement |
| `delta_progress` | 3 tasks, 5 revisions, no silent repair, fairness | UnchangedIsCurrent, EventuallyCurrent |
| `handoff` | 2 agents of one process, 2 jobs of one key, one attempt, fairness | LeaseAsTold; ExpiredLeaseReturned, here through `checkpoint`'s repair |
| `worker_pool` | one daemon with two executors and a scheduler, a client, a type limit of 1 | LeaseIsWorkedOn, AttemptHandledOnce, DeadLetterEarned, StopDrains |
| `provenance` | a session with a capsule, an episode, an experience, two drafts of one claim; limits of two rows and three artifacts | ActiveProvenanceKept, ForgottenErased, CapsuleCopiesCurrent |
| `disputes` | two facts that contradict or supersede each other, one built on them, two instants | OneVersionAtATime, DisputeNeedsReview, ResolvedAsShown, HistoryKept |
| `lifecycle` | two hooks of one session, three handlers started, kills, pauses, edits | OwnPromptNotHistory, ContextGivenOnce, ChangesTold (no change of the tree is lost or told twice), PausedIsQuiet |
| `agents` | one agent, two threads of a process and a third elsewhere, kills, fairness; or two processes with tools, four tasks | FleetIsSeen; QueueAsTold |
| `components` | ten components, one at a time | one property each, below |
| `stranded_retry` | one job with one attempt, worker and scheduler, fairness | ExpiredLeaseReturned is **violated** |

Properties with several parts, and what each part says:

| property | parts |
|---|---|
| FollowsLedger (`DeltaContext`) | the reader's copy is the ledger at its cursor, with deletions and silent repairs |
| LiveLeaseSpared (`PostgresStore`) | ClaimedAsTold: a claim leases what it returns; RecoverySpares: recovery takes expired leases only |
| QueueAsTold (`TaskTools`) | ReadyIsClaimable and NeverMeansNever, of `explain`; DoneAsTold, of batches and sweeps; PagesCoverReady, of the capsule's pages.  NeverMeansNever and DoneAsTold except tasks that a late write of another process hit |
| WritesAsTold (`SqliteConnection`) | BlocksAreWhole: both rows of a block or none; ToldIsDurable: what was reported is there |
| AsShown (`SessionMemory`) | ImportsAsShown, ReviewsAsShown |
| ConfigsMerged (`HostSetup`) | UserEntriesKept: no entry is lost among installers, for files that are not `loose`; OneAdapter per file |
| SnapshotIsCommitted (`ReadOnlySnapshot`) | a copy shows one commit, not older than the capture |
| OmissionsVisible (`EvidenceContract`) | CriticalTold: a failure of this HEAD is shown or its omission told, unless a LIMIT's worth of newer rows hides it from the query; ReceiptVerifies: exactly what arrives whole verifies |
| CommandsAsAsked (`MemoryCommands`) | WritesGoLive: nothing is written into a copy, the database is opened only for what may write, what destroys or copies a family's memory was confirmed, what is accepted was reviewed; OmissionTold: cut answers say that they are cut, what they still have, and that a memory is disputed |
| ChangesTold (`Lifecycle`) | NoChangeLost: the stored state is what the latest stored change tells; once the tree as it is was stored, only a capture begun before the latest edit stores another |
| CopiesAsAllowed (`ExternalMemory`) | OnlyRevalidated: only rows of the family, as read; DeletedStaysOut: a late call brings nothing back |
| ComparedAsSeen (`Retrieval`) | a fused answer has compared what its asker sees, with one model; exact hits come first |

Every property has a mutant in `PROJECT.json`: a plausible mistake in one definition
(`Wrong...`, marked `BUG`) under which TLC finds the property violated.

The modules whose state is made of records have a type invariant.  Those of
`JobStore` and `Handoff` are theorems (section 4); the other proof modules have
theirs in the inductive invariants.  The type invariants that are not theorems hold on
the instances above and document the state; no run lists them as a property.

### The violation

`stranded_retry`: a lease that expires on the last attempt makes the job
`retry_scheduled` without a `run_after` (`storage/sqlite.py:612`), which
`promote_due_retries` never selects.  `mcp_server.py:421` promises that "the task is
automatically returned to the queue".  With `checkpoint` in the system its repair
(`storage/workspace.py:66`) brings the job back: run `handoff` has the same property
and passes.

### Other disagreements met while modelling

They are consequences of the modelled definitions that no run lists:

* Two processes: LegalTransitions, LiveLeaseKept and EventTellsStatus fail, since a
  mark, a release or a recovery that read in time writes after another process.
  With `ProcessOf <- TwoProcesses` in `MCOneProcess.cfg` TLC shows the traces.
* `handoff(completed=True)` decides on one read and completes by id: another agent
  may have claimed the task since (`handoff.py:604`), and the next checkpoint creates
  the work anew.
* A retry decided before a recovery and a new claim is written after them:
  `max_attempts + 1` attempts (`queue/service.py:187`).
* Postgres: two claims that skip each other's rows can run two jobs of one
  resource (`storage/postgres.py:281`); `CHANGELOG.md:649` promises one.
  `upsert_snapshot` reads without a lock.  Threads that share a connection share its
  transaction, and a commit of one ends it for all.
* SQLite: after a bare write was refused as busy the connection stays in a
  transaction; once it has read there and another process has committed, its writes
  fail on the old snapshot until a claim rolls back or a call commits.  A
  claim that finds it rolls back what calls inside it had reported.
* `resume_delta`: a page cut by its budget lists under "next" a state whose revision
  comes later; `recover_null_retries` writes no event, so its change is never
  delivered and the second page after it says "unchanged".
* `docs/USER_GUIDE.md:101` says that while paused repository snapshots and
  `sync_workspace` recovery are skipped.  The sidecar captures without a look at the
  marker (`observer.py:13-39`), and so do `ProjectMemory.sync_workspace` and the CLI's
  `sync` (`project_memory.py:59`, `context_cli.py:96`), which also recover.
* A capture that asked git before an edit may store the old state after another
  capture stored the new one; the next capture tells the change once more.
* In two processes a mark or a release that was validated in time is written after
  another process closed the task: a task `explain` called one that "will never
  succeed" (`cli.py:162`) may run again, and what `accept-before`, `archive-workflow` or
  `complete_batch` answered as done may be open.  `NeverMeansNever` and `DoneAsTold`
  except exactly the tasks on which that has happened; a process alone sends no such
  write (`NothingAstrayAlone`).
* A critical failure with `min(500, max(80, max_items * 10))` newer rows is not seen by
  the query (`contract_repository.py:168-174`), whatever those rows are; the response
  then says neither `truncated` nor `critical_evidence_omitted`
  (`docs/USER_GUIDE.md:255`: "truncation and critical evidence omission are explicit").
* `memory forget` and `memory status` ask for no confirmation (`memory.py:482-523`), unlike
  the other commands that destroy.  `external delete` with no database answers
  `ok` and `not_initialized` and deletes nothing (`memory.py:252-266`), though confirmed.
* A capsule's goal is that of the rows it read, not the latest one
  (`CHANGELOG.md:136`); two capsules composed at once copy the same rows;
  `update_observation_status` reads, then writes.
* `resume_session`'s "blocked by" looks at incomplete dependencies only;
  `enqueue_batch` refused half-way leaves what it created; `archive` and `accept`
  of several tasks go on over a list that has changed.
* The host contract may exceed `token_budget` by the seal (`host_contract.py:264`).
* `status` and `forget` with missing arguments open the live database before they
  refuse.
* An external copy of a forgotten row stays until `delete_derived_copy`; two
  sessions have two locks, so a call of each may be under way.
* Host setup: the user and the host know of no lock, so an edit between an installer's
  read and write is overwritten (`host_hooks.py:464`: "preserving unrelated
  configuration").  Server files (`mcp.json` of a project) are written in place and
  without a lock: a death in the middle loses all of one, and `--force` on a file that
  another call is just writing starts from nothing.  install-mcp replaces a file that is
  no JSON object without `--force`, and prints "without changing other MCP servers"
  (`entrypoint.py:139-141`, `167`).  Repair removes the MCP registration before it adds
  it; the first call of a running server installs again what `remove` took out.

### Bounds and why they are enough

* Two threads are enough for a stale read and the write that overtakes it, and
  the third one is the scheduler.  Two or three jobs are enough for a resource,
  a key or a dependency to be shared, and one more.
* `Lease = 1` and `MaxClock` 1 to 3: a lease is live at one instant and expired at the
  next; with two instants it is renewed or claimed anew in between.
  `MaxClaims = 2` with one or two attempts lets a job use up its attempts and be
  claimed once more by whoever does not look at the budget.
* `DeltaContext`: four or five revisions with pages of two items, a budget of one large or
  two small changes and a scan limit of two or three force every kind of cut; the
  foreign cursor is larger than any revision (one that is not cannot be told from an
  own cursor, in the code either).
* `SqliteConnection`: a unit of each style and a second block, on two connections:
  a block inside a transaction that a refused call left, and the other
  connection's commit that makes its snapshot old.
* Memory: retention limits of one to three rows, so that every insertion may prune; a
  chain of three from a row to a conclusion; two instants for periods that
  touch; three handlers for two hooks that race and a third that finds the marker.
* `ReadOnlySnapshot`: two pages, a log of two transactions and five commits: a copy
  can hold frames of three generations of the log.
* `HostSetup`: two installers of a server file, one and a server on its first call of
  a hook file, one entry of the user, one death.
* `EvidenceContract`: four observations, a failure of each HEAD, one observation that
  alone exceeds the smaller budgets; the query's limit is three rows (at least
  three, at most four, one per item), so that the oldest failure falls out of it.
* `TaskTools`: two processes, one that works, enqueues and completes and one of the
  operator; a task that another needs, one that shares its resource and has a key of
  another, and one too large: a late write, a batch refused half-way and each category
  of `explain` occur.
* The bounds are guards (`clock < MaxClock`, `attempt < MaxClaims`,
  `Len(ledger) < MaxRevision`, `MaxBegun`, `MaxIds`, `MaxDeaths`, `MaxCommit`, `MaxText`,
  `MaxAnswer`, `PgLastTime`).  Because time and claims end, most runs have final
  states: `CHECK_DEADLOCK FALSE`, except `delta_progress` and `agents`.
* Symmetry: threads of one process, or processes in `shared_table`, and jobs with equal
  attributes; persons and messages in `components`.  No run with a liveness
  property uses it.

### Fairness

* `JobStore!Fairness`: time passes; a call that has begun goes on (weak); the
  scheduler's loop (`scheduler/scheduler.py`, `run_loop`) calls recovery and
  promotion for ever and waits for a lock that the others take and free, hence
  strong fairness of these calls.  Nothing is assumed of workers.
* `Handoff!HandoffFairness`: processes die only finitely often, of the calls in
  progress some goes on, and some agent calls `checkpoint` again and again.  No
  scheduler is assumed.
* `WorkerPool!PoolFairness`: handlers end, a stopped main thread goes on, and
  so does a tick that has begun: all weak, since after the stop event each thread
  calls the table finitely often.
* `AgentRegistry!AgentFairness`: a live agent beats again and again, a call is not
  killed every time, the reaper's tick comes round, time passes.
* `DeltaContext!FairLoggedSpec`: the reader calls again and again and some of its
  answers arrive.  Nothing is assumed of the writers: they stop because the ledger is
  bounded.  EventuallyCurrent needs every single change to fit the budget; one that
  does not leaves the cursor where it is, with `budget.exhausted`, which
  `tests/unit/test_delta_mcp.py` documents.

## 4. Proofs

The theorems hold for every value of the constants that satisfies the assumptions
named in the modules (`ConstantTypes` and `LimitTypes` of `JobStore`,
`HandoffConstants`, `DeltaConstants`, `ConnConstants`, ...): types, a positive lease,
limits as they are in the code.  TLC evaluates them in the runs.

| theorem | says |
|---|---|
| `JobStoreProofs!TypeCorrect` | rows, ledger entries and calls in progress keep their types |
| `LeasesConsistent` | a job runs exactly while it is leased, and every lease has an end |
| `ResourcesExclusive`, `ActiveKeysUnique` | two running jobs never share a resource, two active ones never a key |
| `TypeLimitsKept` | no more jobs of a type run than its limit |
| `LedgerStaysCurrent` | the newest ledger entry of a job is a snapshot of its row |
| `OneProcessProofs!CallsAreSerial` | where one process works on the table and any others submit, what a call has read still holds when it writes |
| `TransitionsLegal`, `LiveLeasesKept`, `EventsTellStatus`, `DependenciesKept` | the four properties of `one_process` |
| `TableImplementsQueue` | the table on which one process works implements `LeaseQueue` |
| `HandoffProofs!HandoffTypeCorrect`, `HandoffLeases`, `HandoffResources`, `HandoffKeys` | types and the three table invariants with `claim_exact` and the repair |
| `LeasesAsTold` | LeaseAsTold, for the agents of one process |
| `ToolsImplementQueue` | the tools of the agents of one process implement `LeaseQueue`, keep to the diagram and take no live lease |
| `WorkerPoolProofs!AttemptsHandledOnce`, `DeadLettersEarned`, `LeasesWorkedOn` | the three safety properties of `worker_pool`, for any number of daemons |
| `DaemonsUseTable` | every run of the pool is a run of `JobStore` |
| `PoolImplementsQueue`, `PoolKeepsPromises` | one daemon, and any processes that submit, implement `LeaseQueue` and keep the four properties of `one_process` |
| `DeltaContextProofs!CopyFollowsLedger`, `NoSpuriousReset`, `UnchangedIsTrue` | FollowsLedger; no reset without a foreign cursor; "unchanged" is true if every change writes an event |
| `StorageProofs!WritesKept` | WritesAsTold |
| `CopiesAreCommitted` | SnapshotIsCommitted, for any number of pages, log slots and commits |
| `LiveLeasesSpared` | LiveLeaseSpared, if no two threads share a connection (`OwnConnection`) |
| `PgRowsSound` | on Postgres a row runs exactly while it is leased, and no two active rows share a key, on any connections |
| `LocksAreFreed` | on Postgres no lock is left behind and no calls wait for each other, under `OwnConnection` |
| `PgResourcesExclusive` | on Postgres no two running jobs share a resource, if one thread claims (`OneClaimer`) |
| `OnlySilentReaped` | only agents silent for longer than the timeout go offline, if one process keeps the registry (`OneHost`) |
| `BoundaryProofs!ToolsTellTheQueue` | QueueAsTold |
| `NothingAstrayAlone` | where one process has the database for itself no write comes late, so QueueAsTold holds without exception |
| `SetupMerges` | ConfigsMerged |
| `ExternalCopiesAllowed` | CopiesAsAllowed |
| `DecidedAsShown` | AsShown |
| `FusedAsSeen` | ComparedAsSeen |
| `CommandsKept` | CommandsAsAsked |
| `OmissionsTold` | OmissionsVisible |
| `MemoryProofs!MemorySound` | the inductive invariant of the memory tables and of the calls under way |
| `ProvenanceKept`, `Forgotten`, `CapsulesCurrent` | the three properties of `provenance` |
| `OneVersion`, `DisputesReviewed`, `ResolvedWhenShown`, `HistoryUnchanged` | the four properties of `disputes` |
| `HandlersSound` | the inductive invariant of the handlers, with that of the memory |
| `OwnPromptUntold`, `OneContext`, `ChangesFollowTree`, `QuietWhilePaused` | the four properties of `lifecycle` |

**JobStore.**  `StepsOfTable` shows that the actions of `Next` touch the table in six ways
only: an insertion, a claim, a mark, a renewal, a recovery, a promotion
(`TableStep`).  `StatusMoves` reads off what that means for the statuses: only a claim
of a pending job with a free resource makes a job running, and only an insertion or
a mark that the unique index lets pass makes one active.  Each invariant is then
inductive together with `TypeOK`, and its proof looks at the ways, not at twenty
actions.  None of them mentions `window`: this is why they survive any stale read.
`TypeLimitsKept` adds that the set of running jobs of a type grows by the claimed job
only, which counted it before.

**One process.**  The properties that fail for two processes need that what a call has
read is still true when it writes.  `Serial` says so: at most one thread is inside a
locked call, every planned write of the call in progress satisfies what it was
validated on (`StillSo`), and no two submissions have looked up the same absent job.  It is
inductive under `OneWorkingProcess` (the threads that do more than submit are those of
one process, others may submit), because `LockFree` keeps the other threads from the
table between the read and the write, and an insertion changes no row that is there; the two calls without a lock in between
(`submit`, `retry_or_dead_letter`) leave nothing but what the second call checks again.
`StepsOfSerialTable` strengthens the six ways with it (`SerialStep`): a mark is
along a legal edge, a recovery takes expired leases, a promotion parked jobs.  From
there each property is a look at six ways, the action properties without an
induction.  For the refinement each way is a step of `LeaseQueue` or leaves the
mapped state as it is.

**Handoff.**  `StepsOfTools` shows that every step of a tool call is a step of
`JobStore` or one of three writes (`ToolWrite`): the named claim, the repair, the
note.  The named claim and the repair are cases of `StatusMove`, so the lemmas of
`JobStoreProofs` carry over.  The invariant needs that a call which stands at a
step about one task knows which task that is (`FlowTyped`).

What an agent was told of its lease (`LeasesAsTold`) needs the table to be the one it has
read: the agents are those of one process, whose lock makes the calls serial, and the
writes of the tools themselves keep `Serial`.  The invariant (`ToldInv`) adds that
an agent which has begun to hand a task off or to complete it no longer counts on it
(`HandedOff`).  Then a step either leaves a task that somebody counts on as it is, or it
is that agent's, or it settles the task; a claim, a repair or a recovery takes only tasks
that nobody counts on (`NotCountedOn`).  The named claim and the repair are steps of
`LeaseQueue` too (`ToolRefines`), so the tools implement it as the table does
(`ToolsImplementQueue`).  Here every thread is of one process (`SingleProcess`): an
agent may call every tool.

**WorkerPool.**  `PoolStepsOfStore` shows that every step of a daemon is a step of the
table or leaves it alone (a kill is a crash), so `StoreKept` has the table's invariants
from `JobStoreProofs`.  What is added is what the calls in progress know of the rows
they have read (`PlansKnown`: a row about to be inserted is still missing, one about
to be dead-lettered is out of attempts, and stays so because attempts only grow) and
that an executor's attempt is one its job has begun (`HandsKnown`).  A claim then hands
out a larger attempt than any executor has.  An executor's report lets its job go:
the unique index cannot refuse the mark of a running job (`ActiveKeyUnique`), and a job
that is no longer running has no owner (`LeaseConsistent`, in `ReportLetsGo`).

Since the pool takes only steps of the table, every behaviour of it is one of `Spec`
(`DaemonsUseTable`), and what `OneProcessProofs` proves of the table is proved of the pool:
`PoolImplementsQueue` and `PoolKeepsPromises`, where one daemon works on the table and any
number of clients only submit.

**DeltaContext.**  FollowsLedger is not inductive: an answer on its way was made
earlier, for the reader as it was then.  The invariant adds that the page in flight
takes the copy from the state at its base to the state at its revision
(`PageSound`), that the base is the reader's cursor, and, for UnchangedIsTrue, that
the table is what the ledger says (`TableCurrent`), which the silent repair breaks.
That the last item of a page is the largest accepted one is shown with the
well-founded order of the naturals.

**SqliteConnection.**  The invariant (`Holds`) is about the transactions that are still
open: of blocks that have ended they hold both rows or none, so does the savepoint
of the block in progress, and of the call in progress they hold exactly the rows it has
written.  Then a commit, whoever causes it, takes whole blocks to the file.

**ReadOnlySnapshot.**  A copy is taken place by place while the database goes on, so no
invariant can say what it shows.  Places only move on, though: a frame to a later
generation, a page to a later commit (`Leq`, `CopyMovesOn`).  When every place has been
copied, the database as it was at that moment lies between what was copied and what is
there later (`Between`); a second look that finds a place as it was copied finds it as it
was then (`VerifyBetween`).  A capture that verifies is therefore the database of one
moment, and of that `DatabaseInv` says that its frames end with a whole commit.

**Postgres.**  `PgInv` says that a row which a claim or a recovery has selected is locked by
its connection and still as it was selected, and that a row is created once.  It needs
that no two threads share a connection (`OwnConnection`): with a shared one, the commit
of one call gives up the locks of another (section 3, other disagreements), and the run
has threads that do not share one either.

What needs no such assumption is in `PgRowsSound`: `PgTable` adds to the rows' leases and
keys that a call whose update may make a row active again writes one row
(`WritesOneRow`), so the unique index compares it with rows the statement leaves alone,
and a statement that makes rows active is refused or keeps keys unique
(`WriteKeepsTable`).

A refused statement aborts its transaction and gives up no lock.  `LocksAreFreed` rests on
that only submissions, late marks and late releases can be refused, for only they make
a row active that was not, and that these calls hold no row lock (`WriteKeepsLocks`); a
call that has locked rows has locked all it will write (`LocksOwn`) and never waits.
With a shared connection it is not so: a call refused on one thread leaves the rows
locked that another thread's claim had selected, until the process ends.

`PgResourcesExclusive` says when the claim's order is safe.  `Covers` states that what a claim
computed before it locked a row covers all that is held: between, running jobs only become
fewer if nobody else claims.  With a second claiming thread TLC finds two running jobs of
one resource (section 3, other disagreements).

**AgentRegistry.**  With one process, whose lock spans a call's read and write, one call is in
the registry at a time (`OneCall`), so what a reap has selected is still silent when it is
marked (`SilentSelected`; time only makes it more so).  With two processes a heartbeat may
come in between, which FleetIsSeen allows for: the next one brings the agent back.

**EvidenceContract.**  What is kept is the front of an enumeration of the evidence by
importance, then age, of the newest rows the query's limit lets through.  That a finite set has such an enumeration is shown by induction over
sets (the least size without one), after which `Ordered` needs no recursion: what is
dropped from its end is never more important than what stays.  The invariant ties a
response that was sealed to the counts and limits it was built from.

**TaskTools, HostSetup.**  `ToolInv`: a task is created after those it needs, batches
are apart, what `never` was said of is closed or astray, what a batch or a sweep has
written so far is done or astray (`SweptGood`), what a process is about to write is a
task that was created, at the head of its batch if it is an entry (`PlanGood`), and the
pages read so far hold the candidates up to their offset.  Every change of a status is
then along a legal edge or goes into `astray`, and no legal edge leads out of the
closed statuses (`Transitions`).  `NothingAstrayAlone` adds that what a process alone is about to write
stays valid (`StillValid`): `LockFree` keeps its own calls out, and time changes no
status.  `SetupInv`: for a file that is not loose, what its user owns is in what an
installer is about to write; a broken lock can then let a second installer write, but
only the same merge.  An edit in that window makes the file loose.

**ExternalMemory, SessionMemory.**  `ExternalInv` adds that the lock is held exactly
while one thread is in the adapter, timed out or not (`OneThread`), and that an index
call under way carries nothing that was reported deleted since (`Carried`).
`ImportInv` adds that what a person is about to insert is what was shown, that what is
under review was unreviewed, and that ids are never used again.

**Retrieval, MemoryCommands.**  `RetrievalInv`: what a call has read stays with it, and once
it has vectors they are those of the rows its asker could see then.  `CommandInv`: what
was dropped from an answer so far is told in it, a dispute stays told (`CutSoFar`), and
the list by which the door opens copies fits what the handlers behind it may change
(`DoorFitsHandler`).

**Memory.**  Deleting is what makes this hard: forgetting, pruning, compacting, clearing and
deleting an artifact each take along what derives from what is gone.  What they leave is
the same for all of them (`Trims`: rows and artifacts only go, survivors keep their
period, and an open dispute that lost a side leaves nothing active on the other), so it
is shown once for artifacts and rows and holds for every composition of deletions
(`TrimsTwice`).  The inductive invariant `MemInv` has four parts:

* the tables (`TablesOK`): sources are there unless their link was cut (`Grounded`), an
  active artifact was accepted and nothing was cut of all it stands on (`Accepted`), of two versions the
  old one ends before the new one begins (`Versioned`), relations join artifacts that
  are there and no two have one key (`Joined`), identifiers are numbered in the order they
  were given (`Numbered`);
* the history (`HistoryOK`): what was forgotten is in no row, no capsule and nothing
  concluded from it;
* the calls under way (`Waiting`): an identifier that was built and not inserted is used
  nowhere, and by no second call; what a call has read still holds or the call is no
  longer `fresh`;
* the search index holds rows that are there (`IndexOK`).

Derived artifacts and ancestors are closures that recursive functions compute.  What the
proofs use of them is that they are the least sets closed under the links
(`Closure`, `DerivedClosed`, `AncestorsClosed`): the iteration stops because the
artifacts are finite.  That is an induction over natural numbers, done with sets: the set
of numbers for which a claim fails has a least member (`LeastNumber`, from the
well-foundedness of the order in the library), since the library's induction rule takes an
operator as a parameter.

**Lifecycle.**  `HookInv` is `MemInv` and, for each handler, that it makes a suffix of its
calls (`Left`), that it stored something of its prompt only once nothing but the last
call is left (`Last`), that what it is about to insert as a marker is the marker of its own
request, and that rows it was told of were given before and belong to no call that could
take them back (`ToldOK`).  A step of one handler moves its own call only (`Framed`).
So what a handler stores was not told, and a context is given only by the call whose
insert found no marker of the request.  For ChangesTold it adds that the snapshot and the
latest stored change agree (`NoChangeLost`): a capture compares and writes both in one
transaction.

Assumptions on constants are those of the code: observations and artifacts are finite
and disjoint sets of identifiers, limits are positive, `None` is no number and no status
(`MemoryConstants`); a log has whole commits (`SnapConstants`).

Only model-checked:

* every liveness property (ExpiredLeaseRecovered, ExpiredLeaseReturned, EventuallyCurrent,
  StopDrains, FleetIsSeen): fairness and ENABLED are beyond the prover;
* LeaseAsTold for agents of several processes, and LiveLeaseSpared for threads that share a
  connection, are not theorems because they do not hold: with `ProcessOf` (`ConnOf`) changed
  so, TLC finds a lease that does not stand as it was told, and a claim that returns a row it
  has not leased, because another thread's commit gave up its lock and the row was marked;
* that Postgres implements `LeaseQueue` is no theorem either: its marks go by the id, and a
  late one settles a job that was recovered and claimed by somebody else.

## 5. Not modelled

* Dashboard, reports, export, diagnostics and the AMB adapter: they read and format;
  redaction (`privacy.py`) is text patterns.  `api/ai_handlers.py` are examples.
* `JobStore`: job deletion is in `DeltaContext` and `TaskTools`; statistics only read; errors of the database itself.
* Postgres: its agent registry and events mirror SQLite's; dependencies and type
  limits are checked as in SQLite.
* SQLite: the busy timeout, `VACUUM` and compaction's rewriting of pages.
* Handoff: the agent's registration, which no guard of these calls reads, and the
  fitting of `sync_workspace`'s rows to a budget.
* Memory: what rows say (text matching, hashes, scores), counterexample counts, the
  cursors that bound a scan of capsules, the migration of old tables.
* Hooks: how `auto_hook.py` translates each host's events; the sidecar's interval.
* Retrieval: floating point and the tokeniser.  Host setup: where each host keeps
  its files.  Command line: listing and formatting.
