---------------------------- MODULE HandoffProofs ----------------------------
(***************************************************************************)
(* Proofs about Handoff, for any agents, tasks and processes: the tools    *)
(* write to the job table in two ways the other callers do not, and what   *)
(* holds of the table holds with them too.  For the agents of one process, *)
(* what a tool told an agent of its lease stays so.                        *)
(***************************************************************************)
EXTENDS Handoff, OneProcessProofs

-----------------------------------------------------------------------------
(* What a step does to the table *)

NamedClaim(a, j) ==
    /\ jobs[j].status = "pending"
    /\ ~ResourceHeld(j)
    /\ jobs[j].attempt < MaxClaims
    /\ jobs' = [jobs EXCEPT ![j] = Leased(@, a)]
    /\ Log({j}, "job_claimed")

Repairs ==
    /\ jobs' = [j \in Job |-> IF NullRetry(j) THEN [jobs[j] EXCEPT !.status = "pending"]
                                              ELSE jobs[j]]
    /\ UNCHANGED ledger

Notes(j) == jobs' = jobs /\ Log({j}, "handoff_recorded")

\* What the tools write themselves; whatever else they do, JobStore does.
ToolWrite ==
    /\ UNCHANGED <<window, clock>>
    /\ \E a \in Agent : LockFree(a)
    /\ \/ \E a \in Agent, j \in Job : NamedClaim(a, j)
       \/ Repairs
       \/ \E j \in Job : Notes(j)

\* The steps of a tool call that are about one task.
OfTask == {"insert", "claim", "renew", "renewing",
           "complete", "completing", "release", "releasing", "note"}

FlowTyped ==
    /\ flow \in [Agent -> Flow]
    /\ \A a \in Agent : flow[a].at \in OfTask => flow[a].job \in Job

LeaseTyped == lease \in [Agent -> [Job -> Time]]

LEMMA FlowGoes ==
    ASSUME FlowTyped, NEW a \in Agent, NEW s \in Step, Goes(a, s),
           s \in OfTask => flow[a].job \in Job
    PROVE  FlowTyped'
<1> DEFINE next == [flow[a] EXCEPT !.at = s]
<1>1. next \in Flow /\ next.at = s /\ next.job = flow[a].job
  BY DEF FlowTyped, Flow
<1>2. flow' = [flow EXCEPT ![a] = next]
  BY DEF Goes
<1> HIDE DEF next
<1>3. QED
  BY <1>1, <1>2 DEF FlowTyped

LEMMA FlowGoesWith ==
    ASSUME FlowTyped, NEW a \in Agent, NEW s \in Step, NEW j \in Job, GoesWith(a, s, j)
    PROVE  FlowTyped'
<1> DEFINE next == [flow[a] EXCEPT !.at = s, !.job = j]
<1>1. next \in Flow /\ next.job = j
  BY DEF FlowTyped, Flow
<1>2. flow' = [flow EXCEPT ![a] = next]
  BY DEF FlowTyped, GoesWith, Flow
<1> HIDE DEF next
<1>3. QED
  BY <1>1, <1>2 DEF FlowTyped

LEMMA FreeTyped == Free \in Flow /\ Free.at \notin OfTask
BY DEF Free, Flow, Step, OfTask

LEMMA FlowFree ==
    ASSUME FlowTyped, NEW a \in Agent, flow' = [flow EXCEPT ![a] = Free]
    PROVE  FlowTyped'
BY FreeTyped DEF FlowTyped

LEMMA LeaseOwned ==
    ASSUME TypeOK, FlowTyped, LeaseTyped, NEW a \in Agent, NEW j \in Job,
           AnswersOwned(a, j)
    PROVE  FlowTyped' /\ LeaseTyped'
<1>1. clock + Lease \in Time
  BY ConstantTypes DEF TypeOK, Time
<1>2. lease' = [lease EXCEPT ![a] = [lease[a] EXCEPT ![j] = clock + Lease]]
  BY DEF AnswersOwned
<1>3. [lease[a] EXCEPT ![j] = clock + Lease] \in [Job -> Time]
  BY <1>1 DEF LeaseTyped
<1>4. LeaseTyped'
  BY <1>2, <1>3 DEF LeaseTyped
<1>5. QED
  BY <1>4, FlowFree DEF AnswersOwned

\* Every step is a step of JobStore or a write of the tools, and leaves the
\* tool calls well formed.
LEMMA StepsOfTools ==
    ASSUME TypeOK, FlowTyped, LeaseTyped, [HandoffNext]_hvars
    PROVE  /\ [Next]_vars \/ ToolWrite
           /\ FlowTyped' /\ LeaseTyped'
<1> DEFINE Goal == ([Next]_vars \/ ToolWrite) /\ FlowTyped' /\ LeaseTyped'
<1> USE DEF Agent
<1>a. ASSUME UNCHANGED lease PROVE LeaseTyped'
  BY <1>a DEF LeaseTyped
<1>b. ASSUME NEW a \in Agent, Answers(a) PROVE FlowTyped' /\ LeaseTyped'
  BY <1>a, <1>b, FlowFree DEF Answers
<1>c. ASSUME NEW a \in Agent, NEW j \in Job, JobStep(a, j) PROVE [Next]_vars
  BY <1>c DEF Next
<1>d. ASSUME NEW a \in Agent, SchedulerStep(a) PROVE [Next]_vars
  BY <1>d DEF Next
<1>e. ASSUME UNCHANGED vars PROVE [Next]_vars
  BY <1>e
<1>1. ASSUME NEW a \in Agent, NEW k \in Key, Checkpoint(a, k) PROVE Goal
  <2>1. [at |-> "recover", key |-> k, job |-> None] \in Flow /\ "recover" \notin OfTask
    BY DEF Flow, Step, OfTask
  <2>2. FlowTyped'
    BY <1>1, <2>1 DEF Checkpoint, FlowTyped
  <2>3. UNCHANGED <<vars, lease>>
    BY <1>1 DEF Checkpoint
  <2>4. QED
    BY <1>a, <1>e, <2>2, <2>3
<1>2. ASSUME NEW a \in Agent, Recover(a) PROVE Goal
  <2>1. UNCHANGED lease
    BY <1>2 DEF Recover
  <2>2. Goes(a, "recovering") \/ Goes(a, "repair")
    BY <1>2 DEF Recover
  <2>3. FlowTyped'
    BY <2>2, FlowGoes DEF Step, OfTask
  <2>4. SchedulerStep(a) \/ UNCHANGED vars
    BY <1>2 DEF Recover, SchedulerStep, RecoverExpiredLeases
  <2>5. QED
    BY <1>a, <1>d, <1>e, <2>1, <2>3, <2>4
<1>3. ASSUME NEW a \in Agent, RecoverNullRetries(a) PROVE Goal
  <2>1. ToolWrite
    BY <1>3 DEF RecoverNullRetries, ToolWrite, Repairs
  <2>2. FlowTyped'
    BY <1>3, FlowGoes DEF RecoverNullRetries, Step, OfTask
  <2>3. QED
    BY <1>3, <1>a, <2>1, <2>2 DEF RecoverNullRetries
<1>4. ASSUME NEW a \in Agent, FindTask(a) PROVE Goal
  <2>1. \/ \E j \in Job : GoesWith(a, "claim", j) /\ UNCHANGED lease
        \/ Answers(a)
    BY <1>4 DEF FindTask
  <2>2. FlowTyped' /\ LeaseTyped'
    BY <1>a, <1>b, <2>1, FlowGoesWith DEF Step
  <2>3. QED
    BY <1>4, <1>e, <2>2 DEF FindTask
<1>5. ASSUME NEW a \in Agent, Submit(a) PROVE Goal
  <2>1. ASSUME NEW j \in Job, SubmitLookup(a, j), GoesWith(a, "insert", j),
               UNCHANGED lease
        PROVE  Goal
    BY <1>a, <1>c, <2>1, FlowGoesWith DEF JobStep, Step
  <2>2. ASSUME At(a, "insert"), CreateJob(a, flow[a].job),
               Goes(a, "find") \/ Goes(a, "claim"), UNCHANGED lease
        PROVE  Goal
    <3>1. flow[a].job \in Job
      BY <2>2 DEF FlowTyped, At, OfTask
    <3>2. FlowTyped'
      BY <2>2, <3>1, FlowGoes DEF Step
    <3>3. [Next]_vars
      BY <1>c, <2>2, <3>1 DEF JobStep
    <3>4. QED
      BY <1>a, <2>2, <3>2, <3>3
  <2>3. ASSUME Answers(a), UNCHANGED vars PROVE Goal
    BY <1>b, <1>e, <2>3
  <2>4. QED
    BY <1>5, <2>1, <2>2, <2>3 DEF Submit
<1>6. ASSUME NEW a \in Agent, ClaimExact(a) PROVE Goal
  <2>1. flow[a].job \in Job
    BY <1>6 DEF ClaimExact, FlowTyped, At, OfTask
  <2>2. CASE Goes(a, "renew") /\ UNCHANGED <<vars, lease>>
    BY <1>a, <1>e, <2>1, <2>2, FlowGoes DEF Step
  <2>3. CASE Answers(a) /\ UNCHANGED vars
    BY <1>b, <1>e, <2>3
  <2>4. CASE /\ NamedClaim(a, flow[a].job)
             /\ AnswersOwned(a, flow[a].job)
             /\ LockFree(a)
             /\ UNCHANGED <<window, clock>>
    <3>1. ToolWrite
      BY <2>1, <2>4 DEF ToolWrite
    <3>2. QED
      BY <2>1, <2>4, <3>1, LeaseOwned
  <2>5. QED
    BY <1>6, <2>2, <2>3, <2>4 DEF ClaimExact, NamedClaim
<1>7. ASSUME NEW a \in Agent, Renew(a) PROVE Goal
  <2>1. flow[a].job \in Job
    BY <1>7 DEF Renew, FlowTyped, At, OfTask
  <2>2. CASE BeginHeartbeat(a, flow[a].job) /\ Goes(a, "renewing") /\ UNCHANGED lease
    <3>1. FlowTyped'
      BY <2>1, <2>2, FlowGoes DEF Step
    <3>2. [Next]_vars
      BY <1>c, <2>1, <2>2 DEF JobStep, Heartbeat
    <3>3. QED
      BY <1>a, <2>2, <3>1, <3>2
  <2>3. CASE Answers(a) /\ UNCHANGED vars
    BY <1>b, <1>e, <2>3
  <2>4. CASE CommitHeartbeat(a, flow[a].job) /\ AnswersOwned(a, flow[a].job)
    <3>1. [Next]_vars
      BY <1>c, <2>1, <2>4 DEF JobStep, Heartbeat
    <3>2. QED
      BY <2>1, <2>4, <3>1, LeaseOwned
  <2>5. QED
    BY <1>7, <2>2, <2>3, <2>4 DEF Renew
<1>8. ASSUME NEW a \in Agent, NEW j \in Job, NEW completed \in BOOLEAN,
             Handoff(a, j, completed)
      PROVE  Goal
  <2>1. \E s \in Step : GoesWith(a, s, j)
    BY <1>8 DEF Handoff, Step
  <2>2. FlowTyped'
    BY <2>1, FlowGoesWith
  <2>3. 0 \in Time /\ lease' = [lease EXCEPT ![a] = [lease[a] EXCEPT ![j] = 0]]
    BY <1>8 DEF Handoff, Time
  <2>4. LeaseTyped'
    BY <2>3 DEF LeaseTyped
  <2>5. QED
    BY <1>8, <1>e, <2>2, <2>4 DEF Handoff
<1>9. ASSUME NEW a \in Agent, Complete(a) PROVE Goal
  <2>1. flow[a].job \in Job
    BY <1>9 DEF Complete, FlowTyped, At, OfTask
  <2>2. FlowTyped'
    <3>1. Goes(a, "completing") \/ flow' = [flow EXCEPT ![a] = Free]
      BY <1>9 DEF Complete
    <3>2. QED
      BY <2>1, <3>1, FlowGoes, FlowFree DEF Step
  <2>3. JobStep(a, flow[a].job) \/ UNCHANGED vars
    BY <1>9 DEF Complete, JobStep, MarkSucceeded
  <2>4. QED
    BY <1>9, <1>a, <1>c, <1>e, <2>1, <2>2, <2>3 DEF Complete
<1>10. ASSUME NEW a \in Agent, Release(a) PROVE Goal
  <2>1. flow[a].job \in Job
    BY <1>10 DEF Release, FlowTyped, At, OfTask
  <2>2. FlowTyped'
    <3>1. Goes(a, "releasing") \/ flow' = [flow EXCEPT ![a] = Free]
      BY <1>10 DEF Release
    <3>2. QED
      BY <2>1, <3>1, FlowGoes, FlowFree DEF Step
  <2>3. JobStep(a, flow[a].job) \/ UNCHANGED vars
    BY <1>10 DEF Release, JobStep, ReleaseJob
  <2>4. QED
    BY <1>10, <1>a, <1>c, <1>e, <2>1, <2>2, <2>3 DEF Release
<1>11. ASSUME NEW a \in Agent, Note(a) PROVE Goal
  <2>1. flow[a].job \in Job
    BY <1>11 DEF Note, FlowTyped, At, OfTask
  <2>2. ToolWrite
    BY <1>11, <2>1 DEF Note, ToolWrite, Notes
  <2>3. QED
    BY <1>11, <1>b, <2>2 DEF Note
<1>12. ASSUME NEW p \in Process, Stop(p) PROVE Goal
  <2>1. [Next]_vars
    <3>1. CASE \E t \in Thread : ProcessOf[t] = p /\ window[t] # Idle
      BY <1>12, <3>1 DEF Stop, Crash, Next
    <3>2. CASE \A t \in Thread : ProcessOf[t] = p => window[t] = Idle
      BY <1>12, <3>2 DEF Stop, vars, TypeOK
    <3>3. QED
      BY <3>1, <3>2
  <2>2. FlowTyped'
    <3>1. flow' = [a \in Agent |-> IF ProcessOf[a] = p THEN Free ELSE flow[a]]
      BY <1>12 DEF Stop
    <3>2. QED
      BY <3>1, FreeTyped DEF FlowTyped
  <2>3. LeaseTyped'
    <3>1. lease' = [a \in Agent |-> IF ProcessOf[a] = p THEN [j \in Job |-> 0]
                                                        ELSE lease[a]]
      BY <1>12 DEF Stop
    <3>2. [j \in Job |-> 0] \in [Job -> Time]
      BY DEF Time
    <3>3. QED
      BY <3>1, <3>2 DEF LeaseTyped
  <2>4. QED
    BY <2>1, <2>2, <2>3
<1>13. CASE Elapse
  <2>1. \A a \in Agent, j \in Job :
           (IF lease[a][j] <= clock' THEN 0 ELSE lease[a][j]) \in Time
    BY DEF LeaseTyped, Time
  <2>2. LeaseTyped'
    BY <1>13, <2>1 DEF Elapse, LeaseTyped
  <2>3. FlowTyped'
    BY <1>13 DEF Elapse, FlowTyped
  <2>4. QED
    BY <1>13, <2>2, <2>3 DEF Elapse, Next
<1>14. CASE UNCHANGED hvars
  BY <1>14, <1>a, <1>e DEF hvars, FlowTyped
<1>15. QED
  BY <1>1, <1>2, <1>3, <1>4, <1>5, <1>6, <1>7, <1>8, <1>9, <1>10, <1>11, <1>12, <1>13,
     <1>14 DEF HandoffNext, AgentStep

-----------------------------------------------------------------------------
(* What the writes of the tools do *)

\* A named claim moves one pending job with a free resource to running, the
\* repair moves waiting retries, which are active, to pending.
LEMMA ToolMoves == ASSUME TypeOK, ToolWrite PROVE StatusMove
<1>1. ASSUME NEW a \in Agent, NEW j \in Job, NamedClaim(a, j)
      PROVE  /\ jobs[j].status = "pending" /\ ~ResourceHeld(j)
             /\ jobs'[j].status = "running"
             /\ \A k \in Job \ {j} : jobs'[k].status = jobs[k].status
  BY <1>1 DEF NamedClaim, Leased, TypeOK, Row
<1>2. ASSUME Repairs
      PROVE  \A k \in Job :
                \/ jobs'[k].status = jobs[k].status
                \/ /\ jobs[k].status \in ActiveStatuses
                   /\ jobs'[k].status \in ActiveStatuses \ {"running"}
  <2>1. \A k \in Job : \/ jobs'[k] = jobs[k]
                       \/ /\ jobs[k].status = "retry_scheduled"
                          /\ jobs'[k].status = "pending"
    BY <1>2 DEF Repairs, NullRetry, TypeOK, Row
  <2>2. QED
    BY <2>1 DEF ActiveStatuses
<1>3. ASSUME NEW j \in Job, Notes(j)
      PROVE  \A k \in Job : jobs'[k].status = jobs[k].status
  BY <1>3 DEF Notes
<1>4. QED
  BY <1>1, <1>2, <1>3 DEF ToolWrite, StatusMove

LEMMA ToolTypes == ASSUME TypeOK, ToolWrite PROVE TypeOK'
<1> USE ConstantTypes DEF TypeOK, Time
<1>1. ASSUME NEW a \in Agent, NEW j \in Job, NamedClaim(a, j)
      PROVE  jobs' \in [Job -> Row] /\ ledger' \in [Job -> Revision]
  <2>1. jobs[j] \in Row /\ jobs[j].attempt + 1 \in 0..MaxClaims /\ clock + Lease \in Nat
    BY <1>1 DEF NamedClaim, Row
  <2>2. Leased(jobs[j], a) \in Row
    BY <2>1 DEF Leased, Row, Status, Agent
  <2>3. jobs' \in [Job -> Row]
    BY <1>1, <2>2 DEF NamedClaim
  <2>4. QED
    BY <1>1, <2>3, LogTypes DEF NamedClaim, Event
<1>2. ASSUME Repairs PROVE jobs' \in [Job -> Row] /\ ledger' \in [Job -> Revision]
  <2>1. \A row \in Row : [row EXCEPT !.status = "pending"] \in Row
    BY DEF Row, Status
  <2>2. QED
    BY <1>2, <2>1 DEF Repairs
<1>3. ASSUME NEW j \in Job, Notes(j)
      PROVE  jobs' \in [Job -> Row] /\ ledger' \in [Job -> Revision]
  BY <1>3, LogTypes DEF Notes, Event
<1>4. window' \in [Thread -> Window] /\ clock' \in Time
  BY DEF ToolWrite
<1>5. QED
  BY <1>1, <1>2, <1>3, <1>4 DEF ToolWrite

LEMMA ToolLease ==
    ASSUME TypeOK, LeaseConsistent, ToolWrite PROVE LeaseConsistent'
<1> USE DEF LeaseConsistent, Running
<1>1. ASSUME NEW a \in Agent, NEW j \in Job, NamedClaim(a, j) PROVE LeaseConsistent'
  <2>1. a # None /\ clock + Lease # None
    BY ConstantTypes DEF TypeOK, Time, Agent
  <2>2. /\ jobs'[j].status = "running" /\ jobs'[j].owner = a
        /\ jobs'[j].expires = clock + Lease
    BY <1>1 DEF NamedClaim, Leased, TypeOK, Row
  <2>3. \A k \in Job \ {j} : jobs'[k] = jobs[k]
    BY <1>1 DEF NamedClaim, TypeOK
  <2>4. QED
    BY <2>1, <2>2, <2>3
<1>2. ASSUME Repairs PROVE LeaseConsistent'
  <2>1. \A k \in Job : \/ jobs'[k] = jobs[k]
                       \/ /\ jobs[k].status # "running" /\ jobs'[k].status # "running"
                          /\ jobs'[k].owner = jobs[k].owner
                          /\ jobs'[k].expires = jobs[k].expires
    BY <1>2 DEF Repairs, NullRetry, TypeOK, Row
  <2>2. ASSUME NEW k \in Job
        PROVE  /\ jobs'[k].status = "running" <=> jobs'[k].owner # None
               /\ jobs'[k].owner # None <=> jobs'[k].expires # None
    <3>1. /\ jobs[k].status = "running" <=> jobs[k].owner # None
          /\ jobs[k].owner # None <=> jobs[k].expires # None
      OBVIOUS
    <3>2. QED
      BY <2>1, <3>1
  <2>3. QED
    BY <2>2
<1>3. ASSUME NEW j \in Job, Notes(j) PROVE LeaseConsistent'
  BY <1>3 DEF Notes
<1>4. QED
  BY <1>1, <1>2, <1>3 DEF ToolWrite

-----------------------------------------------------------------------------
(* The theorems *)

HandoffInv == TypeOK /\ FlowTyped /\ LeaseTyped

LEMMA HandoffInvariant == HandoffSpec => []HandoffInv
<1>1. HandoffInit => HandoffInv
  <2>1. Init => TypeOK
    <3>1. Snapshot("none", NoRow) \in Revision
      BY RowTypes DEF Event
    <3>2. QED
      BY <3>1, RowTypes DEF Init, TypeOK, Idle, Window, Time
  <2>2. HandoffInit => FlowTyped /\ LeaseTyped
    <3>1. 0 \in Time
      BY DEF Time
    <3>2. QED
      BY <3>1, FreeTyped DEF HandoffInit, FlowTyped, LeaseTyped
  <2>3. QED
    BY <2>1, <2>2 DEF HandoffInit, HandoffInv
<1>2. HandoffInv /\ [HandoffNext]_hvars => HandoffInv'
  <2>1. ASSUME TypeOK, [Next]_vars PROVE TypeOK'
    BY <2>1, StepsOfTable, TableTypes, WindowTypes DEF TypeOK
  <2>2. QED
    BY <2>1, StepsOfTools, ToolTypes DEF HandoffInv
<1>3. QED
  BY <1>1, <1>2, PTL DEF HandoffSpec

\* The rows, the tool calls and what the agents were told keep their types.
THEOREM HandoffTypeCorrect == HandoffSpec => []HandoffTypeOK
<1>1. HandoffInv => HandoffTypeOK
  BY DEF HandoffInv, HandoffTypeOK, FlowTyped, LeaseTyped
<1>2. QED
  BY <1>1, HandoffInvariant, PTL

\* The tools keep every job that runs under a lease, and every lease on a job
\* that runs, although claim_exact and the repair are written apart from the
\* calls of QueueService.
THEOREM HandoffLeases == HandoffSpec => []LeaseConsistent
<1>1. HandoffInit => LeaseConsistent
  BY DEF HandoffInit, Init, NoRow, LeaseConsistent, Running
<1>2. HandoffInv /\ LeaseConsistent /\ [HandoffNext]_hvars => LeaseConsistent'
  BY StepsOfTools, StepsOfTable, LeaseStep, ToolLease DEF HandoffInv
<1>3. QED
  BY <1>1, <1>2, HandoffInvariant, PTL DEF HandoffSpec

\* Two tasks of one resource are never worked on at once.
THEOREM HandoffResources == HandoffSpec => []ResourceExclusive
<1>1. HandoffInit => ResourceExclusive
  BY DEF HandoffInit, Init, NoRow, ResourceExclusive, Running
<1>2. HandoffInv /\ ResourceExclusive /\ [HandoffNext]_hvars => ResourceExclusive'
  BY StepsOfTools, StepsOfTable, StatusMoves, ToolMoves, ResourceMove DEF HandoffInv
<1>3. QED
  BY <1>1, <1>2, HandoffInvariant, PTL DEF HandoffSpec

\* The tasks one checkpoint key names are never active two at a time.
THEOREM HandoffKeys == HandoffSpec => []ActiveKeyUnique
<1>1. HandoffInit => ActiveKeyUnique
  BY DEF HandoffInit, Init, NoRow, ActiveKeyUnique, ActiveStatuses
<1>2. HandoffInv /\ ActiveKeyUnique /\ [HandoffNext]_hvars => ActiveKeyUnique'
  BY StepsOfTools, StepsOfTable, StatusMoves, ToolMoves, KeyMove DEF HandoffInv
<1>3. QED
  BY <1>1, <1>2, HandoffInvariant, PTL DEF HandoffSpec
-----------------------------------------------------------------------------
(* What an agent was told, when the agents are those of one process *)

SingleProcess == \A t, u \in Thread : ProcessOf[t] = ProcessOf[u]

\* The writes of the tools find nobody inside a call, and leave alone what the
\* others have read.
LEMMA ToolKeepsSerial ==
    ASSUME TypeOK, Serial, SingleProcess, ToolWrite PROVE Serial'
<1> USE DEF TypeOK, Agent
<1>1. window' = window /\ clock' = clock /\ \A u \in Thread : ~Inside(u)
  BY DEF ToolWrite, LockFree, SingleProcess, Inside
<1>2. \A j \in Job : jobs[j].status = "absent" => jobs'[j].status = "absent"
  BY DEF ToolWrite, NamedClaim, Repairs, Notes, NullRetry
<1>3. ASSUME NEW u \in Thread PROVE StillSo(u, window[u].op, window[u].plan)'
  <2>1. /\ StillSo(u, window[u].op, window[u].plan)
        /\ window[u].op \notin MarkOps \cup {"release", "heartbeat", "recover", "promote"}
    BY <1>1 DEF Serial, Inside, LockedOps, MarkOps
  <2>2. QED
    BY <1>1, <1>2, <2>1 DEF StillSo
<1>4. QED
  BY <1>1, <1>3 DEF Serial, Inside

LEMMA SerialTools ==
    ASSUME TypeOK, FlowTyped, LeaseTyped, Serial, SingleProcess, [HandoffNext]_hvars
    PROVE  Serial'
<1>1. CASE ToolWrite
  BY <1>1, ToolKeepsSerial
<1>2. CASE [Next]_vars
  <2>1. UNCHANGED vars => Serial'
    BY DEF vars, Serial, Inside, StillSo, HoldsLease, LeaseExpired, Running
  <2>2. QED
    BY <1>2, <2>1, SerialInvariant DEF SingleProcess, OneWorkingProcess
<1>3. QED
  BY <1>1, <1>2, StepsOfTools

Over == {"succeeded", "archived"}

\* What LeaseAsTold says of one agent and task.
ToldTruly(b, k) ==
    lease[b][k] > clock =>
        \/ HoldsLease(b, k) /\ jobs[k].expires >= lease[b][k]
        \/ jobs[k].status \in Over

\* An agent that hands a task off, or completes it, does not count on it any more.
HandedOff ==
    \A a \in Agent : flow[a].at \in {"complete", "completing", "release", "releasing"}
                        => lease[a][flow[a].job] = 0

\* The agent was told nothing new, and the task is as it was, is over, or was not
\* counted on.
LEMMA StaysTrue ==
    ASSUME LeaseTyped, clock \in Nat, NEW b \in Agent, NEW k \in Job, ToldTruly(b, k),
           lease'[b][k] \in {0, lease[b][k]}, clock' \in Nat, clock' >= clock,
           \/ jobs'[k] = jobs[k]
           \/ jobs'[k].status \in Over
           \/ lease[b][k] <= clock
    PROVE  ToldTruly(b, k)'
<1>1. lease[b][k] \in Nat
  BY DEF LeaseTyped, Time
<1>2. CASE lease'[b][k] > clock'
  <2>1. lease'[b][k] = lease[b][k] /\ lease[b][k] > clock
    BY <1>1, <1>2
  <2>2. QED
    BY <1>1, <2>1 DEF ToldTruly, HoldsLease, Running
<1>3. QED
  BY <1>2 DEF ToldTruly

\* Nobody counts on a task that is open, expired or another's.
LEMMA NotCountedOn ==
    ASSUME TypeOK, LeaseTyped, NEW b \in Agent, NEW k \in Job, ToldTruly(b, k),
           \/ ~Running(k) /\ jobs[k].status \notin Over
           \/ LeaseExpired(k)
           \/ Running(k) /\ jobs[k].owner # b
    PROVE  lease[b][k] <= clock
<1>1. lease[b][k] \in Nat /\ clock \in Nat /\ jobs[k] \in Row
  BY DEF LeaseTyped, TypeOK, Time
<1>2. Running(k) => jobs[k].status \notin Over
  BY DEF Running, Over
<1>3. LeaseExpired(k) => Running(k) /\ jobs[k].expires \in Nat /\ jobs[k].expires <= clock
  BY <1>1 DEF LeaseExpired, Row, Time
<1>4. QED
  BY <1>1, <1>2, <1>3 DEF ToldTruly, HoldsLease

ToldInv == HandoffInv /\ Serial /\ HandedOff /\ \A b \in Agent, k \in Job : ToldTruly(b, k)

\* A step that tells nobody anything new.
LEMMA NothingTold ==
    ASSUME ToldInv, \A b \in Agent, k \in Job : lease'[b][k] \in {0, lease[b][k]},
           clock' \in Nat, clock' >= clock,
           NEW b \in Agent, NEW k \in Job,
           jobs'[k] = jobs[k] \/ jobs'[k].status \in Over \/ lease[b][k] <= clock
    PROVE  ToldTruly(b, k)'
BY StaysTrue DEF ToldInv, HandoffInv, TypeOK, Time

\* Own tasks, by what the calls have read.
LEMMA OwnTask ==
    ASSUME ToldInv, NEW a \in Agent, NEW j \in Job, NEW to \in Status,
           <<j, to>> \in window[a].plan, window[a].op \in {"release", "heartbeat"}
    PROVE  Running(j) /\ jobs[j].owner = a
BY DEF ToldInv, Serial, StillSo, HoldsLease, Agent

\* Another agent does not count on a task that this one holds.
LEMMA OthersDoNot ==
    ASSUME ToldInv, NEW a \in Agent, NEW j \in Job, Running(j), jobs[j].owner = a,
           NEW b \in Agent \ {a}
    PROVE  lease[b][j] <= clock
BY NotCountedOn DEF ToldInv, HandoffInv

\* A task claimed or renewed: who did it is told the truth, and nobody else counts on it.
LEMMA ToldNow ==
    ASSUME ToldInv, NEW a \in Agent, NEW j \in Job,
           lease' = [lease EXCEPT ![a][j] = clock + Lease], clock' = clock,
           HoldsLease(a, j)', jobs'[j].expires = clock + Lease,
           \A k \in Job \ {j} : jobs'[k] = jobs[k],
           \A b \in Agent \ {a} : lease[b][j] <= clock
    PROVE  \A b \in Agent, k \in Job : ToldTruly(b, k)'
<1> USE ConstantTypes DEF ToldInv, HandoffInv, LeaseTyped, TypeOK, Time
<1>1. /\ clock + Lease \in Nat
      /\ lease'[a][j] = clock + Lease
      /\ \A b \in Agent, k \in Job : b # a \/ k # j => lease'[b][k] = lease[b][k]
  OBVIOUS
<1>2. ToldTruly(a, j)'
  BY <1>1 DEF ToldTruly
<1>3. ASSUME NEW b \in Agent, NEW k \in Job, b # a \/ k # j PROVE ToldTruly(b, k)'
  BY <1>1, <1>3, StaysTrue
<1>4. QED
  BY <1>2, <1>3

LEMMA TruthKept ==
    ASSUME ToldInv, SingleProcess, [HandoffNext]_hvars
    PROVE  \A b \in Agent, k \in Job : ToldTruly(b, k)'
<1> DEFINE Goal == \A b \in Agent, k \in Job : ToldTruly(b, k)'
           Left(k) == \/ jobs'[k] = jobs[k]
                      \/ jobs'[k].status \in Over
                      \/ ~Running(k) /\ jobs[k].status \notin Over
                      \/ LeaseExpired(k)
<1> USE DEF Agent
<1>0. HandoffInv /\ TypeOK /\ FlowTyped /\ LeaseTyped /\ Serial /\ clock \in Nat /\ clock >= clock
  BY DEF ToldInv, HandoffInv, TypeOK, Time
<1>a. ASSUME \A k \in Job : Left(k), UNCHANGED <<lease, clock>> PROVE Goal
  <2>1. ASSUME NEW b \in Agent, NEW k \in Job
        PROVE  jobs'[k] = jobs[k] \/ jobs'[k].status \in Over \/ lease[b][k] <= clock
    BY <1>0, <1>a, NotCountedOn DEF ToldInv
  <2>2. QED
    BY <1>0, <1>a, <2>1, NothingTold
<1>b. ASSUME UNCHANGED <<jobs, lease, clock>> PROVE Goal
  BY <1>a, <1>b
<1>1. ASSUME NEW a \in Agent, NEW k \in Key, Checkpoint(a, k) PROVE Goal
  BY <1>1, <1>b DEF Checkpoint, vars
<1>2. ASSUME NEW a \in Agent, Recover(a) PROVE Goal
  <2>1. CASE CommitRecover(a)
    <3>1. UNCHANGED <<lease, clock>>
      BY <1>2, <2>1 DEF Recover, CommitRecover
    <3>2. ASSUME NEW k \in Job PROVE Left(k)
      <4>1. jobs'[k] = jobs[k] \/ <<k, "pending">> \in window[a].plan \/ <<k, "retry_scheduled">> \in window[a].plan
        BY <2>1 DEF CommitRecover
      <4>2. StillSo(a, "recover", window[a].plan)
        BY <1>0, <2>1 DEF CommitRecover, Serial
      <4>3. QED
        BY <4>1, <4>2 DEF StillSo, Status
    <3>3. QED
      BY <1>a, <3>1, <3>2
  <2>2. CASE ~CommitRecover(a)
    BY <1>2, <1>b, <2>2 DEF Recover, BeginRecover, Begin, vars
  <2>3. QED
    BY <2>1, <2>2
<1>3. ASSUME NEW a \in Agent, RecoverNullRetries(a) PROVE Goal
  <2>1. \A k \in Job : Left(k)
    BY <1>3 DEF RecoverNullRetries, NullRetry, Running, Over
  <2>2. QED
    BY <1>3, <1>a, <2>1 DEF RecoverNullRetries
<1>4. ASSUME NEW a \in Agent, FindTask(a) PROVE Goal
  BY <1>4, <1>b DEF FindTask, Answers, vars
<1>5. ASSUME NEW a \in Agent, Submit(a) PROVE Goal
  <2>1. CASE CreateJob(a, flow[a].job) /\ UNCHANGED lease
    <3>1. PICK j : j = flow[a].job
      OBVIOUS
    <3>2. \A k \in Job : Left(k)
      <4>1. \A k \in Job : k # j => jobs'[k] = jobs[k]
        BY <2>1, <3>1, <1>0 DEF CreateJob, Refuse, TypeOK
      <4>2. j \in Job => jobs[j].status = "absent"
        BY <1>0, <2>1, <3>1 DEF CreateJob, Serial, StillSo, Status
      <4>3. QED
        BY <4>1, <4>2 DEF Running, Over
    <3>3. QED
      BY <1>a, <2>1, <3>2 DEF CreateJob, Refuse
  <2>2. CASE ~(CreateJob(a, flow[a].job) /\ UNCHANGED lease)
    BY <1>5, <1>b, <2>2 DEF Submit, SubmitLookup, Begin, Answers, vars
  <2>3. QED
    BY <2>1, <2>2
<1>6. ASSUME NEW a \in Agent, ClaimExact(a) PROVE Goal
  <2>1. PICK j : j = flow[a].job /\ j \in Job
    BY <1>0, <1>6 DEF ClaimExact, FlowTyped, At, OfTask
  <2>2. CASE UNCHANGED <<vars, lease>>
    BY <1>b, <2>2 DEF vars
  <2>3. CASE Answers(a) /\ UNCHANGED vars
    BY <1>b, <2>3 DEF Answers, vars
  <2>4. CASE NamedClaim(a, j) /\ AnswersOwned(a, j) /\ UNCHANGED <<window, clock>>
    <3>1. /\ HoldsLease(a, j)' /\ jobs'[j].expires = clock + Lease
          /\ \A k \in Job \ {j} : jobs'[k] = jobs[k]
      BY <1>0, <2>1, <2>4 DEF NamedClaim, Leased, HoldsLease, Running, TypeOK, Row
    <3>2. \A b \in Agent \ {a} : lease[b][j] <= clock
      BY <1>0, <2>1, <2>4, NotCountedOn DEF NamedClaim, Running, Over, ToldInv
    <3>3. QED
      BY <2>1, <2>4, <3>1, <3>2, ToldNow DEF AnswersOwned
  <2>5. QED
    BY <1>6, <2>1, <2>2, <2>3, <2>4 DEF ClaimExact, NamedClaim
<1>7. ASSUME NEW a \in Agent, Renew(a) PROVE Goal
  <2>1. PICK j : j = flow[a].job /\ j \in Job
    BY <1>0, <1>7 DEF Renew, FlowTyped, At, OfTask
  <2>2. CASE CommitHeartbeat(a, j) /\ AnswersOwned(a, j)
    <3>1. Running(j) /\ jobs[j].owner = a
      BY <2>1, <2>2, OwnTask DEF CommitHeartbeat, Status
    <3>2. jobs' = [jobs EXCEPT ![j].expires = clock + Lease] /\ clock' = clock
      BY <2>2, <3>1 DEF CommitHeartbeat
    <3>3. /\ HoldsLease(a, j)' /\ jobs'[j].expires = clock + Lease
          /\ \A k \in Job \ {j} : jobs'[k] = jobs[k]
      BY <1>0, <2>1, <3>1, <3>2 DEF HoldsLease, Running, TypeOK, Row
    <3>4. \A b \in Agent \ {a} : lease[b][j] <= clock
      BY <2>1, <3>1, OthersDoNot
    <3>5. QED
      BY <2>1, <2>2, <3>2, <3>3, <3>4, ToldNow DEF AnswersOwned
  <2>3. CASE ~(CommitHeartbeat(a, j) /\ AnswersOwned(a, j))
    BY <1>7, <1>b, <2>1, <2>3 DEF Renew, BeginHeartbeat, Begin, Answers, vars
  <2>4. QED
    BY <2>2, <2>3
<1>8. ASSUME NEW a \in Agent, NEW j \in Job, NEW completed \in BOOLEAN,
             Handoff(a, j, completed)
      PROVE  Goal
  <2>1. lease' = [lease EXCEPT ![a] = [lease[a] EXCEPT ![j] = 0]] /\ UNCHANGED vars
    BY <1>8 DEF Handoff
  <2>2. \A b \in Agent, k \in Job : lease'[b][k] \in {0, lease[b][k]}
    BY <1>0, <2>1 DEF LeaseTyped
  <2>3. QED
    BY <1>0, <2>1, <2>2, NothingTold DEF vars, ToldInv
<1>9. ASSUME NEW a \in Agent, Complete(a) PROVE Goal
  <2>1. PICK j : j = flow[a].job /\ j \in Job
    BY <1>0, <1>9 DEF Complete, FlowTyped, At, OfTask
  <2>2. \A k \in Job : Left(k)
    <3>1. CASE jobs' = jobs
      BY <3>1
    <3>2. CASE jobs' # jobs
      <4>1. CommitMark(a, j, "succeeded", jobs[j].runAfter, "job_succeeded")
        BY <1>9, <2>1, <3>2 DEF Complete, BeginMark, Begin, vars
      <4>2. jobs' = [jobs EXCEPT ![j] = [Unleased(@, "succeeded") EXCEPT !.runAfter = jobs[j].runAfter]]
        BY <3>2, <4>1 DEF CommitMark, Refuse
      <4>3. /\ jobs'[j].status = "succeeded"
            /\ \A k \in Job \ {j} : jobs'[k] = jobs[k]
        BY <1>0, <2>1, <4>2 DEF Unleased, TypeOK, Row
      <4>4. QED
        BY <4>3 DEF Over
    <3>3. QED
      BY <3>1, <3>2
  <2>3. UNCHANGED <<lease, clock>>
    BY <1>9, <2>1 DEF Complete, BeginMark, Begin, CommitMark, Refuse, vars
  <2>4. QED
    BY <1>a, <2>2, <2>3
<1>10. ASSUME NEW a \in Agent, Release(a) PROVE Goal
  <2>1. PICK j : j = flow[a].job /\ j \in Job
    BY <1>0, <1>10 DEF Release, FlowTyped, At, OfTask
  <2>2. CASE CommitRelease(a, j) /\ At(a, "releasing")
    <3>1. Running(j) /\ jobs[j].owner = a
      BY <2>1, <2>2, OwnTask DEF CommitRelease, Status
    <3>2. /\ \A k \in Job \ {j} : jobs'[k] = jobs[k]
          /\ UNCHANGED <<lease, clock>>
      BY <1>0, <1>10, <2>1, <2>2 DEF Release, CommitRelease, Refuse, TypeOK
    <3>3. \A b \in Agent : lease[b][j] <= clock
      BY <1>0, <2>1, <2>2, <3>1, OthersDoNot DEF At, ToldInv, HandedOff
    <3>4. QED
      BY <1>0, <2>1, <3>2, <3>3, NothingTold
  <2>3. CASE ~(CommitRelease(a, j) /\ At(a, "releasing"))
    BY <1>10, <1>b, <2>1, <2>3 DEF Release, BeginRelease, Begin, vars
  <2>4. QED
    BY <2>2, <2>3
<1>11. ASSUME NEW a \in Agent, Note(a) PROVE Goal
  BY <1>11, <1>b DEF Note, Answers
<1>12. ASSUME NEW p \in Process, Stop(p) PROVE Goal
  <2>1. /\ UNCHANGED <<jobs, clock>>
        /\ \A b \in Agent, k \in Job : lease'[b][k] \in {0, lease[b][k]}
    BY <1>12 DEF Stop
  <2>2. QED
    BY <1>0, <2>1, NothingTold
<1>13. CASE Elapse
  <2>1. clock' = clock + 1 /\ UNCHANGED jobs
    BY <1>13 DEF Elapse, Tick
  <2>2. \A b \in Agent, k \in Job : lease'[b][k] \in {0, lease[b][k]}
    BY <1>13 DEF Elapse
  <2>3. clock' \in Nat /\ clock' >= clock
    BY <1>0, <2>1
  <2>4. QED
    BY <2>1, <2>2, <2>3, NothingTold
<1>14. CASE UNCHANGED hvars
  BY <1>14, <1>b DEF hvars, vars
<1>15. QED
  BY <1>1, <1>2, <1>3, <1>4, <1>5, <1>6, <1>7, <1>8, <1>9, <1>10, <1>11, <1>12, <1>13,
     <1>14 DEF HandoffNext, AgentStep
LEMMA HandedOffKept ==
    ASSUME ToldInv, [HandoffNext]_hvars PROVE HandedOff'
<1> DEFINE Off == {"complete", "completing", "release", "releasing"}
<1> USE DEF Agent
<1>0. FlowTyped /\ LeaseTyped /\ HandedOff
  BY DEF ToldInv, HandoffInv
<1>a. ASSUME NEW a \in Agent, \A b \in Agent \ {a} : flow'[b] = flow[b] /\ lease'[b] = lease[b],
             flow'[a].at \in Off => lease'[a][flow'[a].job] = 0
      PROVE  HandedOff'
  BY <1>0, <1>a DEF HandedOff
<1>b. ASSUME NEW a \in Agent, NEW s \in Step, Goes(a, s), UNCHANGED lease,
             s \in Off => flow[a].at \in Off
      PROVE  HandedOff'
  <2>1. /\ \A b \in Agent \ {a} : flow'[b] = flow[b] /\ lease'[b] = lease[b]
        /\ flow'[a].at = s /\ flow'[a].job = flow[a].job
    BY <1>0, <1>b DEF Goes, FlowTyped, Flow
  <2>2. s \in Off => lease[a][flow[a].job] = 0
    BY <1>0, <1>b DEF HandedOff
  <2>3. QED
    BY <1>a, <1>b, <2>1, <2>2
<1>c. ASSUME NEW a \in Agent, NEW s \in Step, NEW j \in Job, GoesWith(a, s, j),
             \A b \in Agent \ {a} : lease'[b] = lease[b], s \in Off => lease'[a][j] = 0
      PROVE  HandedOff'
  <2>1. /\ \A b \in Agent \ {a} : flow'[b] = flow[b]
        /\ flow'[a].at = s /\ flow'[a].job = j
    BY <1>0, <1>c DEF GoesWith, FlowTyped, Flow
  <2>2. QED
    BY <1>a, <1>c, <2>1
<1>d. ASSUME NEW a \in Agent, NEW f, flow' = [flow EXCEPT ![a] = f], f.at \notin Off,
             \A b \in Agent \ {a} : lease'[b] = lease[b]
      PROVE  HandedOff'
  BY <1>0, <1>a, <1>d DEF FlowTyped
<1>e. Free.at \notin Off
  BY DEF Free
<1>f. ASSUME NEW a \in Agent, NEW j, AnswersOwned(a, j) PROVE HandedOff'
  BY <1>0, <1>d, <1>e, <1>f DEF AnswersOwned, LeaseTyped
<1>g. ASSUME NEW a \in Agent, flow' = [flow EXCEPT ![a] = Free], UNCHANGED lease PROVE HandedOff'
  BY <1>d, <1>e, <1>g
<1>1. ASSUME NEW a \in Agent, NEW k \in Key, Checkpoint(a, k) PROVE HandedOff'
  BY <1>1, <1>d DEF Checkpoint
<1>2. ASSUME NEW a \in Agent, Recover(a) \/ RecoverNullRetries(a) PROVE HandedOff'
  BY <1>2, <1>b DEF Recover, RecoverNullRetries, Step
<1>3. ASSUME NEW a \in Agent, FindTask(a) PROVE HandedOff'
  BY <1>3, <1>c, <1>g DEF FindTask, Answers, Step
<1>4. ASSUME NEW a \in Agent, Submit(a) PROVE HandedOff'
  BY <1>4, <1>b, <1>c, <1>g DEF Submit, Answers, Step
<1>5. ASSUME NEW a \in Agent, ClaimExact(a) \/ Renew(a) PROVE HandedOff'
  BY <1>5, <1>b, <1>f, <1>g DEF ClaimExact, Renew, Answers, Step
<1>6. ASSUME NEW a \in Agent, NEW j \in Job, NEW completed \in BOOLEAN,
             Handoff(a, j, completed)
      PROVE  HandedOff'
  <2>1. /\ lease' = [lease EXCEPT ![a] = [lease[a] EXCEPT ![j] = 0]]
        /\ \E s \in Step : GoesWith(a, s, j)
    BY <1>6 DEF Handoff, Step
  <2>2. lease'[a][j] = 0 /\ \A b \in Agent \ {a} : lease'[b] = lease[b]
    BY <1>0, <2>1 DEF LeaseTyped
  <2>3. QED
    BY <1>c, <2>1, <2>2
<1>7. ASSUME NEW a \in Agent, Complete(a) PROVE HandedOff'
  BY <1>7, <1>b, <1>g DEF Complete, At, Step
<1>8. ASSUME NEW a \in Agent, Release(a) PROVE HandedOff'
  BY <1>8, <1>b, <1>g DEF Release, At, Step
<1>9. ASSUME NEW a \in Agent, Note(a) PROVE HandedOff'
  BY <1>9, <1>g DEF Note, Answers
<1>10. ASSUME NEW p \in Process, Stop(p) PROVE HandedOff'
  BY <1>0, <1>e, <1>10 DEF Stop, HandedOff
<1>11. CASE Elapse
  <2>1. flow' = flow /\ \A b \in Agent, k \in Job : lease'[b][k] \in {0, lease[b][k]}
    BY <1>11 DEF Elapse
  <2>2. \A b \in Agent : flow[b].at \in Off => flow[b].job \in Job
    BY <1>0 DEF FlowTyped, OfTask
  <2>3. QED
    BY <1>0, <2>1, <2>2 DEF HandedOff
<1>12. CASE UNCHANGED hvars
  BY <1>0, <1>12 DEF hvars, HandedOff
<1>13. QED
  BY <1>1, <1>2, <1>3, <1>4, <1>5, <1>6, <1>7, <1>8, <1>9, <1>10, <1>11, <1>12
     DEF HandoffNext, AgentStep

\* When the agents share one process: a checkpoint that answers "yours until then"
\* is right until then.  What recovery, a release or a heartbeat of another agent
\* has read still holds when it writes, so none of them meets a lease that was told.
THEOREM LeasesAsTold == ASSUME SingleProcess PROVE HandoffSpec => []LeaseAsTold
<1>1. HandoffInit => Serial /\ HandedOff /\ \A b \in Agent, k \in Job : ToldTruly(b, k)
  <2>1. HandoffInit => Serial
    BY DEF HandoffInit, Init, Serial, Inside, StillSo, Idle, LockedOps
  <2>2. HandoffInit => HandedOff
    BY FreeTyped DEF HandoffInit, HandedOff, OfTask
  <2>3. HandoffInit => \A b \in Agent, k \in Job : ToldTruly(b, k)
    BY DEF HandoffInit, Init, ToldTruly
  <2>4. QED
    BY <2>1, <2>2, <2>3
<1>2. HandoffInv /\ HandoffInv' /\ ToldInv /\ [HandoffNext]_hvars => ToldInv'
  BY SerialTools, TruthKept, HandedOffKept DEF ToldInv, HandoffInv
<1>3. ToldInv => LeaseAsTold
  BY DEF ToldInv, ToldTruly, LeaseAsTold, Over
<1>4. ToldInv <=> HandoffInv /\ (Serial /\ HandedOff /\ \A b \in Agent, k \in Job : ToldTruly(b, k))
  BY DEF ToldInv
<1>5. QED
  BY <1>1, <1>2, <1>3, <1>4, HandoffInvariant, PTL DEF HandoffSpec

-----------------------------------------------------------------------------
(* The abstract queue, when the agents are those of one process *)

\* A named claim grants an open job, the repair resumes parked ones, and a note
\* leaves the queue alone.
LEMMA ToolRefines ==
    ASSUME TypeOK, LeaseConsistent, ToolWrite
    PROVE  [Queue!LQNext]_(Queue!lqVars) /\ LegalMoves /\ LiveLeasesSpared
<1> USE DEF TypeOK, Row
<1>1. ASSUME \A k \in Job : jobs'[k].status = jobs[k].status /\ jobs'[k].owner = jobs[k].owner
      PROVE  UNCHANGED Queue!lqVars
  BY <1>1 DEF Queue!lqVars
<1>2. ASSUME NEW a \in Agent, NEW j \in Job, NamedClaim(a, j)
      PROVE  Queue!LQNext /\ LegalMoves /\ LiveLeasesSpared
  <2>1. /\ jobs[j].status = "pending" /\ ~ResourceHeld(j)
        /\ jobs'[j].status = "running" /\ jobs'[j].owner = a
    BY <1>2 DEF NamedClaim, Leased
  <2>2. \A k \in Job \ {j} : jobs'[k] = jobs[k]
    BY <1>2 DEF NamedClaim
  <2>3. \A k \in Job : PhaseOf(jobs[k].status) = "held" => Running(k)
    BY Phases DEF Status, Running
  <2>4. Queue!Grant(j, a)
    BY <2>1, <2>2, <2>3, Phases DEF Queue!Grant, ResourceHeld
  <2>5. a \in Thread
    BY DEF Agent
  <2>6. LegalMoves
    BY <2>1, <2>2 DEF LegalMoves, ValidTransitions
  <2>7. LiveLeasesSpared
    BY <2>1, <2>2 DEF LiveLeasesSpared, Running
  <2>8. QED
    BY <2>4, <2>5, <2>6, <2>7 DEF Queue!LQNext
<1>3. ASSUME Repairs
      PROVE  [Queue!LQNext]_(Queue!lqVars) /\ LegalMoves /\ LiveLeasesSpared
  <2> DEFINE js == {k \in Job : NullRetry(k)}
  <2>1. \A k \in Job \ js : jobs'[k] = jobs[k]
    BY <1>3 DEF Repairs
  <2>2. \A k \in js : /\ jobs[k].status = "retry_scheduled" /\ jobs'[k].status = "pending"
                     /\ jobs'[k].owner = jobs[k].owner
    BY <1>3 DEF Repairs, NullRetry
  <2> HIDE DEF js
  <2>3. js \in SUBSET Job
    BY DEF js
  <2>4. ASSUME js = {} PROVE UNCHANGED Queue!lqVars
    BY <1>1, <2>1, <2>4
  <2>5. ASSUME js # {} PROVE Queue!LQNext
    <3>1. Queue!Move(js, [k \in js |-> "open"])
      BY <2>1, <2>2, <2>3, Phases DEF Queue!Move
    <3>2. UNCHANGED [k \in Job |-> jobs[k].owner]
      BY <2>1, <2>2
    <3>3. Queue!Resume(js)
      BY <2>2, <2>3, <2>5, <3>1, <3>2, Phases DEF Queue!Resume
    <3>4. QED
      BY <2>3, <3>3 DEF Queue!LQNext
  <2>6. LegalMoves
    BY <2>1, <2>2 DEF LegalMoves, ValidTransitions
  <2>7. LiveLeasesSpared
    BY <2>1, <2>2 DEF LiveLeasesSpared, Running
  <2>8. QED
    BY <2>4, <2>5, <2>6, <2>7
<1>4. ASSUME NEW j \in Job, Notes(j)
      PROVE  (UNCHANGED Queue!lqVars) /\ LegalMoves /\ LiveLeasesSpared
  <2>1. jobs' = jobs
    BY <1>4 DEF Notes
  <2>2. QED
    BY <1>1, <2>1 DEF LegalMoves, LiveLeasesSpared, Running
<1>5. QED
  BY <1>2, <1>3, <1>4 DEF ToolWrite

\* Between the tools and the table's own calls of one process, what a call has
\* read still holds when it writes.
LEMMA ToolsAreSerial == ASSUME SingleProcess PROVE HandoffSpec => []Serial
<1>1. HandoffInit => Serial
  BY DEF HandoffInit, Init, Serial, Inside, StillSo, Idle, LockedOps
<1>2. HandoffInv /\ Serial /\ [HandoffNext]_hvars => Serial'
  BY SerialTools DEF HandoffInv
<1>3. QED
  BY <1>1, <1>2, HandoffInvariant, PTL DEF HandoffSpec

\* checkpoint and handoff implement the abstract queue although claim_exact and
\* the repair go around QueueService, and leave it nothing it would not do itself.
THEOREM ToolsImplementQueue ==
    ASSUME SingleProcess
    PROVE  HandoffSpec => ImplementsLeaseQueue /\ LegalTransitions /\ LiveLeaseKept
<1>1. HandoffInit => Queue!LQInit
  BY Phases DEF HandoffInit, Init, NoRow, Queue!LQInit
<1>2. /\ HandoffInv /\ HandoffInv' /\ LeaseConsistent /\ Serial /\ [HandoffNext]_hvars
      => [Queue!LQNext]_(Queue!lqVars) /\ [LegalMoves]_vars /\ [LiveLeasesSpared]_vars
  <2>1. ASSUME HandoffInv, HandoffInv', LeaseConsistent, Serial, [HandoffNext]_hvars
        PROVE  /\ [Queue!LQNext]_(Queue!lqVars) /\ [LegalMoves]_vars /\ [LiveLeasesSpared]_vars
    <3>1. TypeOK /\ TypeOK' /\ ([Next]_vars \/ ToolWrite)
      BY <2>1, StepsOfTools DEF HandoffInv
    <3>2. CASE ToolWrite
      BY <2>1, <3>1, <3>2, ToolRefines
    <3>3. CASE [Next]_vars
      BY <2>1, <3>1, <3>3, StepsOfSerialTable, SerialRefines, SerialMoves, SerialSpares
    <3>4. QED
      BY <3>1, <3>2, <3>3
  <2>2. QED
    BY <2>1
<1>3. QED
  BY <1>1, <1>2, HandoffInvariant, HandoffLeases, ToolsAreSerial, PTL
     DEF HandoffSpec, ImplementsLeaseQueue, Queue!LQSpec, LegalTransitions, LiveLeaseKept
=============================================================================
