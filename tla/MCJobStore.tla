----------------------------- MODULE MCJobStore -----------------------------
(* Small instances of JobStore: who shares the table, and what each does.  *)
EXTENDS JobStore, TLC

CONSTANTS j1, j2, j3, t1, t2, t3, p1, p2, key, path, kind

\* Jobs with equal attributes and threads in processes of their own (or all in
\* one) can be exchanged: processes do not occur in the state.
ThreadSymmetry == Permutations(Thread)
Symmetry == Permutations(Job) \cup Permutations(Thread)

\* Processes: one process for all threads, or one for each.
OneProcess == [t \in Thread |-> p1]
TwoProcesses == [t \in Thread |-> IF t = t1 THEN p1 ELSE p2]

\* Roles
EveryCall == [t \in Thread |-> Operation]

\* The daemon: pool threads and the scheduler thread; the scheduler's thread
\* also stands for whoever submits.  PlainWorkers report no retryable error.
Daemon(workerCalls) ==
    [t \in Thread |-> IF t = t3 THEN {"submit", "recover", "promote"}
                      ELSE workerCalls]
PlainWorkers == Daemon({"claim", "succeeded", "failed"})
RetryingWorkers == Daemon({"claim", "succeeded", "failed", "decide", "release"})

NoneOfJob == [j \in Job |-> None]
OnePath == [j \in Job |-> path]
\* j1 and j2 have one key, j1 and j3 need one resource.
KeyPair == [j \in Job |-> IF j = j3 THEN None ELSE key]
PathPair == [j \in Job |-> IF j = j2 THEN None ELSE path]
NoDeps == [j \in Job |-> {}]
LastAfterSecond == [j \in Job |-> IF j = j3 THEN {j2} ELSE {}]
OneType == [j \in Job |-> kind]
AnyType == [t \in Thread |-> {kind}]
NoLimit == [t \in Thread |-> [k \in {kind} |-> None]]
LimitOne == [t \in Thread |-> [k \in {kind} |-> 1]]
Once == [j \in Job |-> 1]
Twice == [j \in Job |-> 2]
AtOnce == [j \in Job |-> 0]
OneUnit == [n \in 0..MaxClaims |-> 1]
=============================================================================
