---------------------------- MODULE MCWorkerPool ----------------------------
(* A daemon with two executors and its scheduler, and a process that       *)
(* submits two jobs, of which one may be tried twice.                      *)
EXTENDS WorkerPool

CONSTANTS j1, j2, m1, e1, e2, s1, client, p1, p2, kind

Daemon == [t \in Thread |-> IF t = client THEN p2 ELSE p1]
Owner == [t \in Executor \cup Scheduler |-> m1]

Calls == [t \in Thread |->
            CASE t \in Pool -> {"claim"}
              [] t \in Executor -> {"succeeded", "failed", "decide"}
              [] t \in Scheduler -> {"promote", "recover"}
              [] OTHER -> {"submit"}]

NoneOfJob == [j \in Job |-> None]
NoDeps == [j \in Job |-> {}]
OneType == [j \in Job |-> kind]
AnyType == [t \in Thread |-> {kind}]
LimitOne == [t \in Thread |-> [k \in {kind} |-> 1]]
Differ == [j \in Job |-> IF j = j1 THEN 2 ELSE 1]
AtOnce == [j \in Job |-> 0]
OneUnit == [n \in 0..MaxClaims |-> 1]
=============================================================================
