------------------------------ MODULE MCAgents ------------------------------
(***************************************************************************)
(* What an MCP server does besides the queue: in a behaviour either agents *)
(* come and go, or the tools are used.                                     *)
(***************************************************************************)
EXTENDS AgentRegistry, TaskTools, TLC

VARIABLE side

CONSTANTS
    p1, p2, p3, h1, h2,          \* threads and their processes
    a, b, late, big, k, m1, m2   \* tasks and their clients

\* One agent; two threads of a process, and a scheduler elsewhere.
Processes == (p1 :> h1) @@ (p2 :> h1) @@ (p3 :> h2)

\* Two clients; b needs a, late takes the resource of a and has the key of b, big is too large.
ToolNeeds == [t \in ToolTask |-> IF t = b THEN {a} ELSE {}]
ToolKeys == [t \in ToolTask |-> IF t \in {b, late} THEN k ELSE NoKey]
ToolLocks == [t \in ToolTask |-> IF t \in {a, late} THEN k ELSE NoKey]
ToolBatches == {<<a, big>>, <<b, late>>}
ToolRoles == (m1 :> {"enqueue", "complete", "close", "work"}) @@ (m2 :> {"accept", "archive", "delete", "explain", "capsule"})
ToolCost == [t \in ToolTask |-> IF t = a THEN 3 ELSE 1]

\* Workers have only a: late waits for its resource.  Nothing is dead-lettered.
OfTheseTools ==
    ~ \/ tasks'[late].status \in {"running", "retry_scheduled"}
      \/ tasks'[b].status = "retry_scheduled"
      \/ \E c \in Client :
            /\ plan'[c] # plan[c] /\ plan'[c] # NoPlan /\ ~plan'[c].entry
            /\ plan'[c].task = late \/ plan'[c].status \notin {"succeeded", "failed", "pending"}

-----------------------------------------------------------------------------
AgentsInit ==
    /\ side \in {"agents", "tools"}
    /\ AgentInit /\ ToolInit

AgentsNext ==
    /\ UNCHANGED side
    /\ \/ side = "agents" /\ AgentNext /\ UNCHANGED toolVars
       \/ side = "tools" /\ ToolNext /\ OfTheseTools /\ UNCHANGED agentVars

\* Agents are treated fairly where there are any.
AgentsSpec ==
    /\ AgentsInit
    /\ [][AgentsNext]_<<side, agentVars, toolVars>>
    /\ AgentFairness
=============================================================================
