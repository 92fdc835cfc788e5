--------------------------- MODULE AgentRegistry ----------------------------
(***************************************************************************)
(* The registry of agents (storage/sqlite.py and storage/postgres.py, the  *)
(* calls of QueueService and the tools over them): registration,           *)
(* heartbeats, and the reaping of agents that stopped, which the scheduler,*)
(* the dashboard, checkpoint and the fleet view all run.  Every call reads *)
(* rows and then writes them by id; on SQLite the process's lock spans     *)
(* both, between processes nothing does.                                   *)
(*                                                                         *)
(* Times are kept as ages: how long ago the last heartbeat was.            *)
(***************************************************************************)
EXTENDS Integers, FiniteSets

CONSTANTS
    Agent,
    Part,        \* the threads that call the registry
    Host,        \* the process of a thread
    Reaper,      \* threads that reap: the scheduler's, the fleet view's
    Capability,  \* what an agent may declare
    Timeout      \* DEFAULT_AGENT_TIMEOUT

VARIABLES
    agents,  \* per agent: its row
    alive,   \* the agents that go on sending heartbeats
    within   \* per thread: the call in progress and what it has read

agentVars == <<agents, alive, within>>

\* Ages above the timeout are alike.
Ages == 0..Timeout + 1

Unregistered == [status |-> "none", age |-> 0, capability |-> {}]
Outwith == [op |-> "none", rows |-> {}, capability |-> {}, age |-> 0]

ASSUME AgentConstants ==
    /\ Reaper \subseteq Part
    /\ Timeout \in Nat

-----------------------------------------------------------------------------
\* The process's lock: one thread of a process is in the registry at a time.
FreeLock(p) == \A q \in Part : Host[q] = Host[p] => within[q] = Outwith

Enters(p, op, rows, capability) ==
    /\ FreeLock(p)
    /\ within' = [within EXCEPT ![p] = [op |-> op, rows |-> rows, capability |-> capability, age |-> 0]]
    /\ UNCHANGED <<agents, alive>>

Leaves(p) == within' = [within EXCEPT ![p] = Outwith]

\* register_agent reads the row; capabilities that are not given are the row's.
BeginRegister(p, a, given) ==
    /\ p \notin Reaper
    /\ a \in alive
    /\ Enters(p, "register", {a}, IF given = {} THEN agents[a].capability ELSE given)

Register(p) ==
    /\ within[p].op = "register"
    /\ \E a \in within[p].rows :
          agents' = [agents EXCEPT ![a] = [status |-> "online", age |-> within[p].age,
                                           capability |-> within[p].capability]]
    /\ Leaves(p)
    /\ UNCHANGED alive

\* agent_heartbeat: refused for an agent that is not registered.
BeginBeat(p, a) ==
    /\ p \notin Reaper
    /\ a \in alive /\ agents[a].status # "none"
    /\ Enters(p, "beat", {a}, {})

WrongBeat(p) ==   \* BUG (FleetIsSeen): a reaped agent is not brought back
    /\ within[p].op = "beat"
    /\ \E a \in within[p].rows : agents' = [agents EXCEPT ![a].age = within[p].age]
    /\ Leaves(p)
    /\ UNCHANGED alive

Beat(p) ==
    /\ within[p].op = "beat"
    /\ \E a \in within[p].rows :
          agents' = [agents EXCEPT ![a].status = "online", ![a].age = within[p].age]
    /\ Leaves(p)
    /\ UNCHANGED alive

StaleRow(a) == agents[a].status = "online" /\ agents[a].age > Timeout

\* mark_stale_agents_offline: the rows are selected, then updated by id.
BeginReap(p) ==
    /\ p \in Reaper
    /\ Enters(p, "reap", {a \in Agent : StaleRow(a)}, {})

Reap(p) ==
    /\ within[p].op = "reap"
    /\ agents' = [a \in Agent |->
           IF a \in within[p].rows THEN [agents[a] EXCEPT !.status = "offline"] ELSE agents[a]]
    /\ Leaves(p)
    /\ UNCHANGED alive

\* The process dies: its calls and its lock are gone.
Exit(p) ==
    /\ \E q \in Part : Host[q] = Host[p] /\ within[q] # Outwith
    /\ within' = [q \in Part |-> IF Host[q] = Host[p] THEN Outwith ELSE within[q]]
    /\ UNCHANGED <<agents, alive>>

\* An agent stops, or is started again.
Stops(a) == alive' = alive \ {a} /\ UNCHANGED <<agents, within>>
Starts(a) == alive' = alive \cup {a} /\ UNCHANGED <<agents, within>>

Older(age) == IF age > Timeout THEN age ELSE age + 1

Passes ==
    /\ agents' = [a \in Agent |-> [agents[a] EXCEPT !.age = Older(@)]]
    /\ within' = [p \in Part |->
           IF within[p] = Outwith THEN Outwith ELSE [within[p] EXCEPT !.age = Older(@)]]
    /\ UNCHANGED alive

-----------------------------------------------------------------------------
AgentInit ==
    /\ agents = [a \in Agent |-> Unregistered]
    /\ alive = Agent
    /\ within = [p \in Part |-> Outwith]

Registry(p) == Register(p) \/ Beat(p) \/ Reap(p)

AgentNext ==
    \/ \E p \in Part :
          \/ \E a \in Agent, given \in SUBSET Capability : BeginRegister(p, a, given)
          \/ \E a \in Agent : BeginBeat(p, a)
          \/ BeginReap(p)
          \/ Registry(p)
          \/ Exit(p)
    \/ \E a \in Agent : Stops(a) \/ Starts(a)
    \/ Passes

\* A live agent beats again and again, a call that is started and not killed
\* every time ends, the scheduler's tick comes round, and time passes.
AgentFairness ==
    /\ \A a \in Agent : SF_agentVars(\E p \in Part : BeginBeat(p, a))
    /\ \A p \in Part : SF_agentVars(Registry(p))
    /\ \A p \in Reaper : SF_agentVars(BeginReap(p))
    /\ WF_agentVars(Passes)

AgentSpec == AgentInit /\ [][AgentNext]_agentVars /\ AgentFairness

-----------------------------------------------------------------------------
\* The fleet view "reflects who is actually available" (mcp_server.py:512): an
\* agent that keeps beating is not offline for good, also if a heartbeat and a
\* reap of another process cross; one that has stopped does not stay online.
FleetIsSeen ==
    \A a \in Agent :
        /\ <>[](a \in alive /\ agents[a].status # "none") => []<>(agents[a].status = "online")
        /\ <>[](a \notin alive) => <>[](agents[a].status # "online")
=============================================================================
