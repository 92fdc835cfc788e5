SPECIFICATION AgentsSpec
CONSTANTS
    p1 = p1  p2 = p2  p3 = p3  h1 = h1  h2 = h2
    a = a  b = b  late = late  big = big  k = k  m1 = m1  m2 = m2

    Agent = {agent}
    Part = {p1, p2, p3}
    Host <- Processes
    Reaper = {p2, p3}
    Capability = {c}
    Timeout = 1

    NoKey = NoKey
    NoPlan = NoPlan
    ToolTask = {a, b, late, big}
    Client = {m1, m2}
    ToolUses <- ToolRoles
    Needs <- ToolNeeds
    TaskKey <- ToolKeys
    TaskLock <- ToolLocks
    Later = {late}
    Refused = {big}
    TaskBatches <- ToolBatches
    Cost <- ToolCost
    MinimalCost = 2
    CapsuleBudget = 2
    CapsuleItems = 2

INVARIANT QueueAsTold
PROPERTY FleetIsSeen
