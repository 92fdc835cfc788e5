SPECIFICATION FairPoolSpec
CONSTANTS
    j1 = j1  j2 = j2  m1 = m1  e1 = e1  e2 = e2  s1 = s1
    client = client  p1 = p1  p2 = p2  kind = kind
    Job = {j1, j2}
    Thread = {m1, e1, e2, s1, client}
    Process = {p1, p2}
    Pool = {m1}
    Executor = {e1, e2}
    Scheduler = {s1}
    PoolOf <- Owner
    MaxConcurrent = 2
    None = None
    ProcessOf <- Daemon
    Uses <- Calls
    KeyOf <- NoneOfJob
    ResourceOf <- NoneOfJob
    DepsOf <- NoDeps
    TypeOf <- OneType
    TypeFilter <- AnyType
    TypeLimit <- LimitOne
    MaxAttempts <- Differ
    StartDelay <- AtOnce
    Lease = 1
    Backoff <- OneUnit
    MaxClock = 2
    MaxClaims = 2
INVARIANTS LeaseIsWorkedOn AttemptHandledOnce DeadLetterEarned
PROPERTIES StopDrains
CHECK_DEADLOCK FALSE
