SPECIFICATION Spec
CONSTANTS
    j1 = j1  j2 = j2  j3 = j3  t1 = t1  t2 = t2  t3 = t3  p1 = p1  p2 = p2
    key = key  path = path  kind = kind
    Job = {j1, j2, j3}
    Thread = {t1, t2}
    Process = {p1, p2}
    None = None
    ProcessOf <- OneProcess
    Uses <- EveryCall
    KeyOf <- KeyPair
    ResourceOf <- PathPair
    DepsOf <- LastAfterSecond
    TypeOf <- OneType
    TypeFilter <- AnyType
    TypeLimit <- NoLimit
    MaxAttempts <- Twice
    StartDelay <- AtOnce
    Lease = 1
    Backoff <- OneUnit
    MaxClock = 1
    MaxClaims = 2
INVARIANTS StartedAfterDependencies EventTellsStatus
SYMMETRY ThreadSymmetry
PROPERTIES LegalTransitions LiveLeaseKept
CHECK_DEADLOCK FALSE
