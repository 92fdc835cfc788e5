SPECIFICATION Spec
CONSTANTS
    j1 = j1  j2 = j2  j3 = j3  t1 = t1  t2 = t2  t3 = t3  p1 = p1  p2 = p2
    key = key  path = path  kind = kind
    Job = {j1, j2}
    Thread = {t1, t2}
    Process = {p1, p2}
    None = None
    ProcessOf <- TwoProcesses
    Uses <- EveryCall
    KeyOf <- NoneOfJob
    ResourceOf <- OnePath
    DepsOf <- NoDeps
    TypeOf <- OneType
    TypeFilter <- AnyType
    TypeLimit <- NoLimit
    MaxAttempts <- Twice
    StartDelay <- AtOnce
    Lease = 1
    Backoff <- OneUnit
    MaxClock = 2
    MaxClaims = 2
INVARIANTS LeaseConsistent ResourceExclusive LedgerCurrent
SYMMETRY Symmetry
CHECK_DEADLOCK FALSE
