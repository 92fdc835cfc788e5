SPECIFICATION FairHandoffSpec
CONSTANTS
    j1 = j1  j2 = j2  t1 = t1  t2 = t2  p1 = p1  p2 = p2
    key = key  path = path  kind = kind
    Job = {j1, j2}
    Thread = {t1, t2}
    Process = {p1}
    None = None
    ProcessOf <- OneProcess
    Uses <- EveryAgent
    KeyOf <- OneKey
    ResourceOf <- OnePath
    DepsOf <- NoDeps
    TypeOf <- OneType
    TypeFilter <- AnyType
    TypeLimit <- NoLimit
    MaxAttempts <- Once
    StartDelay <- AtOnce
    Lease = 1
    Backoff <- OneUnit
    MaxClock = 1
    MaxClaims = 2
INVARIANT LeaseAsTold
PROPERTY ExpiredLeaseReturned
CHECK_DEADLOCK FALSE
