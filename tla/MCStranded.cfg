SPECIFICATION FairSpec
CONSTANTS
    j1 = j1  j2 = j2  j3 = j3  t1 = t1  t2 = t2  t3 = t3  p1 = p1  p2 = p2
    key = key  path = path  kind = kind
    Job = {j1}
    Thread = {t1, t3}
    Process = {p1, p2}
    None = None
    ProcessOf <- OneProcess
    Uses <- PlainWorkers
    KeyOf <- NoneOfJob
    ResourceOf <- NoneOfJob
    DepsOf <- NoDeps
    TypeOf <- OneType
    TypeFilter <- AnyType
    TypeLimit <- LimitOne
    MaxAttempts <- Once
    StartDelay <- AtOnce
    Lease = 1
    Backoff <- OneUnit
    MaxClock = 3
    MaxClaims = 2
PROPERTIES ExpiredLeaseReturned
CHECK_DEADLOCK FALSE
