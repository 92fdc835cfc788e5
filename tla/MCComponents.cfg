SPECIFICATION ComponentsSpec
CONSTANTS
    l1 = l1  l2 = l2  l3 = l3
    j1 = j1  j2 = j2  t1 = t1  t2 = t2  c1 = c1  c2 = c2  path = path  k = k
    q1 = q1  q2 = q2  u1 = u1  u2 = u2  u3 = u3  u4 = u4  u5 = u5
    h = h  o = o  s = s  v = v  i1 = i1  i2 = i2  i3 = i3  n1 = n1  n2 = n2  r1 = r1  r2 = r2  k1 = k1  k2 = k2

    Task = {l1, l2, l3}
    Mine = {l1, l2}
    NoPage = NoPage
    DepsOf <- LedgerDeps
    Target = {"running", "parked"}
    Size <- LedgerSizes
    ChangeExtra = 1
    BaseSize = 2
    TokenBudget = 7
    MaxItems = 2
    ScanLimit = 3
    MaxRevision = 4

    None = None
    PgJob = {j1, j2}
    PgThread = {t1, t2}
    Conn = {c1, c2}
    ConnOf <- PgOneEach
    PgUses <- PgRoles
    PgKey <- PgSameKey
    PgResource <- PgSameResource
    PgAttempts <- PgTwo
    PgLease = 1
    PgClaims = 3
    PgLastTime = 2

    NoUnit = NoUnit
    Process = {q1, q2}
    Unit = {u1, u2, u3, u4, u5}
    Style <- ConnStyles

    Transcript = {transcript}
    Bundle = {bundle}
    Message = {msg1, msg2}
    Person = {p1, p2}
    MaxImports = 2
    MaxIds = 2

    Config = {h, o, s, v}
    Kind <- SetupKinds
    Entry = {e}
    Version = {v1, v2}
    Installer = {i1, i2, i3}
    Bootstrap = {i3}
    MaxDeaths = 1
    Unlocked = Unlocked

    Pages = 2
    Slots = 4
    MaxCommit = 5

    Evidence = {1, 2, 3, 4}
    Matching = {2, 3}
    Failed = {1, 4}
    EvidenceHead <- ContractHeads
    Heads = {"h1", "h2"}
    EvidenceCost <- ContractCosts
    ReceiptCost = 1
    EvidenceBudgets = {2, 3, 5}
    EvidenceLimits = {2, 3}
    LeastRows = 3
    MostRows = 4
    RowsPerItem = 1

    AnswerBudget = 6
    MemoryCost = 2
    CandidateCost = 2
    TraceCost = 3
    MaxAnswer = 3

    Item = {n1, n2}
    ShareKind <- RecordKinds
    Limit = 1
    MaxText = 2

    Asker = {r1, r2}
    Reader = {r1}
    Memory = {k1, k2}
    StatusOf <- RecallStatuses
    Sees <- RecallSees
    Model <- RecallModel
    Hit = {k1}
    Near = {k2}
    Exact = {k1}
    Cap = 1

SYMMETRY Symmetry
INVARIANTS
    FollowsLedger WritesAsTold  SnapshotIsCommitted OmissionsVisible
    CommandsAsAsked CopiesAsAllowed ComparedAsSeen
PROPERTIES
    LiveLeaseSpared AsShown
CHECK_DEADLOCK FALSE
