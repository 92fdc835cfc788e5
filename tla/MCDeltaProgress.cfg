SPECIFICATION FairLoggedSpec
CONSTANTS
    a = a  b = b  c = c
    Task = {a, b, c}
    Mine = {a, b}
    NoPage = NoPage
    DepsOf <- BAfterA
    Target = {"running", "succeeded"}
    Size <- Sizes
    ChangeExtra = 1
    BaseSize = 2
    TokenBudget = 6
    MaxItems = 2
    ScanLimit = 2
    MaxRevision = 5
INVARIANT UnchangedIsCurrent
PROPERTY EventuallyCurrent
