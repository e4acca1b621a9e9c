SPECIFICATION Spec
CONSTANTS
    Paths = {p, q, r}
    Files = {f1, f2, f3}
    Sizes = {1, 2}
    Limit = 3
    MaxFile = 2
    MaxUploads = 3
    MaxStuck = 1
    MaxInFlight = 2
    SharedWrites = FALSE
    None = None
SYMMETRY Alike
INVARIANTS
    TypeOK
    NothingUntracked
    UsageWithinLimit
    CopiesAreServable
PROPERTIES
    OldestFirst
CHECK_DEADLOCK FALSE
