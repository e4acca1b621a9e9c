SPECIFICATION Spec
CONSTANTS
    a = a
    b = b
    small = small
    large = large
    Paths = {a}
    Contents = {small, large}
    SizeOf <- MCSizeOf
    Ids = {1, 2, 3, 4}
    Clients = {c1}
    Kinds = {"PUT", "DELETE", "LIST", "STAT"}
    Seeds <- NoSeeds
    SeedContent = small
    MaxRequests = 6
    SharedWrites = FALSE
    Expiry = FALSE
    Failures = FALSE
    Restarts = FALSE
    None = None
    Unsure = Unsure
    DupName = DupName
INVARIANTS
    TypeOK
    PutVisible
    DeletedNeverRevives
PROPERTIES
    TrashOnlyWhatWasDeleted
\* Requests are bounded and then everything may come to rest.
CHECK_DEADLOCK FALSE
