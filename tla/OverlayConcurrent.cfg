SPECIFICATION Spec
CONSTANTS
    a = a
    b = b
    small = small
    large = large
    Paths = {a, b}
    Contents = {small, large}
    SizeOf <- MCSizeOf
    Ids = {1, 2}
    Clients = {c1, c2}
    Kinds = {"PUT", "DELETE", "LIST"}
    Seeds <- SeedA
    SeedContent = small
    MaxRequests = 4
    SharedWrites = FALSE
    Expiry = FALSE
    Failures = TRUE
    Restarts = TRUE
    None = None
    Unsure = Unsure
    DupName = DupName
INVARIANTS
    AckedWriteSurvives
    TombstoneHides
PROPERTIES
    FilesImplemented
\* Requests are bounded and then everything may come to rest.
CHECK_DEADLOCK FALSE
