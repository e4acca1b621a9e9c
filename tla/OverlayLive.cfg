SPECIFICATION FairSpec
CONSTANTS
    a = a
    b = b
    small = small
    large = large
    Paths = {a, b}
    Contents = {small}
    SizeOf <- MCSizeOf
    Ids = {1, 2, 3, 4}
    Clients = {c1, c2}
    Kinds = {"PUT", "DELETE", "MOVE", "LIST", "STAT"}
    Seeds <- BothSeeds
    SeedContent = small
    MaxRequests = 2
    SharedWrites = TRUE
    Expiry = TRUE
    Failures = FALSE
    Restarts = FALSE
    None = None
    Unsure = Unsure
    DupName = DupName
INVARIANTS
    DeleteNotForgotten
PROPERTIES
    DeleteReachesRemote
    EveryRequestEnds
\* Requests are bounded and then everything may come to rest.
CHECK_DEADLOCK FALSE
