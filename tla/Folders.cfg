SPECIFICATION FairSpec
CONSTANTS
    Dirs = {a, b}
    FolderIds = {1, 2, 3}
    FileIds = {11, 12, 13}
    Clients = {c1, c2}
    Kinds = {"MKCOL", "DELETE", "MOVE", "PUT", "LIST", "LISTDIR"}
    Attempts = 2
    MaxRequests = 3
    MaxLost = 1
    Restarts = TRUE
    None = None
    Unsure = Unsure
    DupName = DupName
INVARIANTS
    TypeOK
    OneFolderPerPath
    LockIsHeld
    AckedFileSurvives
PROPERTIES
    EveryRequestEnds
\* Requests are bounded.
CHECK_DEADLOCK FALSE
